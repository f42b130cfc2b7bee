--------------------------- MODULE HashJoinProofs ---------------------------
(***************************************************************************)
(* Proofs about HashJoin: for inputs of any length, any budget, chunks,    *)
(* partitions and filters it frees its runs in time and implements         *)
(* OperatorStream, for any equality and any hash; its loops always go on   *)
(* to their end.                                                           *)
(***************************************************************************)
EXTENDS HashJoin, FiniteSetTheorems, WellFoundedInduction, TLAPS

Distinct(s) == \A i, j \in 1 .. Len(s) : s[i] = s[j] => i = j

(* Sequences as the proofs use them.                                       *)
LEMMA Elements ==
    ASSUME NEW S, NEW s \in Seq(S)
    PROVE  /\ ToSet(s) = { s[i] : i \in 1 .. Len(s) } /\ ToSet(s) \subseteq S
           /\ DOMAIN s = 1 .. Len(s) /\ Len(s) \in Nat
           /\ s = <<>> <=> Len(s) = 0
           /\ s = <<>> <=> ToSet(s) = {}
<1>1. DOMAIN s = 1 .. Len(s) /\ Len(s) \in Nat /\ (s = <<>> <=> Len(s) = 0)
  OBVIOUS
<1>2. ToSet(s) = { s[i] : i \in 1 .. Len(s) } /\ ToSet(s) \subseteq S
  BY <1>1 DEF ToSet
<1>3. s # <<>> => s[1] \in ToSet(s)
  BY <1>1, <1>2
<1>4. s = <<>> => ToSet(s) = {}
  BY <1>1, <1>2
<1> QED
  BY <1>1, <1>2, <1>3, <1>4

LEMMA Empty == ToSet(<<>>) = {} /\ Distinct(<<>>) /\ Len(<<>>) = 0 /\ \A S : <<>> \in Seq(S)
BY DEF ToSet, Distinct

(* A stretch of a sequence from the place after k.                         *)
LEMMA Stretch ==
    ASSUME NEW S, NEW s \in Seq(S), NEW k \in 0 .. Len(s)
    PROVE  LET t == SubSeq(s, k + 1, Len(s))
           IN  /\ t \in Seq(S) /\ Len(t) = Len(s) - k
               /\ \A i \in 1 .. Len(t) : t[i] = s[k + i]
               /\ ToSet(t) = { s[i] : i \in k + 1 .. Len(s) }
               /\ Distinct(s) => Distinct(t)
<1> DEFINE t == SubSeq(s, k + 1, Len(s))
<1>1. t \in Seq(S) /\ Len(t) = Len(s) - k /\ Len(s) \in Nat
  OBVIOUS
<1>2. \A i \in 1 .. Len(t) : t[i] = s[k + i] /\ k + i \in k + 1 .. Len(s)
  BY <1>1
<1>3. ToSet(t) = { t[i] : i \in 1 .. Len(t) }
  <2> HIDE DEF t
  <2> QED
    BY <1>1, Elements
<1>4. \A i \in k + 1 .. Len(s) : i - k \in 1 .. Len(t) /\ t[i - k] = s[i]
  <2> TAKE i \in k + 1 .. Len(s)
  <2>1. i - k \in 1 .. Len(t) /\ k + (i - k) = i
    BY <1>1
  <2> QED
    BY <1>2, <2>1
<1>5. ToSet(t) = { s[i] : i \in k + 1 .. Len(s) }
  <2> HIDE DEF t
  <2>1. \A x \in ToSet(t) : x \in { s[i] : i \in k + 1 .. Len(s) }
    BY <1>2, <1>3
  <2>2. \A x \in { s[i] : i \in k + 1 .. Len(s) } : x \in ToSet(t)
    <3> SUFFICES ASSUME NEW i \in k + 1 .. Len(s) PROVE s[i] \in ToSet(t)
      OBVIOUS
    <3> QED
      BY <1>3, <1>4
  <2> QED
    BY <2>1, <2>2
<1>6. Distinct(s) => Distinct(t)
  <2> SUFFICES ASSUME Distinct(s), NEW i \in 1 .. Len(t), NEW j \in 1 .. Len(t), t[i] = t[j]
               PROVE  i = j
    BY DEF Distinct
  <2>1. s[k + i] = s[k + j] /\ k + i \in 1 .. Len(s) /\ k + j \in 1 .. Len(s)
    BY <1>1, <1>2
  <2>2. k + i = k + j
    BY <2>1 DEF Distinct
  <2> QED
    BY <2>2
<1> QED
  BY <1>1, <1>2, <1>5, <1>6

LEMMA Beginning ==
    ASSUME NEW S, NEW s \in Seq(S), NEW n \in 0 .. Len(s)
    PROVE  LET t == SubSeq(s, 1, n)
           IN  /\ t \in Seq(S) /\ Len(t) = n
               /\ \A i \in 1 .. n : t[i] = s[i]
               /\ ToSet(t) = { s[i] : i \in 1 .. n }
               /\ Distinct(s) => Distinct(t)
<1> DEFINE t == SubSeq(s, 1, n)
<1>1. t \in Seq(S) /\ Len(t) = n /\ Len(s) \in Nat
  OBVIOUS
<1>2. \A i \in 1 .. n : t[i] = s[i]
  BY <1>1
<1>3. ToSet(t) = { t[i] : i \in 1 .. n }
  <2> HIDE DEF t
  <2> QED
    BY <1>1, Elements
<1>4. ToSet(t) = { s[i] : i \in 1 .. n }
  <2> HIDE DEF t
  <2> QED
    BY <1>2, <1>3
<1>5. Distinct(s) => Distinct(t)
  <2> HIDE DEF t
  <2> QED
    BY <1>1, <1>2 DEF Distinct
<1> QED
  BY <1>1, <1>2, <1>4, <1>5

(* The rows one to n of a sequence and the rows after them.                *)
LEMMA SplitAt ==
    ASSUME NEW S, NEW s \in Seq(S), NEW n \in 0 .. Len(s)
    PROVE  LET a == SubSeq(s, 1, n)
               b == SubSeq(s, n + 1, Len(s))
           IN  /\ a \in Seq(S) /\ b \in Seq(S) /\ Len(a) = n
               /\ ToSet(s) = ToSet(a) \cup ToSet(b)
               /\ Distinct(s) => Distinct(a) /\ Distinct(b) /\ ToSet(a) \cap ToSet(b) = {}
<1> DEFINE a == SubSeq(s, 1, n)
           b == SubSeq(s, n + 1, Len(s))
<1>1. a \in Seq(S) /\ Len(a) = n /\ ToSet(a) = { s[i] : i \in 1 .. n }
      /\ (Distinct(s) => Distinct(a))
  BY Beginning
<1>2. b \in Seq(S) /\ ToSet(b) = { s[i] : i \in n + 1 .. Len(s) }
      /\ (Distinct(s) => Distinct(b))
  BY Stretch
<1>3. ToSet(s) = { s[i] : i \in 1 .. Len(s) } /\ Len(s) \in Nat
  BY Elements
<1>4. 1 .. Len(s) = (1 .. n) \cup (n + 1 .. Len(s)) /\ (1 .. n) \cap (n + 1 .. Len(s)) = {}
  BY <1>3
<1> HIDE DEF a, b
<1>5. ToSet(s) = ToSet(a) \cup ToSet(b)
  BY <1>1, <1>2, <1>3, <1>4
<1>6. ASSUME Distinct(s) PROVE ToSet(a) \cap ToSet(b) = {}
  <2>1. \A i \in 1 .. n, j \in n + 1 .. Len(s) : s[i] # s[j]
    BY <1>4, <1>6 DEF Distinct
  <2> QED
    BY <1>1, <1>2, <2>1
<1> QED
  BY <1>1, <1>2, <1>5, <1>6 DEF a, b

LEMMA HeadAndTail ==
    ASSUME NEW S, NEW s \in Seq(S), s # <<>>
    PROVE  /\ Head(s) \in S /\ Tail(s) \in Seq(S)
           /\ ToSet(s) = {Head(s)} \cup ToSet(Tail(s))
           /\ Distinct(s) => Head(s) \notin ToSet(Tail(s)) /\ Distinct(Tail(s))
<1>1. /\ Head(s) = s[1] /\ Len(s) \in Nat /\ 0 < Len(s) /\ 1 \in 0 .. Len(s)
      /\ s[1] \in S /\ Tail(s) \in Seq(S)
  OBVIOUS
<1>t. Tail(s) = SubSeq(s, 1 + 1, Len(s))
  OBVIOUS
<1>2. 1 .. 1 = {1} /\ ToSet(SubSeq(s, 1, 1)) = { s[i] : i \in 1 .. 1 }
  BY <1>1, Beginning
<1>3. ToSet(SubSeq(s, 1, 1)) = {Head(s)}
  BY <1>1, <1>2
<1>4. /\ ToSet(s) = ToSet(SubSeq(s, 1, 1)) \cup ToSet(Tail(s))
      /\ Distinct(s) => /\ Distinct(Tail(s))
                        /\ ToSet(SubSeq(s, 1, 1)) \cap ToSet(Tail(s)) = {}
  <2> DEFINE a == SubSeq(s, 1, 1)
             b == SubSeq(s, 1 + 1, Len(s))
  <2>1. /\ ToSet(s) = ToSet(a) \cup ToSet(b)
        /\ Distinct(s) => Distinct(a) /\ Distinct(b) /\ ToSet(a) \cap ToSet(b) = {}
    BY <1>1, SplitAt, Zenon
  <2>2. Tail(s) = b
    BY <1>t
  <2> HIDE DEF a, b
  <2>3. /\ ToSet(s) = ToSet(a) \cup ToSet(Tail(s))
        /\ Distinct(s) => Distinct(Tail(s)) /\ ToSet(a) \cap ToSet(Tail(s)) = {}
    BY <2>1, <2>2
  <2> QED
    BY <2>3 DEF a
<1> QED
  BY <1>1, <1>3, <1>4

LEMMA Joined ==
    ASSUME NEW S, NEW s \in Seq(S), NEW t \in Seq(S)
    PROVE  /\ s \o t \in Seq(S) /\ ToSet(s \o t) = ToSet(s) \cup ToSet(t)
           /\ Distinct(s) /\ Distinct(t) /\ ToSet(s) \cap ToSet(t) = {} => Distinct(s \o t)
<1> DEFINE u == s \o t
<1>1. /\ u \in Seq(S) /\ Len(u) = Len(s) + Len(t) /\ Len(s) \in Nat /\ Len(t) \in Nat
      /\ \A i \in 1 .. Len(s) : u[i] = s[i]
  OBVIOUS
<1>2. \A i \in Len(s) + 1 .. Len(u) : i - Len(s) \in 1 .. Len(t) /\ u[i] = t[i - Len(s)]
  BY <1>1
<1>3. \A i \in 1 .. Len(t) : Len(s) + i \in 1 .. Len(u) /\ u[Len(s) + i] = t[i]
  BY <1>1
<1>4. /\ ToSet(u) = { u[i] : i \in 1 .. Len(u) } /\ ToSet(s) = { s[i] : i \in 1 .. Len(s) }
      /\ ToSet(t) = { t[i] : i \in 1 .. Len(t) }
  BY <1>1, Elements
<1>5. /\ \A i \in 1 .. Len(s) : i \in 1 .. Len(u)
      /\ \A i \in 1 .. Len(u) : i \in 1 .. Len(s) \/ i \in Len(s) + 1 .. Len(u)
  BY <1>1
<1> HIDE DEF u
<1>6. ToSet(u) = ToSet(s) \cup ToSet(t)
  BY <1>1, <1>2, <1>3, <1>4, <1>5
<1>7. ASSUME Distinct(s), Distinct(t), ToSet(s) \cap ToSet(t) = {} PROVE Distinct(u)
  <2> SUFFICES ASSUME NEW i \in 1 .. Len(u), NEW j \in 1 .. Len(u), u[i] = u[j] PROVE i = j
    BY DEF Distinct
  <2>1. CASE i \in 1 .. Len(s) /\ j \in 1 .. Len(s)
    BY <1>1, <1>7, <2>1 DEF Distinct
  <2>2. CASE i \in Len(s) + 1 .. Len(u) /\ j \in Len(s) + 1 .. Len(u)
    <3>1. i - Len(s) = j - Len(s)
      BY <1>2, <1>7, <2>2 DEF Distinct
    <3> QED
      BY <1>1, <3>1
  <2>3. CASE i \in 1 .. Len(s) /\ j \in Len(s) + 1 .. Len(u)
    BY <1>1, <1>2, <1>4, <1>7, <2>3
  <2>4. CASE j \in 1 .. Len(s) /\ i \in Len(s) + 1 .. Len(u)
    BY <1>1, <1>2, <1>4, <1>7, <2>4
  <2> QED
    BY <1>5, <2>1, <2>2, <2>3, <2>4
<1> QED
  BY <1>1, <1>6, <1>7 DEF u

(* A function from one to n that misses no element of a set of n has each  *)
(* of them once, and one that repeats none misses none.                    *)
LEMMA Listing ==
    ASSUME NEW S, IsFiniteSet(S), NEW s \in [1 .. Cardinality(S) -> S],
           \A i, j \in 1 .. Cardinality(S) : s[i] = s[j] => i = j
    PROVE  s \in Seq(S) /\ Len(s) = Cardinality(S) /\ ToSet(s) = S /\ Distinct(s)
<1> DEFINE n == Cardinality(S)
<1>1. n \in Nat /\ IsFiniteSet(1 .. n) /\ Cardinality(1 .. n) = n
  BY FS_CardinalityType, FS_Interval
<1>2. s \in Seq(S) /\ Len(s) = n /\ DOMAIN s = 1 .. n
  BY <1>1
<1>3. s \in Injection(1 .. n, S)
  BY DEF Injection, IsInjective
<1>4. s \in Surjection(1 .. n, S)
  BY <1>1, <1>3, FS_Injection
<1>5. ToSet(s) = S
  BY <1>2, <1>4 DEF Surjection, ToSet
<1>6. Distinct(s)
  BY <1>2 DEF Distinct
<1> QED
  BY <1>2, <1>5, <1>6

-----------------------------------------------------------------------------

(* Two keys that meet do so either way round, and in one partition.        *)
LEMMA MeetsFacts ==
    ASSUME NEW a \in Row, NEW b \in Row, Meets(a.key, b.key)
    PROVE  Meets(b.key, a.key) /\ Hash(a.key) = Hash(b.key) /\ Bucket(a) = Bucket(b)
BY JoinAssumption DEF Meets, Row, Bucket

(* A row is in one place of its side, and there once.                      *)
OnePlace ==
    /\ \A s \in Sides : /\ Distinct(child[s]) /\ Distinct(buffered[s])
                        /\ ToSet(child[s]) \cap ToSet(buffered[s]) = {}
    /\ \A s \in Sides, p \in Partition :
          Distinct(partitions[s][p]) /\ \A r \in ToSet(partitions[s][p]) : Bucket(r) = p
    /\ Distinct(build_side) /\ Distinct(probe_rest)
    /\ phase = "memory" => ToSet(probe_rest) \cap ToSet(child[Probe]) = {}
    /\ phase = "disk" => \A r \in ToSet(build_side) : Bucket(r) < current_partition

(* The matches are for the row moved out of the probe input.               *)
Matched ==
    /\ Distinct(matches)
    /\ \A l, m \in current_probe_row : l = m
    /\ matches # <<>> => current_probe_row # {} /\ current_probe_row \cap ProbeRows = {}
    /\ ProbeRowKept

Reading == {"left", "right", "build", "partition", "partition_right"}

Phased ==
    /\ phase \in Reading =>
          /\ matches = <<>> /\ build_side = <<>> /\ probe_rest = <<>>
          /\ current_probe_row = {} /\ ~done /\ ~dropped
    /\ phase # "disk" => current_partition = 0 /\ probe_run = {}
    /\ phase \in Reading \ {"partition_right"} =>
          \A s \in Sides, p \in Partition : partitions[s][p] = <<>>
    /\ phase = "partition_right" =>
          /\ \A p \in Partition : partitions["right"][p] = <<>>
          /\ buffered["left"] = <<>> /\ child["left"] = <<>>
    /\ phase \in {"left", "right", "build"} => \A s \in exhausted : child[s] = <<>>
    /\ phase = "build" => exhausted # {}
    /\ probe_filter = Bits(build_side)
    /\ done => matches = <<>> /\ probe_rest = <<>>
    /\ phase = "memory" /\ done => child[Probe] = <<>>
    /\ phase = "disk" /\ done => current_partition = NumPartitions
    /\ phase = "disk" /\ probe_run = {} => probe_rest = <<>>

(* A run that is still to be read has not been freed.                      *)
Freed ==
    /\ ~dropped => \A s \in Sides, p \in Partition :
          /\ p >= current_partition \/ <<s, p>> \in probe_run => freed[s][p] = 0
          /\ partitions[s][p] # <<>> /\ p < current_partition /\ <<s, p>> \notin probe_run
                => freed[s][p] = 1
    /\ dropped => \A s \in Sides, p \in Partition :
          partitions[s][p] # <<>> => freed[s][p] \in {1, 2}
    /\ \A run \in probe_run : run[2] < current_partition
    /\ \A a, b \in probe_run : a = b

Inv == TypeOK /\ OnePlace /\ Matched /\ Phased /\ Freed

-----------------------------------------------------------------------------
LEMMA Strings ==
    /\ Sides = {"left", "right"} /\ "left" # "right"
    /\ \A b \in BOOLEAN : b \/ ~b
BY DEF Sides

LEMMA PartitionNumbers ==
    ASSUME TypeOK
    PROVE  /\ current_partition \in Nat /\ NumPartitions \in Nat
           /\ \A p \in Partition : p \in Nat
           /\ current_partition < NumPartitions =>
                 current_partition \in Partition /\ current_partition + 1 \in 0 .. NumPartitions
BY JoinAssumption DEF TypeOK, Partition

LEMMA Buckets == ASSUME NEW r \in Row PROVE Hash(r.key) \in Nat /\ Bucket(r) \in Partition
<1>1. Hash(r.key) \in Nat /\ NumPartitions \in Nat \ {0}
  BY JoinAssumption DEF Row
<1> QED
  BY <1>1 DEF Bucket, Partition

(* A row whose key is that of a row the bits were made of passes them.     *)
LEMMA PassesBits ==
    ASSUME NEW rows \in Seq(Row), NEW b \in ToSet(rows), NEW r \in Row,
           Meets(b.key, r.key) \/ Meets(r.key, b.key)
    PROVE  MightContain(Bits(rows), r)
<1>1. b \in Row
  BY Elements
<1>2. Hash(b.key) = Hash(r.key)
  BY <1>1, MeetsFacts
<1> QED
  BY <1>2 DEF MightContain, Bits

LEMMA Ordered ==
    ASSUME NEW rows, rows \subseteq Row, IsFiniteSet(rows), NEW s \in InOrder(rows)
    PROVE  s \in Seq(Row) /\ ToSet(s) = rows /\ Distinct(s)
<1> DEFINE n == Cardinality(rows)
<1>1. s \in [1 .. n -> rows] /\ DOMAIN s = 1 .. n /\ n \in Nat
  BY FS_CardinalityType DEF InOrder
<1>2. \A i, j \in 1 .. n : i < j => s[i].id < s[j].id
  BY <1>1 DEF InOrder
<1>3. \A i \in 1 .. n : s[i].id \in Int
  BY <1>1, JoinAssumption DEF Row
<1>4. \A i, j \in 1 .. n : s[i] = s[j] => i = j
  <2> SUFFICES ASSUME NEW i \in 1 .. n, NEW j \in 1 .. n, s[i] = s[j], i # j PROVE FALSE
    OBVIOUS
  <2>1. i < j \/ j < i
    BY <1>1
  <2> QED
    BY <1>2, <1>3, <2>1
<1>5. s \in Seq(rows) /\ ToSet(s) = rows /\ Distinct(s)
  BY <1>1, <1>4, Listing
<1> QED
  BY <1>1, <1>5

LEMMA FiniteElements ==
    ASSUME NEW S, NEW s \in Seq(S) PROVE IsFiniteSet(ToSet(s))
<1>1. Len(s) \in Nat /\ ToSet(s) = { s[i] : i \in 1 .. Len(s) }
  BY Elements
<1>f. IsFiniteSet(1 .. Len(s))
  BY <1>1, FS_Interval
<1> DEFINE F == [i \in 1 .. Len(s) |-> s[i]]
<1>2. F \in Surjection(1 .. Len(s), ToSet(s))
  BY <1>1 DEF Surjection
<1> QED
  BY <1>f, <1>2, FS_Surjection

(* The filtered scan keeps every row that passes.                          *)
LEMMA ScanKeeps ==
    ASSUME NEW rows \in Seq(Row), NEW bits, NEW s \in ScanFiltered(rows, bits)
    PROVE  /\ s \in Seq(Row) /\ Distinct(s) /\ ToSet(s) \subseteq ToSet(rows)
           /\ \A r \in ToSet(rows) : MightContain(bits, r) => r \in ToSet(s)
<1>1. PICK batch \in 0 .. Len(rows) : s \in InOrder(Passing(rows, batch, bits))
  BY DEF ScanFiltered
<1>2. ToSet(rows) = { rows[i] : i \in DOMAIN rows } /\ ToSet(rows) \subseteq Row
  BY Elements DEF ToSet
<1>3. Passing(rows, batch, bits) \subseteq ToSet(rows)
      /\ \A r \in ToSet(rows) : MightContain(bits, r) => r \in Passing(rows, batch, bits)
  BY <1>2 DEF Passing
<1>4. IsFiniteSet(Passing(rows, batch, bits))
  BY <1>3, FiniteElements, FS_Subset
<1>5. s \in Seq(Row) /\ ToSet(s) = Passing(rows, batch, bits) /\ Distinct(s)
  BY <1>1, <1>2, <1>3, <1>4, Ordered
<1> QED
  BY <1>3, <1>5

(* A partitioned input: every row in its own partition.                    *)
LEMMA Partitioned ==
    ASSUME TypeOK, NEW s \in Sides, NEW ps \in PartitionInput(s)
    PROVE  /\ ps \in [Partition -> Seq(Row)]
           /\ \A p \in Partition : Distinct(ps[p]) /\ \A r \in ToSet(ps[p]) : Bucket(r) = p
           /\ UNION { ToSet(ps[p]) : p \in Partition } = ToSet(buffered[s]) \cup ToSet(child[s])
<1> DEFINE all == ToSet(buffered[s]) \cup ToSet(child[s])
<1>1. buffered[s] \in Seq(Row) /\ child[s] \in Seq(Row)
  BY DEF TypeOK
<1>2. all \subseteq Row /\ IsFiniteSet(all)
  BY <1>1, Elements, FiniteElements, FS_Union
<1>3. \A p \in Partition : InBucket(s, p) = { r \in all : Bucket(r) = p }
  BY DEF InBucket
<1> HIDE DEF all
<1>4. \A p \in Partition : InBucket(s, p) \subseteq Row /\ IsFiniteSet(InBucket(s, p))
  <2> TAKE p \in Partition
  <2>1. InBucket(s, p) \subseteq all
    BY <1>3
  <2> QED
    BY <1>2, <2>1, FS_Subset
<1>5. \A p \in Partition : ps[p] \in InOrder(InBucket(s, p))
  BY DEF PartitionInput
<1>6. \A p \in Partition :
         ps[p] \in Seq(Row) /\ ToSet(ps[p]) = InBucket(s, p) /\ Distinct(ps[p])
  BY <1>4, <1>5, Ordered
<1>7. DOMAIN ps = Partition /\ ps = [p \in Partition |-> ps[p]]
  BY DEF PartitionInput
<1>8. ps \in [Partition -> Seq(Row)]
  BY <1>6, <1>7
<1>9. \A r \in all : Bucket(r) \in Partition /\ r \in InBucket(s, Bucket(r))
  BY <1>2, <1>3, Buckets
<1> QED
  BY <1>3, <1>6, <1>8, <1>9 DEF all

(* The chain of a row: every match once.                                   *)
LEMMA Chained ==
    ASSUME TypeOK, NEW r \in Row, NEW m \in Chain(r)
    PROVE  m \in Seq(DOMAIN build_side) /\ ToSet(m) = Matching(r) /\ Distinct(m)
<1> DEFINE n == Cardinality(Matching(r))
<1>1. build_side \in Seq(Row) /\ DOMAIN build_side = 1 .. Len(build_side)
  BY Elements DEF TypeOK
<1>2. Matching(r) \subseteq 1 .. Len(build_side)
  BY <1>1 DEF Matching
<1>f. Len(build_side) \in Nat /\ IsFiniteSet(1 .. Len(build_side))
  BY <1>1, FS_Interval
<1>3. IsFiniteSet(Matching(r)) /\ Matching(r) \subseteq Nat
  BY <1>2, <1>f, FS_Subset
<1>4. m \in [1 .. n -> Matching(r)] /\ DOMAIN m = 1 .. n /\ n \in Nat
  BY <1>3, FS_CardinalityType DEF Chain
<1>5. \A i, j \in 1 .. n : i < j => m[i] > m[j]
  BY <1>4 DEF Chain
<1>6. \A i, j \in 1 .. n : m[i] = m[j] => i = j
  <2> SUFFICES ASSUME NEW i \in 1 .. n, NEW j \in 1 .. n, m[i] = m[j], i # j PROVE FALSE
    OBVIOUS
  <2>1. (i < j \/ j < i) /\ m[i] \in Nat
    BY <1>3, <1>4
  <2> QED
    BY <1>5, <2>1
<1>7. m \in Seq(Matching(r)) /\ ToSet(m) = Matching(r) /\ Distinct(m)
  BY <1>3, <1>4, <1>6, Listing
<1> QED
  BY <1>1, <1>2, <1>7

-----------------------------------------------------------------------------
LEMMA InitInv == Init => Inv
<1> SUFFICES ASSUME Init PROVE Inv
  OBVIOUS
<1>1. PICK keys \in [Sides -> BoundedSeq(Keys, MaxRows)] :
         child = [s \in Sides |-> [i \in DOMAIN keys[s] |-> [id |-> i, key |-> keys[s][i]]]]
  BY DEF Init
<1>2. \A s \in Sides : child[s] \in Seq(Row) /\ Distinct(child[s])
  <2> TAKE s \in Sides
  <2>1. PICK n \in 0 .. MaxRows : keys[s] \in [1 .. n -> Keys]
    BY DEF BoundedSeq, SeqOf
  <2>2. n \in Nat /\ n <= MaxRows /\ MaxRows \in Nat
    BY JoinAssumption
  <2>3. child[s] = [i \in 1 .. n |-> [id |-> i, key |-> keys[s][i]]]
    BY <1>1, <2>1
  <2>4. child[s] \in [1 .. n -> Row]
    BY <2>1, <2>2, <2>3 DEF Row
  <2>5. child[s] \in Seq(Row) /\ Len(child[s]) = n
    BY <2>2, <2>4
  <2>6. Distinct(child[s])
    BY <2>3, <2>5 DEF Distinct
  <2> QED
    BY <2>5, <2>6
<1>3. 0 \in 0 .. NumPartitions /\ <<>> \in Seq(Row) /\ <<>> \in Seq(DOMAIN <<>>)
  BY JoinAssumption, Empty
<1>4. \A s \in Sides, p \in Partition : partitions[s][p] = <<>>
  BY DEF Init, NoRuns
<1>5. TypeOK
  <2>1. child \in [Sides -> Seq(Row)]
    BY <1>1, <1>2
  <2>2. partitions \in [Sides -> [Partition -> Seq(Row)]] /\ buffered \in [Sides -> Seq(Row)]
        /\ freed \in [Sides -> [Partition -> Nat]]
    BY <1>3 DEF Init, NoRuns
  <2> QED
    BY <1>3, <2>1, <2>2 DEF Init, TypeOK, Sides
<1>6. OnePlace
  BY <1>2, <1>4, Empty DEF Init, OnePlace
<1>7. Matched
  BY Empty DEF Init, Matched, ProbeRowKept
<1>8. Phased
  <2>1. Bits(<<>>) = {}
    BY Empty DEF Bits
  <2> QED
    BY <1>4, <2>1 DEF Init, Phased, Reading
<1>9. Freed
  BY DEF Init, Freed, NoRuns, Partition
<1> QED
  BY <1>5, <1>6, <1>7, <1>8, <1>9 DEF Inv

(* What a chunk does to the side it is read from.                          *)
LEMMA ChunkRead ==
    ASSUME Inv, NEW s \in Sides, NEW other \in Sides, ReadChunk(s, other)
    PROVE  /\ child' \in [Sides -> Seq(Row)] /\ buffered' \in [Sides -> Seq(Row)]
           /\ \A t \in Sides \ {s} : child'[t] = child[t] /\ buffered'[t] = buffered[t]
           /\ Distinct(child'[s]) /\ Distinct(buffered'[s])
           /\ ToSet(child'[s]) \cap ToSet(buffered'[s]) = {}
           /\ ToSet(child'[s]) \cup ToSet(buffered'[s]) = ToSet(child[s]) \cup ToSet(buffered[s])
           /\ exhausted' \in {exhausted, exhausted \cup {s}}
           /\ s \in exhausted' => child'[s] = <<>> \/ s \in exhausted
           /\ phase' \in {"partition", "build", other}
           /\ phase' = "build" => s \in exhausted'
<1> DEFINE c == child[s]
           n == Min({ChunkSize, Len(c)})
           a == SubSeq(c, 1, n)
           b == SubSeq(c, n + 1, Len(c))
<1>1. c \in Seq(Row) /\ buffered[s] \in Seq(Row) /\ Len(c) \in Nat /\ ChunkSize \in Nat \ {0}
  BY JoinAssumption, Elements DEF Inv, TypeOK
<1>2. n \in {ChunkSize, Len(c)} /\ n <= ChunkSize /\ n <= Len(c)
  <2>1. \E x \in {ChunkSize, Len(c)} : \A y \in {ChunkSize, Len(c)} : x <= y
    BY <1>1
  <2> QED
    BY <2>1 DEF Min
<1>3. n \in 0 .. Len(c) /\ (n < ChunkSize => n = Len(c))
  BY <1>1, <1>2
<1>4. /\ buffered' = [buffered EXCEPT ![s] = @ \o a] /\ child' = [child EXCEPT ![s] = b]
      /\ exhausted' = IF n < ChunkSize THEN exhausted \cup {s} ELSE exhausted
  BY DEF ReadChunk
<1>5. phase' \in {"partition", "build", other} /\ (phase' = "build" => s \in exhausted')
  <2>1. phase' = CASE TotalSize(buffered') > Limit -> "partition"
                   [] TotalSize(buffered') <= Limit /\ s \in exhausted' -> "build"
                   [] OTHER -> other
    BY DEF ReadChunk
  <2>2. other # "build"
    BY DEF Sides
  <2>3. CASE TotalSize(buffered') > Limit /\ TotalSize(buffered') <= Limit
    <3>1. \A t \in Sides : buffered'[t] \in Seq(Row)
      BY <1>1, <1>3, <1>4, SplitAt, Joined DEF Inv, TypeOK
    <3>2. Len(buffered'["left"]) \in Nat /\ Len(buffered'["right"]) \in Nat
      BY <3>1, Elements DEF Sides
    <3>3. TotalSize(buffered') \in Int /\ Limit \in Int
      BY <3>2, JoinAssumption DEF TotalSize
    <3> QED
      BY <2>3, <3>3
  <2> DEFINE big == TotalSize(buffered') > Limit
             fit == TotalSize(buffered') <= Limit
  <2>4. ~(big /\ fit) => /\ big => phase' = "partition"
                         /\ ~big /\ fit /\ s \in exhausted' => phase' = "build"
                         /\ ~big /\ ~(fit /\ s \in exhausted') => phase' = other
    <3> HIDE DEF big, fit
    <3>1. phase' = CASE big -> "partition" [] fit /\ s \in exhausted' -> "build"
                     [] OTHER -> other
      BY <2>1 DEF big, fit
    <3> QED
      BY <3>1
  <2> HIDE DEF big, fit
  <2>5. CASE ~(big /\ fit)
    BY <2>2, <2>4, <2>5
  <2> QED
    BY <2>3, <2>5 DEF big, fit
<1>6. /\ a \in Seq(Row) /\ b \in Seq(Row) /\ ToSet(c) = ToSet(a) \cup ToSet(b)
      /\ Distinct(a) /\ Distinct(b) /\ ToSet(a) \cap ToSet(b) = {}
  <2>1. Distinct(c)
    BY DEF Inv, OnePlace
  <2> HIDE DEF n
  <2> QED
    BY <1>1, <1>3, <2>1, SplitAt
<1>7. n = Len(c) => b = <<>>
  <2> HIDE DEF n
  <2> QED
    BY <1>1
<1> HIDE DEF a, b, n
<1>8. /\ buffered[s] \o a \in Seq(Row)
      /\ ToSet(buffered[s] \o a) = ToSet(buffered[s]) \cup ToSet(a)
      /\ Distinct(buffered[s] \o a)
  <2>1. Distinct(buffered[s]) /\ ToSet(buffered[s]) \cap ToSet(a) = {}
    BY <1>6 DEF Inv, OnePlace
  <2> QED
    BY <1>1, <1>6, <2>1, Joined
<1>9. /\ buffered'[s] = buffered[s] \o a /\ child'[s] = b
      /\ child' \in [Sides -> Seq(Row)] /\ buffered' \in [Sides -> Seq(Row)]
      /\ \A t \in Sides \ {s} : child'[t] = child[t] /\ buffered'[t] = buffered[t]
  BY <1>4, <1>6, <1>8 DEF Inv, TypeOK
<1>10. ToSet(b) \cap ToSet(buffered[s]) = {}
  BY <1>6 DEF Inv, OnePlace
<1> QED
  BY <1>3, <1>4, <1>5, <1>6, <1>7, <1>8, <1>9, <1>10

LEMMA ReadChunkInv ==
    ASSUME Inv, NEW s \in Sides, NEW other \in Sides, ReadChunk(s, other) PROVE Inv'
<1> USE DEF Inv
<1>1. /\ child' \in [Sides -> Seq(Row)] /\ buffered' \in [Sides -> Seq(Row)]
      /\ \A t \in Sides \ {s} : child'[t] = child[t] /\ buffered'[t] = buffered[t]
      /\ Distinct(child'[s]) /\ Distinct(buffered'[s])
      /\ ToSet(child'[s]) \cap ToSet(buffered'[s]) = {}
      /\ exhausted' \in {exhausted, exhausted \cup {s}}
      /\ s \in exhausted' => child'[s] = <<>> \/ s \in exhausted
      /\ phase' \in {"partition", "build", other}
      /\ phase' = "build" => s \in exhausted'
  BY ChunkRead
<1>2. /\ phase = s /\ phase \in {"left", "right"}
      /\ phase' \in {"partition", "build", "left", "right"}
  BY <1>1 DEF ReadChunk, Sides
<1>3. UNCHANGED <<dropped, dynamic_filter, runs, table, probing, out, done>>
  BY DEF ReadChunk
<1> USE DEF runs, table, probing
<1>4. TypeOK'
  BY <1>1, <1>2, <1>3 DEF TypeOK
<1>5. OnePlace'
  <2>1. phase' \notin {"memory", "disk"}
    BY <1>2
  <2>2. \A t \in Sides : /\ Distinct(child'[t]) /\ Distinct(buffered'[t])
                         /\ ToSet(child'[t]) \cap ToSet(buffered'[t]) = {}
    BY <1>1 DEF OnePlace
  <2> QED
    BY <1>3, <2>1, <2>2 DEF OnePlace, Bucket
<1>6. matches = <<>>
  BY <1>2 DEF Phased, Reading
<1>7. Matched'
  BY <1>3, <1>6 DEF Matched, ProbeRowKept
<1>8. Phased'
  <2>1. \A t \in exhausted' : child'[t] = <<>>
    <3> SUFFICES ASSUME NEW t \in exhausted' PROVE child'[t] = <<>>
      OBVIOUS
    <3>1. t \in Sides
      BY <1>1 DEF TypeOK
    <3>2. CASE t # s
      BY <1>1, <1>2, <3>1, <3>2 DEF Phased
    <3>3. CASE t = s /\ s \notin exhausted
      BY <1>1, <3>3
    <3>4. CASE t = s /\ s \in exhausted
      <4>1. child[s] = <<>>
        BY <1>2, <3>4 DEF Phased
      <4>2. ToSet(child'[s]) \subseteq ToSet(child[s]) \cup ToSet(buffered[s])
        BY ChunkRead
      <4>3. child'[s] = SubSeq(child[s], Min({ChunkSize, Len(child[s])}) + 1, Len(child[s]))
        BY <3>1, <3>4 DEF ReadChunk, TypeOK
      <4>4. Len(<<>>) = 0 /\ ChunkSize \in Nat \ {0}
        BY JoinAssumption
      <4>5. Min({ChunkSize, 0}) \in Nat
        BY <4>4 DEF Min
      <4>6. \A k \in Nat : SubSeq(<<>>, k + 1, 0) = <<>>
        OBVIOUS
      <4> QED
        BY <3>4, <4>1, <4>3, <4>4, <4>5, <4>6
    <3> QED
      BY <3>2, <3>3, <3>4
  <2> QED
    BY <1>1, <1>2, <1>3, <2>1 DEF Phased, Reading, Bits
<1>9. Freed'
  BY <1>3 DEF Freed
<1> QED
  BY <1>4, <1>5, <1>7, <1>8, <1>9

(* What is built, what is left to probe with, and what the filter leaves   *)
(* of the right input.                                                     *)
LEMMA Built ==
    ASSUME Inv, BuildInMemory
    PROVE  /\ build_is_left' \in BOOLEAN
           /\ Build' \in Sides /\ Probe' \in Sides /\ Build' # Probe'
           /\ build_side' = buffered[Build'] /\ probe_rest' = buffered[Probe']
           /\ child[Build'] = <<>>
           /\ child' \in [Sides -> Seq(Row)] /\ child'["left"] = child["left"]
           /\ Distinct(child'["right"]) /\ ToSet(child'["right"]) \subseteq ToSet(child["right"])
           /\ \A r \in ToSet(child["right"]) :
                 MightContain(Bits(build_side'), r) => r \in ToSet(child'["right"])
           /\ probe_filter' = Bits(build_side')
<1>1. exhausted # {} /\ exhausted \subseteq Sides /\ \A s \in exhausted : child[s] = <<>>
  BY DEF Inv, TypeOK, Phased, BuildInMemory
<1>2. build_is_left' = BuildIsLeft /\ BuildIsLeft \in BOOLEAN
  <2>1. build_is_left' = BuildIsLeft
    BY DEF BuildInMemory
  <2>2. CASE exhausted = Sides
    <3>1. BuildIsLeft = (Len(buffered["left"]) <= Len(buffered["right"]))
      BY <2>2 DEF BuildIsLeft
    <3> QED
      BY <2>1, <3>1
  <2>3. CASE exhausted # Sides
    <3>1. BuildIsLeft = ("left" \in exhausted)
      BY <2>3 DEF BuildIsLeft
    <3> QED
      BY <2>1, <3>1
  <2> QED
    BY <2>2, <2>3
<1>3. Build' = (IF build_is_left' THEN "left" ELSE "right")
      /\ Probe' = (IF build_is_left' THEN "right" ELSE "left")
  BY DEF Build, Probe
<1>4. child[Build'] = <<>>
  <2>1. CASE exhausted = Sides
    BY <1>1, <1>2, <1>3, <2>1 DEF Sides
  <2>2. CASE exhausted # Sides
    <3>1. BuildIsLeft <=> "left" \in exhausted
      BY <2>2 DEF BuildIsLeft
    <3>2. "left" \notin exhausted => "right" \in exhausted
      BY <1>1 DEF Sides
    <3> QED
      BY <1>1, <1>2, <1>3, <3>1, <3>2
  <2> QED
    BY <2>1, <2>2
<1>5. PICK rows \in ScanFiltered(child["right"], Bits(build_side')) :
         child' = [child EXCEPT !["right"] = rows]
  BY DEF BuildInMemory
<1>6. child["right"] \in Seq(Row)
  BY DEF Inv, TypeOK, Sides
<1>7. /\ rows \in Seq(Row) /\ Distinct(rows) /\ ToSet(rows) \subseteq ToSet(child["right"])
      /\ \A r \in ToSet(child["right"]) :
            MightContain(Bits(build_side'), r) => r \in ToSet(rows)
  BY <1>6, ScanKeeps
<1>8. child' \in [Sides -> Seq(Row)] /\ child'["left"] = child["left"] /\ child'["right"] = rows
  BY <1>5, <1>7 DEF Inv, TypeOK, Sides
<1>9. Build' \in Sides /\ Probe' \in Sides /\ Build' # Probe'
  BY <1>2, <1>3 DEF Sides
<1>10. /\ build_side' = buffered[Build'] /\ probe_rest' = buffered[Probe']
       /\ probe_filter' = Bits(build_side')
  BY DEF BuildInMemory
<1> QED
  BY <1>2, <1>4, <1>7, <1>8, <1>9, <1>10

LEMMA BuildInMemoryInv == ASSUME Inv, BuildInMemory PROVE Inv'
<1> USE DEF Inv
<1>1. /\ build_is_left' \in BOOLEAN
      /\ Build' \in Sides /\ Probe' \in Sides /\ Build' # Probe'
      /\ build_side' = buffered[Build'] /\ probe_rest' = buffered[Probe']
      /\ child' \in [Sides -> Seq(Row)] /\ child'["left"] = child["left"]
      /\ Distinct(child'["right"]) /\ ToSet(child'["right"]) \subseteq ToSet(child["right"])
      /\ probe_filter' = Bits(build_side')
  BY Built
<1>2. /\ phase = "build" /\ phase' = "memory"
      /\ \A s \in Sides : buffered'[s] = <<>>
      /\ buffered' \in [Sides -> Seq(Row)]
      /\ UNCHANGED <<exhausted, dropped, runs, probe_run, current_probe_row, matches, out, done>>
  BY Empty DEF BuildInMemory
<1> USE DEF runs
<1>3. /\ matches = <<>> /\ current_probe_row = {} /\ ~done /\ ~dropped /\ current_partition = 0
      /\ probe_run = {} /\ \A s \in Sides, p \in Partition : partitions[s][p] = <<>>
  BY <1>2 DEF Phased, Reading
<1>4. buffered[Build'] \in Seq(Row) /\ buffered[Probe'] \in Seq(Row)
      /\ Distinct(buffered[Build']) /\ Distinct(buffered[Probe'])
  BY <1>1 DEF TypeOK, OnePlace
<1>5. matches' \in Seq(DOMAIN build_side')
  BY <1>2, <1>3, Empty
<1>6. TypeOK'
  BY <1>1, <1>2, <1>4, <1>5 DEF TypeOK
<1>7. \A s \in Sides : /\ Distinct(child'[s]) /\ ToSet(child'[s]) \subseteq ToSet(child[s])
                       /\ Distinct(buffered'[s]) /\ ToSet(buffered'[s]) = {}
  BY <1>1, <1>2, Empty DEF OnePlace, Sides
<1>8. ToSet(probe_rest') \cap ToSet(child'[Probe']) = {}
  BY <1>1, <1>7 DEF OnePlace
<1>9. OnePlace'
  <2>1. \A s \in Sides, p \in Partition : partitions'[s][p] = partitions[s][p]
    BY <1>2
  <2> QED
    BY <1>1, <1>2, <1>4, <1>7, <1>8, <2>1 DEF OnePlace, Bucket
<1>10. Matched'
  BY <1>2, <1>3 DEF Matched, ProbeRowKept
<1>11. Phased'
  <2>1. probe_filter' = Bits(build_side)'
    BY <1>1 DEF Bits
  <2> QED
    BY <1>2, <1>3, <2>1 DEF Phased, Reading
<1>12. Freed'
  BY <1>2 DEF Freed
<1> QED
  BY <1>6, <1>9, <1>10, <1>11, <1>12

LEMMA PartitionLeftInv == ASSUME Inv, PartitionLeft PROVE Inv'
<1> USE DEF Inv
<1>1. PICK ps \in PartitionInput("left") : partitions' = [partitions EXCEPT !["left"] = ps]
  BY DEF PartitionLeft
<1>2. PICK rows \in ScanFiltered(child["right"], dynamic_filter') :
         child' = [left |-> <<>>, right |-> rows]
  BY DEF PartitionLeft
<1>3. /\ phase = "partition" /\ phase' = "partition_right"
      /\ buffered' = [buffered EXCEPT !["left"] = <<>>]
      /\ UNCHANGED <<exhausted, dropped, freed, current_partition, table, probing, out, done>>
  BY DEF PartitionLeft
<1> USE DEF table, probing
<1>4. /\ ps \in [Partition -> Seq(Row)]
      /\ \A p \in Partition : Distinct(ps[p]) /\ \A r \in ToSet(ps[p]) : Bucket(r) = p
  BY Partitioned DEF Sides
<1>5. /\ rows \in Seq(Row) /\ Distinct(rows) /\ ToSet(rows) \subseteq ToSet(child["right"])
  <2>1. child["right"] \in Seq(Row)
    BY DEF TypeOK, Sides
  <2> QED
    BY <2>1, ScanKeeps
<1>6. /\ child'["left"] = <<>> /\ child'["right"] = rows
      /\ child' \in [Sides -> Seq(Row)]
      /\ buffered'["left"] = <<>> /\ buffered'["right"] = buffered["right"]
      /\ buffered' \in [Sides -> Seq(Row)]
  <2>1. /\ child'["left"] = <<>> /\ child'["right"] = rows /\ DOMAIN child' = {"left", "right"}
        /\ child' = [s \in {"left", "right"} |-> child'[s]]
    BY <1>2
  <2>2. child' \in [Sides -> Seq(Row)]
    BY <1>5, <2>1, Empty DEF Sides
  <2>3. /\ buffered'["left"] = <<>> /\ buffered'["right"] = buffered["right"]
        /\ buffered' \in [Sides -> Seq(Row)]
    BY <1>3, Empty DEF TypeOK, Sides
  <2> QED
    BY <2>1, <2>2, <2>3
<1>7. /\ partitions' \in [Sides -> [Partition -> Seq(Row)]]
      /\ partitions'["left"] = ps /\ partitions'["right"] = partitions["right"]
  BY <1>1, <1>4 DEF TypeOK, Sides
<1>8. /\ matches = <<>> /\ build_side = <<>> /\ probe_rest = <<>> /\ current_probe_row = {}
      /\ ~done /\ ~dropped /\ current_partition = 0 /\ probe_run = {}
      /\ \A p \in Partition : partitions["right"][p] = <<>>
  BY <1>3 DEF Phased, Reading, Sides
<1>9. TypeOK'
  BY <1>3, <1>6, <1>7 DEF TypeOK
<1>10. OnePlace'
  <2>1. \A s \in Sides : /\ Distinct(child'[s]) /\ Distinct(buffered'[s])
                         /\ ToSet(child'[s]) \cap ToSet(buffered'[s]) = {}
    BY <1>5, <1>6, Empty DEF OnePlace, Sides
  <2>2. \A s \in Sides, p \in Partition :
           Distinct(partitions'[s][p]) /\ \A r \in ToSet(partitions'[s][p]) : Bucket(r) = p
    BY <1>4, <1>7 DEF OnePlace, Sides
  <2> QED
    BY <1>3, <1>8, <2>1, <2>2, Empty DEF OnePlace, Bucket
<1>11. Matched'
  BY <1>3, <1>8 DEF Matched, ProbeRowKept
<1>12. Phased'
  BY <1>3, <1>6, <1>7, <1>8 DEF Phased, Reading, Bits
<1>13. Freed'
  <2>1. \A p \in Partition : ~(p < 0) /\ p >= 0
    BY PartitionNumbers
  <2>2. /\ ~dropped' /\ current_partition' = 0 /\ probe_run' = {} /\ freed' = freed
    BY <1>3, <1>8 DEF runs
  <2>3. \A s \in Sides, p \in Partition : freed[s][p] = 0
    BY <1>8, <2>1 DEF Freed
  <2> QED
    BY <2>1, <2>2, <2>3 DEF Freed
<1> QED
  BY <1>9, <1>10, <1>11, <1>12, <1>13

LEMMA PartitionRightInv == ASSUME Inv, PartitionRight PROVE Inv'
<1> USE DEF Inv
<1>1. PICK ps \in PartitionInput("right") : partitions' = [partitions EXCEPT !["right"] = ps]
  BY DEF PartitionRight
<1>2. /\ phase = "partition_right" /\ phase' = "disk"
      /\ child' = [child EXCEPT !["right"] = <<>>]
      /\ buffered' = [buffered EXCEPT !["right"] = <<>>]
      /\ UNCHANGED <<exhausted, dynamic_filter, dropped, freed, current_partition,
                     table, probing, out, done>>
  BY DEF PartitionRight
<1> USE DEF table, probing
<1>3. /\ ps \in [Partition -> Seq(Row)]
      /\ \A p \in Partition : Distinct(ps[p]) /\ \A r \in ToSet(ps[p]) : Bucket(r) = p
  BY Partitioned DEF Sides
<1>4. /\ child' \in [Sides -> Seq(Row)] /\ buffered' \in [Sides -> Seq(Row)]
      /\ child'["left"] = child["left"] /\ child'["right"] = <<>>
      /\ buffered'["left"] = buffered["left"] /\ buffered'["right"] = <<>>
  BY <1>2, Empty DEF TypeOK, Sides
<1>5. /\ partitions' \in [Sides -> [Partition -> Seq(Row)]]
      /\ partitions'["right"] = ps /\ partitions'["left"] = partitions["left"]
  BY <1>1, <1>3 DEF TypeOK, Sides
<1>6. /\ matches = <<>> /\ build_side = <<>> /\ probe_rest = <<>> /\ current_probe_row = {}
      /\ ~done /\ ~dropped
  BY <1>2 DEF Phased, Reading
<1>7. TypeOK'
  BY <1>2, <1>4, <1>5 DEF TypeOK
<1>8. OnePlace'
  <2>1. \A s \in Sides : /\ Distinct(child'[s]) /\ Distinct(buffered'[s])
                         /\ ToSet(child'[s]) \cap ToSet(buffered'[s]) = {}
    BY <1>4, Empty DEF OnePlace, Sides
  <2>2. \A s \in Sides, p \in Partition :
           Distinct(partitions'[s][p]) /\ \A r \in ToSet(partitions'[s][p]) : Bucket(r) = p
    BY <1>3, <1>5 DEF OnePlace, Sides
  <2> QED
    BY <1>2, <1>6, <2>1, <2>2, Empty DEF OnePlace, Bucket
<1>9. Matched'
  BY <1>2, <1>6 DEF Matched, ProbeRowKept
<1>10. Phased'
  BY <1>2, <1>6 DEF Phased, Reading, Bits
<1>11. Freed'
  <2>1. \A p \in Partition : ~(p < 0) /\ p >= 0
    BY PartitionNumbers
  <2>2. /\ ~dropped /\ current_partition = 0 /\ probe_run = {}
    BY <1>2, <1>6 DEF Phased
  <2>3. \A s \in Sides, p \in Partition : freed[s][p] = 0
    BY <2>1, <2>2 DEF Freed
  <2> QED
    BY <1>2, <2>1, <2>2, <2>3 DEF Freed
<1> QED
  BY <1>7, <1>8, <1>9, <1>10, <1>11

-----------------------------------------------------------------------------
LEMMA NextMatchInv == ASSUME Inv, NextMatch PROVE Inv'
<1> USE DEF Inv
<1>1. /\ Calling /\ matches # <<>> /\ matches' = Tail(matches)
      /\ current_probe_row' = IF Tail(matches) = <<>> THEN {} ELSE current_probe_row
      /\ UNCHANGED <<reading, phase, dropped, runs, table, probe_run, probe_rest, done>>
  BY DEF NextMatch
<1> USE DEF reading, runs, table
<1>2. PICK p \in current_probe_row : out' = {Pair(build_side[Head(matches)], p)}
  BY DEF NextMatch
<1>3. matches \in Seq(DOMAIN build_side) /\ Distinct(matches)
  BY DEF TypeOK, Matched
<1>4. /\ Head(matches) \in DOMAIN build_side /\ matches' \in Seq(DOMAIN build_side)
      /\ ToSet(matches) = {Head(matches)} \cup ToSet(matches') /\ Distinct(matches')
  BY <1>1, <1>3, HeadAndTail
<1>5. build_side[Head(matches)] \in Row /\ p \in Row
  BY <1>4, Elements DEF TypeOK
<1>6. TypeOK'
  <2>1. out' \subseteq Row \X Row
    BY <1>2, <1>5 DEF Pair
  <2>2. current_probe_row' \subseteq Row
    BY <1>1 DEF TypeOK
  <2> QED
    BY <1>1, <1>4, <2>1, <2>2 DEF TypeOK
<1>7. OnePlace'
  BY <1>1 DEF OnePlace, Probe, Bucket
<1>8. Matched'
  <2>1. matches' # <<>> => current_probe_row' = current_probe_row
    BY <1>1
  <2> QED
    BY <1>1, <1>4, <2>1 DEF Matched, ProbeRowKept, ProbeRows, Probe
<1>9. Phased'
  BY <1>1 DEF Phased, Reading, Calling, Bits, Probe
<1>10. Freed'
  BY <1>1 DEF Freed
<1> QED
  BY <1>6, <1>7, <1>8, <1>9, <1>10

(* The matches found for a probe row.                                      *)
LEMMA ProbedWith ==
    ASSUME Inv, NEW r \in Row, matches = <<>>, ProbeWith(r)
    PROVE  /\ matches' \in Seq(DOMAIN build_side) /\ Distinct(matches')
           /\ ToSet(matches') = Matching(r)
           /\ current_probe_row' \subseteq Row /\ \A l, m \in current_probe_row' : l = m
           /\ matches' # <<>> => current_probe_row' = {r}
<1> USE DEF Inv
<1>1. \A l, m \in current_probe_row : l = m
  BY DEF Matched
<1>2. current_probe_row \subseteq Row
  BY DEF TypeOK
<1>3. CASE ~MightContain(probe_filter, r) /\ matches' = <<>> /\ current_probe_row' = {r}
  <2>1. Matching(r) = {}
    <3> SUFFICES ASSUME NEW i \in Matching(r) PROVE FALSE
      OBVIOUS
    <3>1. build_side \in Seq(Row) /\ i \in DOMAIN build_side
          /\ Meets(build_side[i].key, r.key)
      BY DEF TypeOK, Matching
    <3>2. build_side[i] \in ToSet(build_side)
      BY <3>1 DEF ToSet
    <3>3. MightContain(Bits(build_side), r)
      BY <3>1, <3>2, PassesBits
    <3> QED
      BY <1>3, <3>3 DEF Phased
  <2> QED
    BY <1>3, <2>1, Empty
<1>4. CASE /\ matches' \in Chain(r)
           /\ current_probe_row' = IF matches' = <<>> THEN current_probe_row ELSE {r}
  <2>1. matches' \in Seq(DOMAIN build_side) /\ ToSet(matches') = Matching(r)
        /\ Distinct(matches')
    BY <1>4, Chained
  <2> QED
    BY <1>1, <1>2, <1>4, <2>1
<1> QED
  BY <1>3, <1>4 DEF ProbeWith

(* A probe row leaves its place: the rest of what holds is untouched.      *)
LEMMA ProbeInv ==
    ASSUME Inv, NEW r \in Row, Calling, matches = <<>>, ProbeWith(r), r \notin ProbeRows',
           UNCHANGED <<buffered, exhausted, dynamic_filter, phase, dropped, runs, table,
                       probe_run, out, done>>,
           child' \in [Sides -> Seq(Row)], probe_rest' \in Seq(Row),
           \A s \in Sides : Distinct(child'[s]) /\ ToSet(child'[s]) \subseteq ToSet(child[s]),
           Distinct(probe_rest'), ToSet(probe_rest') \subseteq ToSet(probe_rest), ~done
    PROVE  Inv'
<1> USE DEF Inv, runs, table
<1>1. /\ matches' \in Seq(DOMAIN build_side) /\ Distinct(matches')
      /\ ToSet(matches') \subseteq Matching(r)
      /\ current_probe_row' \subseteq Row /\ \A l, m \in current_probe_row' : l = m
      /\ matches' # <<>> => current_probe_row' = {r}
  BY ProbedWith
<1>2. TypeOK'
  BY <1>1 DEF TypeOK
<1>3. OnePlace'
  <2>1. Probe' = Probe /\ Probe \in Sides
    BY DEF Probe, Sides
  <2>2. \A s \in Sides : /\ Distinct(child'[s]) /\ Distinct(buffered'[s])
                         /\ ToSet(child'[s]) \cap ToSet(buffered'[s]) = {}
    BY DEF OnePlace
  <2>3. phase' = "memory" => ToSet(probe_rest') \cap ToSet(child'[Probe]) = {}
    BY <2>1 DEF OnePlace
  <2> QED
    BY <2>1, <2>2, <2>3 DEF OnePlace, Bucket
<1>4. Matched'
  <2>1. \A i \in ToSet(matches') : Meets(build_side[i].key, r.key)
    BY <1>1 DEF Matching
  <2> QED
    BY <1>1, <2>1 DEF Matched, ProbeRowKept
<1>5. Phased'
  <2>1. probe_rest = <<>> => probe_rest' = <<>>
    BY Elements, Empty
  <2> QED
    BY <2>1 DEF Phased, Reading, Calling, Bits
<1>6. Freed'
  BY DEF Freed
<1> QED
  BY <1>2, <1>3, <1>4, <1>5, <1>6

LEMMA BufferedProbe ==
    ASSUME Inv, ProbeBuffered
    PROVE  /\ Head(probe_rest) \in Row /\ probe_rest' \in Seq(Row) /\ Distinct(probe_rest')
           /\ ToSet(probe_rest) = {Head(probe_rest)} \cup ToSet(probe_rest')
           /\ ProbeRows = {Head(probe_rest)} \cup ProbeRows'
           /\ Head(probe_rest) \notin ProbeRows'
           /\ UNCHANGED <<reading, phase, dropped, runs, table, probe_run, out, done>>
           /\ ~done /\ Calling /\ matches = <<>> /\ ProbeWith(Head(probe_rest))
<1>1. /\ probe_rest \in Seq(Row) /\ probe_rest # <<>> /\ Distinct(probe_rest)
      /\ probe_rest' = Tail(probe_rest)
      /\ UNCHANGED <<reading, phase, dropped, runs, table, probe_run, out, done>>
      /\ Calling /\ matches = <<>> /\ ProbeWith(Head(probe_rest))
  BY DEF Inv, TypeOK, OnePlace, ProbeBuffered
<1>2. /\ Head(probe_rest) \in Row /\ probe_rest' \in Seq(Row) /\ Distinct(probe_rest')
      /\ ToSet(probe_rest) = {Head(probe_rest)} \cup ToSet(probe_rest')
      /\ Head(probe_rest) \notin ToSet(probe_rest')
  BY <1>1, HeadAndTail
<1>3. UNCHANGED <<child, phase, Probe>>
  BY <1>1 DEF reading, table, Probe
<1>4. phase = "memory" => Head(probe_rest) \notin ToSet(child[Probe])
  BY <1>2 DEF Inv, OnePlace
<1>5. ~done
  BY <1>1 DEF Inv, Phased
<1> QED
  BY <1>1, <1>2, <1>3, <1>4, <1>5 DEF ProbeRows

LEMMA ProbeBufferedInv == ASSUME Inv, ProbeBuffered PROVE Inv'
<1> DEFINE r == Head(probe_rest)
<1>1. /\ child \in [Sides -> Seq(Row)] /\ \A s \in Sides : Distinct(child[s])
  BY DEF Inv, TypeOK, OnePlace
<1>2. /\ r \in Row /\ probe_rest' \in Seq(Row) /\ Distinct(probe_rest')
      /\ ToSet(probe_rest') \subseteq ToSet(probe_rest) /\ r \notin ProbeRows'
      /\ UNCHANGED <<reading, phase, dropped, runs, table, probe_run, out, done>>
      /\ ~done /\ Calling /\ matches = <<>> /\ ProbeWith(r)
  BY BufferedProbe
<1> HIDE DEF r
<1>3. UNCHANGED <<child, buffered, exhausted, dynamic_filter>>
  BY <1>2 DEF reading
<1> QED
  BY <1>1, <1>2, <1>3, ProbeInv

LEMMA ChildProbe ==
    ASSUME Inv, ProbeChild
    PROVE  LET r == Head(child[Probe])
           IN  /\ r \in Row /\ child' \in [Sides -> Seq(Row)]
               /\ \A s \in Sides : Distinct(child'[s]) /\ ToSet(child'[s]) \subseteq ToSet(child[s])
               /\ ProbeRows = {r} \cup ProbeRows' /\ r \notin ProbeRows'
               /\ UNCHANGED <<buffered, exhausted, dynamic_filter, phase, dropped, runs, table,
                              probe_run, probe_rest, out, done>>
               /\ ~done /\ Calling /\ matches = <<>> /\ ProbeWith(r) /\ phase = "memory"
<1> DEFINE r == Head(child[Probe])
<1>1. /\ child[Probe] # <<>> /\ probe_rest = <<>> /\ phase = "memory"
      /\ child' = [child EXCEPT ![Probe] = Tail(@)]
      /\ UNCHANGED <<buffered, exhausted, dynamic_filter, phase, dropped, runs, table,
                     probe_run, probe_rest, out, done>>
      /\ Calling /\ matches = <<>> /\ ProbeWith(r)
  BY DEF ProbeChild
<1>2. Probe \in Sides /\ Probe' = Probe
  BY <1>1 DEF Probe, Sides, table
<1>3. child[Probe] \in Seq(Row) /\ Distinct(child[Probe])
  BY <1>2 DEF Inv, TypeOK, OnePlace
<1>4. /\ r \in Row /\ Tail(child[Probe]) \in Seq(Row) /\ Distinct(Tail(child[Probe]))
      /\ ToSet(child[Probe]) = {r} \cup ToSet(Tail(child[Probe]))
      /\ r \notin ToSet(Tail(child[Probe]))
  BY <1>1, <1>3, HeadAndTail
<1> HIDE DEF r
<1>5. /\ child' \in [Sides -> Seq(Row)] /\ child'[Probe] = Tail(child[Probe])
      /\ \A s \in Sides : Distinct(child'[s]) /\ ToSet(child'[s]) \subseteq ToSet(child[s])
  BY <1>1, <1>2, <1>4 DEF Inv, TypeOK, OnePlace
<1>6. ProbeRows = ToSet(child[Probe]) /\ ProbeRows' = ToSet(child'[Probe])
  BY <1>1, <1>2, Empty DEF ProbeRows
<1>7. ~done
  BY <1>1 DEF Inv, Phased
<1> QED
  BY <1>1, <1>4, <1>5, <1>6, <1>7 DEF r

LEMMA ProbeChildInv == ASSUME Inv, ProbeChild PROVE Inv'
<1>1. probe_rest \in Seq(Row) /\ Distinct(probe_rest)
  BY DEF Inv, TypeOK, OnePlace
<1> QED
  BY <1>1, ChildProbe, ProbeInv

-----------------------------------------------------------------------------
LEMMA FreeTyped ==
    ASSUME TypeOK, NEW rs, Free(rs)
    PROVE  /\ freed' \in [Sides -> [Partition -> Nat]]
           /\ \A s \in Sides, p \in Partition :
                 freed'[s][p] = IF <<s, p>> \in rs THEN freed[s][p] + 1 ELSE freed[s][p]
<1>1. \A s \in Sides, p \in Partition :
         freed'[s][p] = IF <<s, p>> \in rs THEN freed[s][p] + 1 ELSE freed[s][p]
  BY DEF Free
<1>2. \A s \in Sides, p \in Partition : freed[s][p] \in Nat
  BY DEF TypeOK
<1>3. \A s \in Sides, p \in Partition : freed'[s][p] \in Nat
  <2> SUFFICES ASSUME NEW s \in Sides, NEW p \in Partition PROVE freed'[s][p] \in Nat
    OBVIOUS
  <2>1. freed[s][p] \in Nat /\ freed'[s][p] \in {freed[s][p] + 1, freed[s][p]}
    BY <1>1, <1>2
  <2> QED
    BY <2>1
<1>4. freed' = [s \in Sides |-> [p \in Partition |-> freed'[s][p]]]
  BY DEF Free
<1>5. freed' \in [Sides -> [Partition -> Nat]]
  BY <1>3, <1>4
<1> QED
  BY <1>1, <1>5

LEMMA FreeProbeRunInv == ASSUME Inv, FreeProbeRun PROVE Inv'
<1> USE DEF Inv
<1>1. /\ Calling /\ phase = "disk" /\ matches = <<>> /\ probe_rest = <<>>
      /\ Free(probe_run) /\ probe_run' = {}
      /\ UNCHANGED <<reading, phase, dropped, partitions, current_partition, table,
                     probe_rest, current_probe_row, matches, out, done>>
  BY DEF FreeProbeRun
<1> USE DEF reading, table
<1>2. /\ freed' \in [Sides -> [Partition -> Nat]]
      /\ \A s \in Sides, p \in Partition :
            freed'[s][p] = IF <<s, p>> \in probe_run THEN freed[s][p] + 1 ELSE freed[s][p]
  BY <1>1, FreeTyped
<1>3. TypeOK'
  BY <1>1, <1>2 DEF TypeOK
<1>4. OnePlace'
  BY <1>1 DEF OnePlace, Bucket, Probe
<1>5. Matched'
  BY <1>1 DEF Matched, ProbeRowKept
<1>6. Phased'
  BY <1>1 DEF Phased, Reading, Bits
<1>7. Freed'
  <2>1. /\ \A s \in Sides, p \in Partition : freed[s][p] \in Nat
        /\ \A p \in Partition : p \in Nat
        /\ current_partition \in Nat
    BY PartitionNumbers DEF TypeOK
  <2>2. ~dropped
    BY <1>1 DEF Calling
  <2>3. \A s \in Sides, p \in Partition : <<s, p>> \in probe_run => p < current_partition
    BY DEF Freed
  <2>4. \A s \in Sides, p \in Partition :
           /\ p >= current_partition => freed'[s][p] = 0
           /\ partitions[s][p] # <<>> /\ p < current_partition => freed'[s][p] = 1
    <3> SUFFICES ASSUME NEW s \in Sides, NEW p \in Partition
                 PROVE  /\ p >= current_partition => freed'[s][p] = 0
                        /\ partitions[s][p] # <<>> /\ p < current_partition => freed'[s][p] = 1
      OBVIOUS
    <3>1. CASE <<s, p>> \in probe_run
      <4>1. freed[s][p] = 0 /\ p < current_partition
        BY <2>2, <2>3, <3>1 DEF Freed
      <4>2. freed'[s][p] = 1
        BY <1>2, <3>1, <4>1
      <4> QED
        BY <2>1, <4>1, <4>2
    <3>2. CASE <<s, p>> \notin probe_run
      <4>1. freed'[s][p] = freed[s][p]
        BY <1>2, <3>2
      <4> QED
        BY <2>2, <3>2, <4>1 DEF Freed
    <3> QED
      BY <3>1, <3>2
  <2> QED
    BY <1>1, <2>2, <2>4 DEF Freed
<1> QED
  BY <1>3, <1>4, <1>5, <1>6, <1>7

(* The two runs of a partition: one is read into the table and freed, the  *)
(* other is probed with.                                                   *)
LEMMA PairJoined ==
    ASSUME Inv, JoinPartition
    PROVE  LET k == current_partition
           IN  /\ k \in Partition /\ k + 1 \in 0 .. NumPartitions
               /\ build_is_left' \in BOOLEAN
               /\ Build' \in Sides /\ Probe' \in Sides /\ Build' # Probe'
               /\ build_side' = partitions[Build'][k] /\ probe_rest' = partitions[Probe'][k]
               /\ probe_filter' = Bits(build_side') /\ current_partition' = k + 1
               /\ Free({<<Build', k>>}) /\ probe_run' = {<<Probe', k>>}
               /\ Calling /\ phase = "disk" /\ matches = <<>> /\ probe_run = {}
               /\ UNCHANGED <<reading, phase, dropped, partitions,
                              current_probe_row, matches, out, done>>
<1> DEFINE k == current_partition
<1>1. /\ Calling /\ phase = "disk" /\ matches = <<>> /\ probe_run = {}
      /\ k < NumPartitions /\ current_partition' = k + 1
      /\ build_is_left' = (Len(partitions["left"][k]) <= Len(partitions["right"][k]))
      /\ build_side' = partitions[Build'][k] /\ probe_rest' = partitions[Probe'][k]
      /\ probe_filter' = Bits(build_side')
      /\ Free({<<Build', k>>}) /\ probe_run' = {<<Probe', k>>}
      /\ UNCHANGED <<reading, phase, dropped, partitions,
                     current_probe_row, matches, out, done>>
  BY DEF JoinPartition, AtNextPartition
<1>2. build_is_left' \in BOOLEAN
  BY <1>1
<1>3. Build' \in Sides /\ Probe' \in Sides /\ Build' # Probe'
  BY <1>2 DEF Build, Probe, Sides
<1>4. k \in Partition /\ k + 1 \in 0 .. NumPartitions
  BY <1>1, PartitionNumbers DEF Inv
<1> QED
  BY <1>1, <1>2, <1>3, <1>4

LEMMA JoinPartitionInv == ASSUME Inv, JoinPartition PROVE Inv'
<1> USE DEF Inv
<1> DEFINE k == current_partition
<1>1. /\ k \in Partition /\ k + 1 \in 0 .. NumPartitions
      /\ build_is_left' \in BOOLEAN
      /\ Build' \in Sides /\ Probe' \in Sides /\ Build' # Probe'
      /\ build_side' = partitions[Build'][k] /\ probe_rest' = partitions[Probe'][k]
      /\ probe_filter' = Bits(build_side') /\ current_partition' = k + 1
      /\ Free({<<Build', k>>}) /\ probe_run' = {<<Probe', k>>}
      /\ Calling /\ phase = "disk" /\ matches = <<>> /\ probe_run = {}
      /\ UNCHANGED <<reading, phase, dropped, partitions,
                     current_probe_row, matches, out, done>>
  BY PairJoined
<1> USE DEF reading
<1>2. k \in Nat /\ NumPartitions \in Nat /\ \A p \in Partition : p \in Nat
  BY PartitionNumbers
<1>3. /\ build_side' \in Seq(Row) /\ probe_rest' \in Seq(Row)
      /\ Distinct(build_side') /\ Distinct(probe_rest')
      /\ \A r \in ToSet(build_side') : Bucket(r) = k
  BY <1>1 DEF TypeOK, OnePlace
<1>4. /\ freed' \in [Sides -> [Partition -> Nat]]
      /\ \A s \in Sides, p \in Partition :
            freed'[s][p] = IF <<s, p>> \in {<<Build', k>>} THEN freed[s][p] + 1 ELSE freed[s][p]
  BY <1>1, FreeTyped
<1>5. matches' \in Seq(DOMAIN build_side')
  BY <1>1, Empty
<1>6. TypeOK'
  <2>1. probe_run' \subseteq Sides \X Partition
    BY <1>1
  <2> QED
    BY <1>1, <1>3, <1>4, <1>5, <2>1 DEF TypeOK
<1>7. OnePlace'
  <2>1. \A r \in ToSet(build_side') : Bucket(r) < k + 1
    BY <1>2, <1>3
  <2> QED
    BY <1>1, <1>3, <2>1 DEF OnePlace, Bucket
<1>8. Matched'
  BY <1>1 DEF Matched, ProbeRowKept
<1>9. ~done
  BY <1>1, <1>2 DEF Phased, Partition
<1>10. Phased'
  <2>1. probe_filter' = Bits(build_side)'
    BY <1>1 DEF Bits
  <2> QED
    BY <1>1, <1>9, <2>1 DEF Phased, Reading
<1>11. Freed'
  <2>1. ~dropped /\ \A s \in Sides, p \in Partition : freed[s][p] \in Nat
    BY <1>1 DEF Calling, TypeOK
  <2>2. \A s \in Sides : freed[s][k] = 0
    BY <1>1, <1>2, <2>1 DEF Freed
  <2>3. \A s \in Sides, p \in Partition :
           partitions[s][p] # <<>> /\ p < k + 1 /\ <<s, p>> # <<Probe', k>> => freed'[s][p] = 1
    <3> SUFFICES ASSUME NEW s \in Sides, NEW p \in Partition, partitions[s][p] # <<>>,
                        p < k + 1, <<s, p>> # <<Probe', k>>
                 PROVE  freed'[s][p] = 1
      OBVIOUS
    <3>1. CASE p = k
      <4>1. s = Build'
        BY <3>1 DEF Build, Probe, Sides
      <4> QED
        BY <1>4, <2>2, <3>1, <4>1
    <3>2. CASE p # k
      <4>1. p < k /\ <<s, p>> \notin probe_run
        BY <1>1, <1>2, <3>2
      <4>2. freed'[s][p] = freed[s][p]
        BY <1>4, <3>2
      <4> QED
        BY <2>1, <4>1, <4>2 DEF Freed
    <3> QED
      BY <3>1, <3>2
  <2>4. \A s \in Sides, p \in Partition :
           p >= k + 1 \/ <<s, p>> = <<Probe', k>> => freed'[s][p] = 0
    <3> SUFFICES ASSUME NEW s \in Sides, NEW p \in Partition,
                        p >= k + 1 \/ <<s, p>> = <<Probe', k>>
                 PROVE  freed'[s][p] = 0
      OBVIOUS
    <3>1. CASE p >= k + 1
      <4>1. p # k /\ p >= k
        BY <1>2, <3>1
      <4>2. freed'[s][p] = freed[s][p]
        BY <1>4, <4>1
      <4>3. freed[s][p] = 0
        BY <1>1, <2>1, <4>1 DEF Freed
      <4> QED
        BY <4>2, <4>3
    <3>2. CASE s = Probe' /\ p = k
      BY <1>1, <1>4, <2>2, <3>2
    <3> QED
      BY <3>1, <3>2
  <2>5. \A run \in probe_run' : run[2] < k + 1
    BY <1>1, <1>2
  <2> QED
    BY <1>1, <2>1, <2>3, <2>4, <2>5 DEF Freed
<1> QED
  BY <1>6, <1>7, <1>8, <1>10, <1>11

LEMMA SkipPartitionInv == ASSUME Inv, SkipPartition PROVE Inv'
<1> USE DEF Inv
<1> DEFINE k == current_partition
           present == { s \in Sides : partitions[s][k] # <<>> }
<1>1. /\ Calling /\ phase = "disk" /\ matches = <<>> /\ probe_run = {}
      /\ k < NumPartitions /\ current_partition' = k + 1
      /\ Free(present \X {k})
      /\ UNCHANGED <<reading, phase, dropped, partitions, table, probing, out, done>>
  BY DEF SkipPartition, AtNextPartition
<1> HIDE DEF present
<1> USE DEF reading, table, probing
<1>2. /\ k \in Nat /\ NumPartitions \in Nat /\ \A p \in Partition : p \in Nat
      /\ k \in Partition /\ k + 1 \in 0 .. NumPartitions
  BY <1>1, PartitionNumbers
<1>3. /\ freed' \in [Sides -> [Partition -> Nat]]
      /\ \A s \in Sides, p \in Partition :
            freed'[s][p] = IF <<s, p>> \in present \X {k} THEN freed[s][p] + 1 ELSE freed[s][p]
  BY <1>1, FreeTyped
<1>4. TypeOK'
  BY <1>1, <1>2, <1>3 DEF TypeOK
<1>5. OnePlace'
  <2>1. \A r \in ToSet(build_side) : Bucket(r) < k + 1
    <3> SUFFICES ASSUME NEW r \in ToSet(build_side) PROVE Bucket(r) < k + 1
      OBVIOUS
    <3>1. r \in Row
      BY Elements DEF TypeOK
    <3>2. Bucket(r) \in Nat /\ Bucket(r) < k
      BY <1>1, <1>2, <3>1, Buckets DEF OnePlace
    <3> QED
      BY <1>2, <3>2
  <2> QED
    BY <1>1, <2>1 DEF OnePlace, Bucket, Probe
<1>6. Matched'
  BY <1>1 DEF Matched, ProbeRowKept
<1>7. ~done
  BY <1>1, <1>2 DEF Phased
<1>8. Phased'
  BY <1>1, <1>7 DEF Phased, Reading, Bits
<1>9. Freed'
  <2>1. ~dropped /\ \A s \in Sides, p \in Partition : freed[s][p] \in Nat
    BY <1>1 DEF Calling, TypeOK
  <2>2. \A s \in Sides, p \in Partition :
           /\ p >= k + 1 => freed'[s][p] = 0
           /\ partitions[s][p] # <<>> /\ p < k + 1 => freed'[s][p] = 1
    <3> SUFFICES ASSUME NEW s \in Sides, NEW p \in Partition
                 PROVE  /\ p >= k + 1 => freed'[s][p] = 0
                        /\ partitions[s][p] # <<>> /\ p < k + 1 => freed'[s][p] = 1
      OBVIOUS
    <3>1. /\ k \in Nat /\ p \in Nat
          /\ p >= k => freed[s][p] = 0
          /\ partitions[s][p] # <<>> /\ p < k => freed[s][p] = 1
      BY <1>1, <1>2, <2>1 DEF Freed
    <3>2. CASE p = k
      <4>1. partitions[s][p] # <<>> => <<s, p>> \in present \X {k}
        BY <3>2 DEF present
      <4>2. partitions[s][p] # <<>> => freed'[s][p] = 1
        BY <1>3, <3>1, <3>2, <4>1
      <4> QED
        BY <3>1, <3>2, <4>2
    <3>3. CASE p # k
      <4>1. freed'[s][p] = freed[s][p]
        BY <1>3, <3>3
      <4> QED
        BY <3>1, <3>3, <4>1
    <3> QED
      BY <3>2, <3>3
  <2> QED
    BY <1>1, <2>1, <2>2 DEF Freed
<1> QED
  BY <1>4, <1>5, <1>6, <1>8, <1>9

LEMMA NextNoneInv == ASSUME Inv, NextNone PROVE Inv'
<1> USE DEF Inv
<1>1. /\ Calling /\ matches = <<>> /\ probe_rest = <<>>
      /\ \/ phase = "memory" /\ child[Probe] = <<>>
         \/ phase = "disk" /\ current_partition = NumPartitions
      /\ done' = TRUE
      /\ UNCHANGED <<reading, phase, dropped, runs, table, probing, out>>
  BY DEF NextNone
<1> USE DEF reading, runs, table, probing
<1>2. TypeOK'
  BY <1>1 DEF TypeOK
<1>3. OnePlace'
  BY <1>1 DEF OnePlace, Bucket, Probe
<1>4. Matched'
  BY <1>1 DEF Matched, ProbeRowKept
<1>5. Phased'
  <2>1. phase \notin Reading
    BY <1>1 DEF Reading
  <2> QED
    BY <1>1, <2>1 DEF Phased, Bits, Probe
<1>6. Freed'
  BY <1>1 DEF Freed
<1> QED
  BY <1>2, <1>3, <1>4, <1>5, <1>6

LEMMA DropInv == ASSUME Inv, Drop PROVE Inv'
<1> USE DEF Inv
<1> DEFINE Lists(s, p) == { rs \in {Listed, probe_run} : <<s, p>> \in rs }
<1>1. /\ Calling /\ dropped' = TRUE
      /\ freed' = [s \in Sides |-> [p \in Partition |-> freed[s][p] + Cardinality(Lists(s, p))]]
      /\ UNCHANGED <<reading, phase, partitions, current_partition, table, probing, out, done>>
  BY DEF Drop
<1> USE DEF reading, table, probing
<1>2. \A s \in Sides, p \in Partition : IsFiniteSet(Lists(s, p))
  <2>1. IsFiniteSet({Listed}) /\ IsFiniteSet({probe_run})
    BY FS_Singleton
  <2>2. IsFiniteSet({Listed} \cup {probe_run})
    BY <2>1, FS_Union
  <2>3. {Listed, probe_run} = {Listed} \cup {probe_run}
    OBVIOUS
  <2> QED
    BY <2>2, <2>3, FS_Subset
<1>3. ASSUME NEW s \in Sides, NEW p \in Partition
      PROVE  /\ Cardinality(Lists(s, p)) \in Nat
             /\ partitions[s][p] # <<>> => Cardinality(Lists(s, p)) \in {1, 2}
             /\ partitions[s][p] # <<>> /\ <<s, p>> \notin probe_run => Cardinality(Lists(s, p)) = 1
  <2>1. Cardinality(Lists(s, p)) \in Nat
    BY <1>2, FS_CardinalityType
  <2>2. partitions[s][p] # <<>> => Listed \in Lists(s, p)
    BY DEF Listed
  <2>3. /\ Lists(s, p) = {Listed} \/ Lists(s, p) = {Listed, probe_run} \/ Listed \notin Lists(s, p)
        /\ <<s, p>> \notin probe_run => Lists(s, p) = {Listed} \/ Listed \notin Lists(s, p)
    OBVIOUS
  <2>4. Cardinality({Listed}) = 1 /\ Cardinality({Listed, probe_run}) \in {1, 2}
    <3>1. Cardinality({Listed}) = 1 /\ IsFiniteSet({Listed})
      BY FS_Singleton
    <3>2. {Listed, probe_run} = {Listed} \cup {probe_run}
      OBVIOUS
    <3>3. Cardinality({Listed} \cup {probe_run})
             = IF probe_run \in {Listed} THEN Cardinality({Listed}) ELSE Cardinality({Listed}) + 1
      BY <3>1, FS_AddElement
    <3> QED
      BY <3>1, <3>2, <3>3
  <2> HIDE DEF Lists
  <2> QED
    BY <2>1, <2>2, <2>3, <2>4
<1> HIDE DEF Lists
<1>4. ASSUME NEW s \in Sides, NEW p \in Partition
      PROVE  /\ freed'[s][p] \in Nat
             /\ partitions[s][p] # <<>> => freed'[s][p] \in {1, 2}
  <2>1. freed'[s][p] = freed[s][p] + Cardinality(Lists(s, p)) /\ freed[s][p] \in Nat
    BY <1>1 DEF TypeOK
  <2>2. p \in Nat /\ current_partition \in Nat /\ ~dropped
    BY <1>1, PartitionNumbers DEF TypeOK, Calling
  <2>3. CASE <<s, p>> \in probe_run \/ p >= current_partition
    <3>1. freed[s][p] = 0
      BY <2>2, <2>3 DEF Freed
    <3> DEFINE n == Cardinality(Lists(s, p))
    <3>2. freed'[s][p] = 0 + n /\ n \in Nat /\ (partitions[s][p] # <<>> => n \in {1, 2})
      BY <1>3, <2>1, <3>1
    <3> HIDE DEF n
    <3>3. 0 + n = n
      BY <3>2
    <3> QED
      BY <3>2, <3>3
  <2>4. CASE <<s, p>> \notin probe_run /\ p < current_partition
    <3>1. partitions[s][p] # <<>> => freed[s][p] = 1
      BY <2>2, <2>4 DEF Freed
    <3> QED
      BY <1>3, <2>1, <2>4, <3>1
  <2> QED
    BY <2>2, <2>3, <2>4
<1>5. freed' \in [Sides -> [Partition -> Nat]]
  <2>1. freed' = [s \in Sides |-> [p \in Partition |-> freed'[s][p]]]
    BY <1>1
  <2> QED
    BY <1>4, <2>1
<1>6. TypeOK'
  BY <1>1, <1>5 DEF TypeOK
<1>7. OnePlace'
  BY <1>1 DEF OnePlace, Bucket, Probe
<1>8. Matched'
  BY <1>1 DEF Matched, ProbeRowKept, ProbeRows, Probe
<1>9. Phased'
  <2>1. phase \notin Reading
    BY <1>1 DEF Calling, Reading
  <2> QED
    BY <1>1, <2>1 DEF Phased, Bits, Probe
<1>10. Freed'
  BY <1>1, <1>4 DEF Freed
<1> QED
  BY <1>6, <1>7, <1>8, <1>9, <1>10

LEMMA NextInv == Inv /\ [Next]_vars => Inv'
<1> SUFFICES ASSUME Inv, [Next]_vars PROVE Inv'
  OBVIOUS
<1>1. CASE UNCHANGED vars
  <2> USE DEF Inv, vars, reading, runs, table, probing
  <2>1. TypeOK' /\ OnePlace'
    BY <1>1 DEF TypeOK, OnePlace, Bucket, Probe
  <2>2. Matched'
    BY <1>1 DEF Matched, ProbeRowKept, ProbeRows, Probe
  <2>3. Phased'
    BY <1>1 DEF Phased, Reading, Bits, Probe
  <2>4. Freed'
    BY <1>1 DEF Freed
  <2> QED
    BY <2>1, <2>2, <2>3, <2>4
<1>2. CASE ReadChunk("left", "right") \/ ReadChunk("right", "left")
  BY <1>2, ReadChunkInv DEF Sides
<1> QED
  BY <1>1, <1>2, BuildInMemoryInv, PartitionLeftInv, PartitionRightInv, NextMatchInv,
     ProbeBufferedInv, ProbeChildInv, FreeProbeRunInv, JoinPartitionInv, SkipPartitionInv,
     NextNoneInv, DropInv DEF Next

(* Everything is of its type; matches are indexes of the built table.      *)
THEOREM Types == Spec => []TypeOK
<1>1. Inv => TypeOK
  BY DEF Inv
<1> QED
  BY <1>1, InitInv, NextInv, PTL DEF Spec

(* The unwraps of the probe row succeed, and it is the row that matched.   *)
THEOREM RowKept == Spec => []ProbeRowKept
<1>1. Inv => ProbeRowKept
  BY DEF Inv, Matched
<1> QED
  BY <1>1, InitInv, NextInv, PTL DEF Spec

(* next() gives each run back once it has been read, not before and not    *)
(* twice; after the drop every run is back.                                *)
THEOREM Frees == Spec => []FreedAfterRead
<1>1. Inv => FreedAfterRead
  <2> SUFFICES ASSUME Inv, NEW run \in Listed
               PROVE  /\ ~dropped => freed[run[1]][run[2]] = IF ToBeRead(run) THEN 0 ELSE 1
                      /\ dropped => freed[run[1]][run[2]] \in {1, 2}
    BY DEF FreedAfterRead
  <2>1. /\ run[1] \in Sides /\ run[2] \in Partition /\ run = <<run[1], run[2]>>
        /\ partitions[run[1]][run[2]] # <<>>
    BY DEF Listed
  <2>2. run[2] >= current_partition \/ run[2] < current_partition
    <3>1. run[2] \in Nat /\ current_partition \in 0 .. NumPartitions /\ NumPartitions \in Nat
      BY <2>1, PartitionNumbers, JoinAssumption DEF Inv, TypeOK
    <3> QED
      BY <3>1
  <2> QED
    BY <2>1, <2>2 DEF Inv, Freed, ToBeRead
<1> QED
  BY <1>1, InitInv, NextInv, PTL DEF Spec

-----------------------------------------------------------------------------
(* The pending pairs by phase.                                             *)
Facing(left, bs, ps) == IF left THEN EqualPairs(bs, ps) ELSE EqualPairs(ps, bs)
Found(left, rows, is, ps) ==
    { IF left THEN <<rows[i], p>> ELSE <<p, rows[i]>> : i \in is, p \in ps }
PairsOf(parts, p) == EqualPairs(ToSet(parts["left"][p]), ToSet(parts["right"][p]))
ToCome == IF phase = "disk"
          THEN UNION { PairsOf(partitions, p) : p \in current_partition .. NumPartitions - 1 }
          ELSE {}

ReadingPending == EqualPairs(Held("left"), Held("right"))
ReadyPending ==
    Found(build_is_left, build_side, ToSet(matches), current_probe_row)
    \cup (Facing(build_is_left, ToSet(build_side), ProbeRows) \cup ToCome)

LEMMA PendingIs ==
    /\ Inv /\ phase \in Reading => Pending = ReadingPending
    /\ Inv /\ phase \in {"memory", "disk"} => Pending = ReadyPending
<1>1. Pending =
         Found(build_is_left, build_side, ToSet(matches), current_probe_row)
         \cup Facing(build_is_left, ToSet(build_side), ProbeRows)
         \cup CASE phase = "memory" -> {}
                [] phase = "disk" ->
                     UNION { PairsOf(partitions, p) : p \in current_partition .. NumPartitions - 1 }
                [] OTHER -> ReadingPending
  BY DEF Pending, Found, Facing, Pair, PairsOf, ReadingPending
<1>2. ASSUME Inv, phase \in Reading PROVE Pending = ReadingPending
  <2>1. phase # "memory" /\ phase # "disk"
    BY <1>2 DEF Reading
  <2>2. Found(build_is_left, build_side, ToSet(matches), current_probe_row) = {}
    BY <1>2 DEF Inv, Phased, Found
  <2>3. Facing(build_is_left, ToSet(build_side), ProbeRows) = {}
    BY <1>2, Empty DEF Inv, Phased, Facing, EqualPairs
  <2> QED
    BY <1>1, <2>1, <2>2, <2>3
<1>3. ASSUME Inv, phase \in {"memory", "disk"} PROVE Pending = ReadyPending
  <2>1. CASE phase = "memory"
    BY <1>1, <2>1 DEF ReadyPending, ToCome
  <2>2. CASE phase = "disk"
    BY <1>1, <2>2 DEF ReadyPending, ToCome
  <2> QED
    BY <1>3, <2>1, <2>2
<1> QED
  BY <1>2, <1>3

LEMMA PendingIsNext ==
    /\ Inv' /\ phase' \in Reading => Pending' = ReadingPending'
    /\ Inv' /\ phase' \in {"memory", "disk"} => Pending' = ReadyPending'
<1>1. (/\ Inv /\ phase \in Reading => Pending = ReadingPending
       /\ Inv /\ phase \in {"memory", "disk"} => Pending = ReadyPending)'
  BY PendingIs, PTL
<1> QED
  BY <1>1 DEF Reading

LEMMA HeldRows == ASSUME Inv, NEW s \in Sides PROVE Held(s) \subseteq Row
<1>1. /\ child[s] \in Seq(Row) /\ buffered[s] \in Seq(Row)
      /\ \A p \in Partition : partitions[s][p] \in Seq(Row)
  BY DEF Inv, TypeOK
<1>2. /\ ToSet(child[s]) \subseteq Row /\ ToSet(buffered[s]) \subseteq Row
      /\ \A p \in Partition : ToSet(partitions[s][p]) \subseteq Row
  BY <1>1, Elements
<1> QED
  BY <1>2 DEF Held

-----------------------------------------------------------------------------
(* Reading, filtering and partitioning the inputs loses no pair.           *)
LEMMA ReadChunkSilent ==
    ASSUME Inv, NEW s \in Sides, NEW other \in Sides, ReadChunk(s, other)
    PROVE  UNCHANGED <<Pending, out, done>>
<1>1. /\ \A t \in Sides \ {s} : child'[t] = child[t] /\ buffered'[t] = buffered[t]
      /\ ToSet(child'[s]) \cup ToSet(buffered'[s]) = ToSet(child[s]) \cup ToSet(buffered[s])
      /\ phase' \in {"partition", "build", other}
  BY ChunkRead
<1>2. phase \in Reading /\ phase' \in Reading
  BY <1>1 DEF ReadChunk, Sides, Reading
<1>3. UNCHANGED <<partitions, out, done>>
  BY DEF ReadChunk, runs
<1>4. \A t \in Sides : ToSet(child'[t]) \cup ToSet(buffered'[t])
                       = ToSet(child[t]) \cup ToSet(buffered[t])
  BY <1>1
<1>5. Held("left")' = Held("left") /\ Held("right")' = Held("right")
  BY <1>3, <1>4 DEF Held, Sides
<1>6. Inv'
  BY ReadChunkInv
<1> QED
  BY <1>2, <1>3, <1>5, <1>6, PendingIs, PendingIsNext DEF ReadingPending, EqualPairs

LEMMA BuildInMemorySilent ==
    ASSUME Inv, BuildInMemory PROVE UNCHANGED <<Pending, out, done>>
<1> DEFINE B == ToSet(build_side')
           P == ToSet(probe_rest')
<1>1. /\ build_is_left' \in BOOLEAN
      /\ build_side' = buffered[Build'] /\ probe_rest' = buffered[Probe']
      /\ child[Build'] = <<>> /\ child'["left"] = child["left"]
      /\ ToSet(child'["right"]) \subseteq ToSet(child["right"])
      /\ \A r \in ToSet(child["right"]) :
            MightContain(Bits(build_side'), r) => r \in ToSet(child'["right"])
      /\ Build' \in Sides /\ Probe' \in Sides
  BY Built
<1>2. /\ phase = "build" /\ phase' = "memory"
      /\ UNCHANGED <<matches, out, done>>
  BY DEF BuildInMemory
<1>3. /\ matches = <<>> /\ \A s \in Sides, p \in Partition : partitions[s][p] = <<>>
      /\ \A s \in Sides : Held(s) = ToSet(child[s]) \cup ToSet(buffered[s])
  <2>1. matches = <<>> /\ \A s \in Sides, p \in Partition : partitions[s][p] = <<>>
    BY <1>2 DEF Inv, Phased, Reading
  <2> QED
    BY <2>1, Empty DEF Held
<1>4. /\ Build' = (IF build_is_left' THEN "left" ELSE "right")
      /\ Probe' = (IF build_is_left' THEN "right" ELSE "left")
  BY DEF Build, Probe
<1>5. Pending = EqualPairs(Held("left"), Held("right"))
  BY <1>2, PendingIs DEF Reading, ReadingPending
<1>6. Pending' = Facing(build_is_left', B, P \cup ToSet(child'[Probe']))
  <2>1. Inv'
    BY BuildInMemoryInv
  <2>2. Pending' = ReadyPending'
    BY <1>2, <2>1, PendingIsNext
  <2>3. Found(build_is_left', build_side', ToSet(matches'), current_probe_row') = {}
    BY <1>2, <1>3, Empty DEF Found
  <2>4. ProbeRows' = P \cup ToSet(child'[Probe'])
    BY <1>2 DEF ProbeRows
  <2>5. ToCome' = {}
    BY <1>2 DEF ToCome
  <2> QED
    BY <2>2, <2>3, <2>4, <2>5 DEF ReadyPending
<1>7. CASE build_is_left'
  <2>1. Held("left") = B /\ Held("right") = ToSet(child["right"]) \cup P
        /\ Pending' = EqualPairs(B, P \cup ToSet(child'["right"]))
    BY <1>1, <1>3, <1>4, <1>6, <1>7, Empty DEF Facing, Sides
  <2>2. ASSUME NEW b \in B, NEW r \in ToSet(child["right"]), Meets(b.key, r.key)
        PROVE  r \in ToSet(child'["right"])
    <3>1. build_side' \in Seq(Row) /\ r \in Row
      BY <1>1, Elements DEF Inv, TypeOK, Sides
    <3>2. MightContain(Bits(build_side'), r)
      BY <2>2, <3>1, PassesBits
    <3> QED
      BY <1>1, <3>2
  <2> HIDE DEF B, P
  <2>3. EqualPairs(B, ToSet(child["right"]) \cup P) = EqualPairs(B, P \cup ToSet(child'["right"]))
    BY <1>1, <2>2 DEF EqualPairs
  <2> QED
    BY <1>2, <1>5, <2>1, <2>3
<1>8. CASE ~build_is_left'
  <2>1. Held("right") = B /\ Held("left") = P \cup ToSet(child'["left"])
        /\ Pending' = EqualPairs(P \cup ToSet(child'["left"]), B)
    BY <1>1, <1>3, <1>4, <1>6, <1>8, Empty DEF Facing, Sides
  <2> QED
    BY <1>2, <1>5, <2>1
<1> QED
  BY <1>1, <1>7, <1>8

LEMMA PartitionLeftSilent ==
    ASSUME Inv, PartitionLeft PROVE UNCHANGED <<Pending, out, done>>
<1>1. PICK ps \in PartitionInput("left") : partitions' = [partitions EXCEPT !["left"] = ps]
  BY DEF PartitionLeft
<1> DEFINE read == buffered["left"] \o child["left"]
<1>2. PICK rows \in ScanFiltered(child["right"], Bits(read)) :
         child' = [left |-> <<>>, right |-> rows]
  BY DEF PartitionLeft
<1>3. /\ phase = "partition" /\ phase' = "partition_right"
      /\ buffered' = [buffered EXCEPT !["left"] = <<>>]
      /\ UNCHANGED <<out, done>>
  BY DEF PartitionLeft
<1>4. /\ child["left"] \in Seq(Row) /\ buffered["left"] \in Seq(Row)
      /\ child["right"] \in Seq(Row)
  BY DEF Inv, TypeOK, Sides
<1>5. read \in Seq(Row) /\ ToSet(read) = ToSet(buffered["left"]) \cup ToSet(child["left"])
  BY <1>4, Joined
<1> HIDE DEF read
<1>6. /\ ToSet(rows) \subseteq ToSet(child["right"])
      /\ \A r \in ToSet(child["right"]) : MightContain(Bits(read), r) => r \in ToSet(rows)
  BY <1>4, ScanKeeps
<1>7. UNION { ToSet(ps[p]) : p \in Partition } = ToSet(read)
  BY <1>5, Partitioned DEF Inv, Sides
<1>8. /\ child'["left"] = <<>> /\ child'["right"] = rows
      /\ buffered'["left"] = <<>> /\ buffered'["right"] = buffered["right"]
      /\ partitions'["left"] = ps /\ partitions'["right"] = partitions["right"]
  BY <1>1, <1>2, <1>3 DEF Inv, TypeOK, Sides
<1>9. \A s \in Sides, p \in Partition : partitions[s][p] = <<>>
  BY <1>3 DEF Inv, Phased, Reading
<1>10. Held("left") = ToSet(read) /\ Held("left")' = ToSet(read)
  BY <1>5, <1>7, <1>8, <1>9, Empty DEF Held, Sides
<1>11. /\ Held("right") = ToSet(child["right"]) \cup ToSet(buffered["right"])
       /\ Held("right")' = ToSet(rows) \cup ToSet(buffered["right"])
  BY <1>8, <1>9, Empty DEF Held, Sides
<1>12. ASSUME NEW b \in ToSet(read), NEW r \in ToSet(child["right"]), Meets(b.key, r.key)
       PROVE  r \in ToSet(rows)
  <2>1. r \in Row
    BY <1>4, Elements
  <2>2. MightContain(Bits(read), r)
    BY <1>5, <1>12, <2>1, PassesBits
  <2> QED
    BY <1>6, <2>2
<1>13. EqualPairs(Held("left"), Held("right")) = EqualPairs(Held("left")', Held("right")')
  BY <1>6, <1>10, <1>11, <1>12 DEF EqualPairs
<1>14. Inv'
  BY PartitionLeftInv
<1>15. ReadingPending' = EqualPairs(Held("left")', Held("right")')
  BY DEF ReadingPending, EqualPairs
<1> QED
  BY <1>3, <1>13, <1>14, <1>15, PendingIs, PendingIsNext DEF Reading, ReadingPending

LEMMA PartitionRightSilent ==
    ASSUME Inv, PartitionRight PROVE UNCHANGED <<Pending, out, done>>
<1>1. PICK ps \in PartitionInput("right") : partitions' = [partitions EXCEPT !["right"] = ps]
  BY DEF PartitionRight
<1>2. /\ phase = "partition_right" /\ phase' = "disk"
      /\ UNCHANGED <<current_partition, build_side, matches, out, done>>
  BY DEF PartitionRight, table, probing
<1> DEFINE L(p) == ToSet(partitions["left"][p])
           R(p) == ToSet(ps[p])
<1>3. partitions'["left"] = partitions["left"] /\ partitions'["right"] = ps
  BY <1>1 DEF Inv, TypeOK, Sides
<1>4. /\ matches = <<>> /\ build_side = <<>> /\ current_partition = 0
      /\ buffered["left"] = <<>> /\ child["left"] = <<>>
      /\ \A p \in Partition : partitions["right"][p] = <<>>
  BY <1>2 DEF Inv, Phased, Reading
<1>5. /\ Held("left") = UNION { L(p) : p \in Partition }
      /\ Held("right") = UNION { R(p) : p \in Partition }
  BY <1>4, Empty, Partitioned DEF Held, Inv, Sides
<1>6. \A p \in Partition : /\ \A r \in L(p) : r \in Row /\ Bucket(r) = p
                           /\ \A r \in R(p) : r \in Row /\ Bucket(r) = p
  <2>1. Held("left") \subseteq Row /\ Held("right") \subseteq Row
    BY HeldRows DEF Sides
  <2>2. \A p \in Partition : /\ \A r \in L(p) : Bucket(r) = p
                             /\ \A r \in R(p) : Bucket(r) = p
    BY Partitioned DEF Inv, OnePlace, Sides
  <2> QED
    BY <1>5, <2>1, <2>2
<1> HIDE DEF L, R
<1>7. \A l, r \in Row : Meets(l.key, r.key) => Bucket(l) = Bucket(r)
  BY MeetsFacts
<1>8. EqualPairs(Held("left"), Held("right")) = UNION { EqualPairs(L(p), R(p)) : p \in Partition }
  BY <1>5, <1>6, <1>7 DEF EqualPairs
<1>9. Pending = EqualPairs(Held("left"), Held("right"))
  BY <1>2, PendingIs DEF Reading, ReadingPending
<1>10. Pending' = UNION { EqualPairs(L(p), R(p)) : p \in Partition }
  <2>1. Pending' = ReadyPending'
    BY <1>2, PartitionRightInv, PendingIsNext
  <2>2. Found(build_is_left', build_side', ToSet(matches'), current_probe_row') = {}
    BY <1>2, <1>4, Empty DEF Found
  <2>3. Facing(build_is_left', ToSet(build_side'), ProbeRows') = {}
    BY <1>2, <1>4, Empty DEF Facing, EqualPairs
  <2>4. ToCome' = UNION { PairsOf(partitions', p) : p \in Partition }
    BY <1>2, <1>4 DEF ToCome, Partition, PairsOf, EqualPairs
  <2>5. \A p \in Partition : PairsOf(partitions', p) = EqualPairs(L(p), R(p))
    BY <1>3 DEF PairsOf, L, R
  <2> QED
    BY <2>1, <2>2, <2>3, <2>4, <2>5 DEF ReadyPending
<1> QED
  BY <1>2, <1>8, <1>9, <1>10

-----------------------------------------------------------------------------
LEMMA PairsApart ==
    ASSUME NEW left \in BOOLEAN, NEW B, NEW P, NEW Q
    PROVE  Facing(left, B, P \cup Q) = Facing(left, B, P) \cup Facing(left, B, Q)
BY DEF Facing, EqualPairs

(* A pair next() returns is promised nowhere else: the match has been      *)
(* taken off, the probe row is not to come again, and a partition that is  *)
(* still to be joined has other rows than the one that was built from.     *)
LEMMA NextMatchDelivers ==
    ASSUME Inv, NextMatch PROVE \E r \in Pending : Stream!Deliver(r)
<1> DEFINE h == Head(matches)
           B == ToSet(build_side)
<1>1. /\ Calling /\ matches # <<>> /\ matches' = Tail(matches)
      /\ current_probe_row' = IF Tail(matches) = <<>> THEN {} ELSE current_probe_row
      /\ UNCHANGED <<child, phase, partitions, current_partition, build_is_left, build_side,
                     probe_rest, done>>
  BY DEF NextMatch, reading, runs, table
<1>2. PICK p \in current_probe_row : out' = {Pair(build_side[h], p)}
  BY DEF NextMatch
<1>3. matches \in Seq(DOMAIN build_side) /\ Distinct(matches) /\ build_side \in Seq(Row)
      /\ Distinct(build_side) /\ build_is_left \in BOOLEAN
  BY DEF Inv, TypeOK, Matched, OnePlace
<1>4. /\ h \in DOMAIN build_side /\ matches' \in Seq(DOMAIN build_side)
      /\ ToSet(matches) = {h} \cup ToSet(matches') /\ h \notin ToSet(matches')
      /\ DOMAIN build_side = 1 .. Len(build_side)
      /\ ToSet(matches') \subseteq DOMAIN build_side
  BY <1>1, <1>3, HeadAndTail, Elements
<1>5. current_probe_row = {p} /\ p \notin ProbeRows /\ p \in Row
  BY <1>1 DEF Inv, Matched, TypeOK
<1>6. build_side[h] \in Row /\ build_side[h] \in B
      /\ \A i \in ToSet(matches') : build_side[i] # build_side[h]
  <2>1. \A i \in ToSet(matches') : i \in 1 .. Len(build_side) /\ i # h
    BY <1>4
  <2>2. \A i, j \in 1 .. Len(build_side) : build_side[i] = build_side[j] => i = j
    BY <1>3 DEF Distinct
  <2>3. build_side[h] \in Row /\ build_side[h] \in B
    BY <1>3, <1>4, Elements
  <2> HIDE DEF h, B
  <2> QED
    BY <1>4, <2>1, <2>2, <2>3
<1> DEFINE r == Pair(build_side[h], p)
           rest == Facing(build_is_left, B, ProbeRows) \cup ToCome
<1>7. r = IF build_is_left THEN <<build_side[h], p>> ELSE <<p, build_side[h]>>
  BY DEF Pair
<1>8. Pending = Found(build_is_left, build_side, ToSet(matches), {p}) \cup rest
  BY <1>1, <1>5, PendingIs DEF ReadyPending, Calling
<1>9. Pending' = Found(build_is_left, build_side, ToSet(matches'), {p}) \cup rest
  <2>1. Pending' = ReadyPending'
    BY <1>1, NextMatchInv, PendingIsNext DEF Calling
  <2>2. ProbeRows' = ProbeRows
    BY <1>1 DEF ProbeRows, Probe
  <2>3. ToCome' = ToCome
    BY <1>1 DEF ToCome, PairsOf, EqualPairs
  <2>4. Found(build_is_left, build_side, ToSet(matches'), current_probe_row')
        = Found(build_is_left, build_side, ToSet(matches'), {p})
    <3>1. CASE matches' = <<>>
      BY <3>1, Empty DEF Found
    <3>2. CASE matches' # <<>>
      BY <1>1, <1>5, <3>2
    <3> QED
      BY <3>1, <3>2
  <2> QED
    BY <1>1, <2>1, <2>2, <2>3, <2>4 DEF ReadyPending
<1> HIDE DEF h, B, r
<1>10. r \notin Facing(build_is_left, B, ProbeRows)
  BY <1>3, <1>5, <1>7 DEF Facing, EqualPairs
<1>11. r \notin ToCome
  <2> SUFFICES ASSUME phase = "disk", NEW k \in current_partition .. NumPartitions - 1,
                      r \in PairsOf(partitions, k)
               PROVE  FALSE
    BY DEF ToCome
  <2>1. current_partition \in Nat /\ NumPartitions \in Nat
    BY JoinAssumption DEF Inv, TypeOK
  <2>2. k \in Partition /\ k >= current_partition /\ k \in Nat
    BY <2>1 DEF Partition
  <2>3. build_side[h] \in ToSet(partitions["left"][k]) \cup ToSet(partitions["right"][k])
    BY <1>3, <1>7 DEF PairsOf, EqualPairs
  <2>4. Bucket(build_side[h]) = k
    BY <2>2, <2>3 DEF Inv, OnePlace, Sides
  <2>5. Bucket(build_side[h]) < current_partition
    BY <1>6 DEF Inv, OnePlace, B
  <2> QED
    BY <2>1, <2>2, <2>4, <2>5
<1>12. r \notin Found(build_is_left, build_side, ToSet(matches'), {p})
  BY <1>3, <1>6, <1>7 DEF Found
<1>13. Found(build_is_left, build_side, ToSet(matches), {p})
       = {r} \cup Found(build_is_left, build_side, ToSet(matches'), {p})
  BY <1>3, <1>4, <1>7 DEF Found
<1>14. r \in Pending /\ Pending' = Pending \ {r}
  <2> HIDE DEF rest
  <2>1. r \notin rest
    BY <1>10, <1>11 DEF rest
  <2> QED
    BY <1>8, <1>9, <1>12, <1>13, <2>1
<1>15. ~done /\ done' = done
  BY <1>1 DEF Inv, Phased
<1> QED
  BY <1>2, <1>14, <1>15 DEF Stream!Deliver, r

(* The matches of a probe row are its pairs: the filter hides none of them. *)
LEMMA ProbeSilent ==
    ASSUME Inv, Inv', NEW r \in Row, Calling, matches = <<>>, ProbeWith(r),
           ProbeRows = {r} \cup ProbeRows',
           UNCHANGED <<phase, partitions, current_partition, build_is_left, build_side>>
    PROVE  Pending' = Pending
<1> DEFINE B == ToSet(build_side)
           M == Found(build_is_left, build_side, Matching(r), {r})
<1>1. build_side \in Seq(Row) /\ build_is_left \in BOOLEAN /\ B \subseteq Row
      /\ B = { build_side[i] : i \in DOMAIN build_side }
  <2>1. build_side \in Seq(Row) /\ build_is_left \in BOOLEAN
    BY DEF Inv, TypeOK
  <2> QED
    BY <2>1, Elements
<1>2. /\ ToSet(matches') = Matching(r) /\ (matches' # <<>> => current_probe_row' = {r})
      /\ matches' \in Seq(DOMAIN build_side)
  BY ProbedWith
<1>3. Pending = Facing(build_is_left, B, ProbeRows) \cup ToCome
  <2>1. Found(build_is_left, build_side, ToSet(matches), current_probe_row) = {}
    BY Empty DEF Found
  <2> QED
    BY <2>1, PendingIs DEF ReadyPending, Calling
<1>4. Pending' = M \cup (Facing(build_is_left, B, ProbeRows') \cup ToCome)
  <2>1. Pending' = ReadyPending'
    BY PendingIsNext DEF Calling
  <2>2. ToCome' = ToCome
    BY DEF ToCome, PairsOf, EqualPairs
  <2>3. Found(build_is_left, build_side, ToSet(matches'), current_probe_row') = M
    <3>1. CASE matches' = <<>>
      <4>1. Matching(r) = {}
        BY <1>2, <3>1, Empty
      <4> QED
        BY <1>2, <3>1, <4>1, Empty DEF Found
    <3>2. CASE matches' # <<>>
      BY <1>2, <3>2
    <3> QED
      BY <3>1, <3>2
  <2> QED
    BY <2>1, <2>2, <2>3 DEF ReadyPending
<1>5. M = Facing(build_is_left, B, {r})
  <2>1. \A b \in B : /\ Meets(b.key, r.key) <=> Meets(r.key, b.key)
                     /\ Meets(b.key, r.key) => Hash(b.key) = Hash(r.key)
    BY <1>1, MeetsFacts
  <2> DEFINE E == { b \in B : Meets(b.key, r.key) }
  <2>2. E = { build_side[i] : i \in Matching(r) }
    BY <1>1, <2>1 DEF Matching
  <2>3. CASE build_is_left
    <3>1. M = { <<build_side[i], r>> : i \in Matching(r) }
      BY <2>3 DEF Found
    <3>2. Facing(build_is_left, B, {r}) = { <<b, r>> : b \in E }
      BY <2>3 DEF Facing, EqualPairs
    <3> HIDE DEF M, E
    <3>3. \A i \in Matching(r) : <<build_side[i], r>> \in { <<b, r>> : b \in E }
      BY <2>2
    <3>4. \A b \in E : <<b, r>> \in { <<build_side[i], r>> : i \in Matching(r) }
      BY <2>2
    <3> QED
      BY <3>1, <3>2, <3>3, <3>4
  <2>4. CASE ~build_is_left
    <3>1. M = { <<r, build_side[i]>> : i \in Matching(r) }
      BY <2>4 DEF Found
    <3>2. Facing(build_is_left, B, {r}) = { <<r, b>> : b \in E }
      BY <2>1, <2>4 DEF Facing, EqualPairs
    <3> HIDE DEF M, E
    <3>3. \A i \in Matching(r) : <<r, build_side[i]>> \in { <<r, b>> : b \in E }
      BY <2>2
    <3>4. \A b \in E : <<r, b>> \in { <<r, build_side[i]>> : i \in Matching(r) }
      BY <2>2
    <3> QED
      BY <3>1, <3>2, <3>3, <3>4
  <2> QED
    BY <1>1, <2>3, <2>4
<1>6. Facing(build_is_left, B, ProbeRows)
      = Facing(build_is_left, B, {r}) \cup Facing(build_is_left, B, ProbeRows')
  BY <1>1, PairsApart
<1> HIDE DEF M, B
<1> QED
  BY <1>3, <1>4, <1>5, <1>6

LEMMA ProbeBufferedSilent ==
    ASSUME Inv, ProbeBuffered PROVE UNCHANGED <<Pending, out, done>>
<1> DEFINE r == Head(probe_rest)
<1>1. /\ r \in Row /\ ProbeRows = {r} \cup ProbeRows'
      /\ UNCHANGED <<reading, phase, dropped, runs, table, probe_run, out, done>>
      /\ Calling /\ matches = <<>> /\ ProbeWith(r)
  BY BufferedProbe
<1> HIDE DEF r
<1>2. Inv'
  BY ProbeBufferedInv
<1>3. UNCHANGED <<phase, partitions, current_partition, build_is_left, build_side>>
  BY <1>1 DEF runs, table
<1> QED
  BY <1>1, <1>2, <1>3, ProbeSilent

LEMMA ProbeChildSilent ==
    ASSUME Inv, ProbeChild PROVE UNCHANGED <<Pending, out, done>>
<1> DEFINE r == Head(child[Probe])
<1>1. /\ r \in Row /\ ProbeRows = {r} \cup ProbeRows'
      /\ UNCHANGED <<buffered, exhausted, dynamic_filter, phase, dropped, runs, table,
                     probe_run, probe_rest, out, done>>
      /\ Calling /\ matches = <<>> /\ ProbeWith(r)
  BY ChildProbe
<1> HIDE DEF r
<1>2. Inv'
  BY ProbeChildInv
<1>3. UNCHANGED <<phase, partitions, current_partition, build_is_left, build_side>>
  BY <1>1 DEF runs, table
<1> QED
  BY <1>1, <1>2, <1>3, ProbeSilent

-----------------------------------------------------------------------------
(* From a pair of partitions to the next: what is to come gets one pair of *)
(* runs less, which the table and the probe rows take over.                *)
Later(k) == UNION { PairsOf(partitions, p) : p \in k .. NumPartitions - 1 }

LEMMA FirstToCome ==
    ASSUME Inv, current_partition \in Partition
    PROVE  Later(current_partition)
           = PairsOf(partitions, current_partition) \cup Later(current_partition + 1)
<1> DEFINE k == current_partition
           n == NumPartitions
<1>1. k \in Nat /\ n \in Nat /\ k < n
  BY PartitionNumbers DEF Inv, Partition
<1>2. k .. n - 1 = {k} \cup (k + 1 .. n - 1)
  BY <1>1
<1> QED
  BY <1>2 DEF Later

LEMMA BetweenPartitions ==
    ASSUME Inv, AtNextPartition
    PROVE  /\ ProbeRows = {} /\ matches = <<>> /\ phase = "disk"
           /\ Pending = Later(current_partition)
           /\ Pending = PairsOf(partitions, current_partition) \cup Later(current_partition + 1)
<1>1. /\ matches = <<>> /\ phase = "disk" /\ probe_rest = <<>>
      /\ current_partition < NumPartitions
  BY DEF AtNextPartition, Inv, Phased
<1>2. ProbeRows = {}
  BY <1>1, Empty DEF ProbeRows
<1>3. Pending = Later(current_partition)
  <2>1. Found(build_is_left, build_side, ToSet(matches), current_probe_row) = {}
    BY <1>1, Empty DEF Found
  <2>2. Facing(build_is_left, ToSet(build_side), ProbeRows) = {}
    BY <1>2 DEF Facing, EqualPairs
  <2> QED
    BY <1>1, <2>1, <2>2, PendingIs DEF ReadyPending, ToCome, Later
<1>4. current_partition \in Partition
  BY <1>1, PartitionNumbers DEF Inv
<1> QED
  BY <1>1, <1>2, <1>3, <1>4, FirstToCome

LEMMA JoinPartitionSilent == ASSUME Inv, JoinPartition PROVE UNCHANGED <<Pending, out, done>>
<1> DEFINE k == current_partition
<1>1. /\ build_is_left' \in BOOLEAN
      /\ build_side' = partitions[Build'][k] /\ probe_rest' = partitions[Probe'][k]
      /\ current_partition' = k + 1
      /\ UNCHANGED <<reading, phase, dropped, partitions,
                     current_probe_row, matches, out, done>>
  BY PairJoined
<1>2. /\ Build' = (IF build_is_left' THEN "left" ELSE "right")
      /\ Probe' = (IF build_is_left' THEN "right" ELSE "left")
  BY DEF Build, Probe
<1>3. /\ phase = "disk" /\ matches = <<>>
      /\ Pending = PairsOf(partitions, k) \cup Later(k + 1)
  BY BetweenPartitions DEF JoinPartition
<1>4. Facing(build_is_left', ToSet(build_side'), ToSet(probe_rest')) = PairsOf(partitions, k)
  BY <1>1, <1>2 DEF Facing, PairsOf
<1>5. Pending' = PairsOf(partitions, k) \cup Later(k + 1)
  <2>1. Pending' = ReadyPending'
    BY <1>1, <1>3, JoinPartitionInv, PendingIsNext
  <2>2. Found(build_is_left', build_side', ToSet(matches'), current_probe_row') = {}
    BY <1>1, <1>3, Empty DEF Found
  <2>3. ProbeRows' = ToSet(probe_rest')
    BY <1>1, <1>3 DEF ProbeRows
  <2>4. ToCome' = Later(k + 1)
    BY <1>1, <1>3 DEF ToCome, Later, PairsOf, EqualPairs
  <2> QED
    BY <1>4, <2>1, <2>2, <2>3, <2>4 DEF ReadyPending
<1> QED
  BY <1>1, <1>3, <1>5

LEMMA SkipPartitionSilent == ASSUME Inv, SkipPartition PROVE UNCHANGED <<Pending, out, done>>
<1> DEFINE k == current_partition
<1>1. /\ \E s \in Sides : partitions[s][k] = <<>>
      /\ current_partition' = k + 1
      /\ UNCHANGED <<child, phase, partitions, build_is_left, build_side, probe_rest,
                     current_probe_row, matches, out, done>>
  BY DEF SkipPartition, AtNextPartition, reading, table, probing
<1>2. /\ phase = "disk" /\ matches = <<>> /\ ProbeRows = {}
      /\ Pending = PairsOf(partitions, k) \cup Later(k + 1)
  BY BetweenPartitions DEF SkipPartition
<1>3. PairsOf(partitions, k) = {}
  BY <1>1, Empty DEF Sides, PairsOf, EqualPairs
<1>4. Pending' = Later(k + 1)
  <2>1. Pending' = ReadyPending'
    BY <1>1, <1>2, SkipPartitionInv, PendingIsNext
  <2>2. Found(build_is_left', build_side', ToSet(matches'), current_probe_row') = {}
    BY <1>1, <1>2, Empty DEF Found
  <2>3. ProbeRows' = ProbeRows
    BY <1>1 DEF ProbeRows, Probe
  <2>4. Facing(build_is_left', ToSet(build_side'), ProbeRows') = {}
    BY <1>2, <2>3 DEF Facing, EqualPairs
  <2>5. ToCome' = Later(k + 1)
    BY <1>1, <1>2 DEF ToCome, Later, PairsOf, EqualPairs
  <2> QED
    BY <2>1, <2>2, <2>4, <2>5 DEF ReadyPending
<1> QED
  BY <1>1, <1>2, <1>3, <1>4

LEMMA PendingStays ==
    ASSUME UNCHANGED <<child, buffered, phase, partitions, current_partition, build_is_left,
                       build_side, probe_rest, current_probe_row, matches>>
    PROVE  Pending' = Pending
<1>1. Held("left")' = Held("left") /\ Held("right")' = Held("right") /\ ProbeRows' = ProbeRows
  BY DEF Held, ProbeRows, Probe
<1> QED
  BY <1>1 DEF Pending, Pair, EqualPairs

(* None comes when no pair is left.                                        *)
LEMMA NoneEnds == ASSUME Inv, NextNone PROVE Stream!End
<1>1. /\ Calling /\ matches = <<>> /\ probe_rest = <<>>
      /\ \/ phase = "memory" /\ child[Probe] = <<>>
         \/ phase = "disk" /\ current_partition = NumPartitions
      /\ done' = TRUE
      /\ UNCHANGED <<reading, phase, runs, table, probing, out>>
  BY DEF NextNone
<1>2. Pending = {}
  <2>1. Found(build_is_left, build_side, ToSet(matches), current_probe_row) = {}
    BY <1>1, Empty DEF Found
  <2>2. ProbeRows = {}
    BY <1>1, Empty DEF ProbeRows
  <2>3. Facing(build_is_left, ToSet(build_side), ProbeRows) = {}
    BY <2>2 DEF Facing, EqualPairs
  <2>4. ToCome = {}
    <3>1. CASE phase = "memory"
      BY <3>1 DEF ToCome
    <3>2. CASE current_partition = NumPartitions
      <4>1. NumPartitions \in Nat /\ NumPartitions .. NumPartitions - 1 = {}
        BY JoinAssumption
      <4> QED
        BY <3>2, <4>1 DEF ToCome
    <3> QED
      BY <1>1, <3>1, <3>2
  <2> QED
    BY <1>1, <2>1, <2>3, <2>4, PendingIs DEF ReadyPending
<1>3. Pending' = Pending
  BY <1>1, PendingStays DEF reading, runs, table, probing
<1> QED
  BY <1>1, <1>2, <1>3 DEF Stream!End

(* Every pair of rows with equal keys of one hash comes once and None      *)
(* after the last, whichever side builds, in memory or on disk, whatever   *)
(* rows the published filter hides from the scan.                          *)
THEOREM Joins == Spec => JoinsAll
<1>1. Init => Stream!Init
  <2> SUFFICES ASSUME Init PROVE Stream!Init
    OBVIOUS
  <2>1. Inv /\ phase \in Reading
    BY InitInv DEF Init, Reading
  <2>2. Pending \subseteq Row \X Row
    BY <2>1, PendingIs, HeldRows DEF ReadingPending, EqualPairs, Sides
  <2> QED
    BY <2>2 DEF Init, Stream!Init
<1>2. Inv /\ [Next]_vars => [Stream!Next]_<<Pending, out, done>>
  <2> SUFFICES ASSUME Inv, [Next]_vars
               PROVE  [Stream!Next]_<<Pending, out, done>>
    OBVIOUS
  <2>1. CASE ReadChunk("left", "right") \/ ReadChunk("right", "left")
    BY <2>1, ReadChunkSilent DEF Sides
  <2>2. CASE BuildInMemory \/ PartitionLeft \/ PartitionRight
    BY <2>2, BuildInMemorySilent, PartitionLeftSilent, PartitionRightSilent
  <2>3. CASE NextMatch
    BY <2>3, NextMatchDelivers DEF Stream!Next
  <2>4. CASE ProbeBuffered \/ ProbeChild
    BY <2>4, ProbeBufferedSilent, ProbeChildSilent
  <2>5. CASE FreeProbeRun \/ Drop \/ UNCHANGED vars
    <3>1. UNCHANGED <<child, buffered, phase, partitions, current_partition, build_is_left,
                      build_side, probe_rest, current_probe_row, matches, out, done>>
      BY <2>5 DEF FreeProbeRun, Drop, vars, reading, runs, table, probing
    <3> QED
      BY <3>1, PendingStays
  <2>6. CASE JoinPartition \/ SkipPartition
    BY <2>6, JoinPartitionSilent, SkipPartitionSilent
  <2>7. CASE NextNone
    BY <2>7, NoneEnds DEF Stream!Next
  <2> QED
    BY <2>1, <2>2, <2>3, <2>4, <2>5, <2>6, <2>7 DEF Next
<1> QED
  BY <1>1, <1>2, InitInv, NextInv, PTL DEF Spec, JoinsAll, Stream!Spec

-----------------------------------------------------------------------------
(* Termination, but for fairness.                                          *)

Stage == CASE dropped -> 0
           [] ~dropped /\ phase \in Sides -> 4
           [] ~dropped /\ phase \in {"build", "partition"} -> 3
           [] ~dropped /\ phase = "partition_right" -> 2
           [] ~dropped /\ phase \in {"memory", "disk"} -> 1

(* What is left to do: stages, rows of the inputs, partitions, the run     *)
(* being probed with, its rows, matches of the probe row.  A step may add  *)
(* to what comes later in the tuple.                                       *)
RowsLeft       == Len(child["left"]) + Len(child["right"])
PartitionsLeft == NumPartitions - current_partition
RunOpen        == IF probe_run = {} THEN 0 ELSE 1

Work == <<Stage, RowsLeft, PartitionsLeft, RunOpen, Len(probe_rest), Len(matches)>>

Order == LexProductOrdering(OpToRel(<, Nat), Nat, 6)

LEMMA OrderWellFounded == IsWellFoundedOn(Order, [1 .. 6 -> Nat])
BY NatLessThanWellFounded, WFLexProductOrdering DEF Order

LEMMA LowerAt ==
    ASSUME NEW v \in [1 .. 6 -> Nat], NEW w \in [1 .. 6 -> Nat], NEW j \in 1 .. 6,
           v[j] < w[j], \A i \in 1 .. (j - 1) : v[i] = w[i]
    PROVE  <<v, w>> \in Order
<1>1. \A k \in 1 .. 6 : v[k] \in Nat /\ w[k] \in Nat
  OBVIOUS
<1> QED
  BY <1>1 DEF Order, LexProductOrdering, OpToRel

LEMMA Added ==
    ASSUME NEW a \in Nat, NEW b \in Nat
    PROVE  /\ a + b \in Nat
           /\ \A k \in Nat : k < a => k + b < a + b
           /\ \A k \in Nat : k < b => a + k < a + b
OBVIOUS

WorkIsNat == Work \in [1 .. 6 -> Nat]

LEMMA WorkNat == Inv => WorkIsNat
<1> SUFFICES ASSUME Inv PROVE WorkIsNat
  OBVIOUS
<1>1. child["left"] \in Seq(Row) /\ child["right"] \in Seq(Row)
  BY Strings DEF Inv, TypeOK
<1>2. Len(child["left"]) \in Nat /\ Len(child["right"]) \in Nat
  BY <1>1, Elements
<1>3. Len(probe_rest) \in Nat /\ Len(matches) \in Nat
  BY Elements DEF Inv, TypeOK
<1>4. Stage \in Nat
  BY DEF Inv, TypeOK, Stage
<1>5. PartitionsLeft \in Nat
  BY JoinAssumption DEF Inv, TypeOK, PartitionsLeft
<1>6. RunOpen \in Nat
  BY DEF RunOpen
<1>7. RowsLeft \in Nat
  BY <1>2, Added DEF RowsLeft
<1> QED
  BY <1>3, <1>4, <1>5, <1>6, <1>7 DEF Work, WorkIsNat

LEMMA WorkNatNext == Inv' => WorkIsNat'
BY WorkNat, PTL

LEMMA Shorter ==
    ASSUME NEW S, NEW s \in Seq(S), s # <<>>
    PROVE  Len(Tail(s)) = Len(s) - 1 /\ Len(s) \in Nat
OBVIOUS

(* A chunk is read, or its side is seen to have ended.                     *)
LEMMA ChunkLowers ==
    ASSUME Inv, NEW s \in Sides, NEW other \in Sides, ReadChunk(s, other)
    PROVE  Stage' < Stage \/ (Stage' = Stage /\ RowsLeft' < RowsLeft)
<1> DEFINE c == child[s]
           n == Min({ChunkSize, Len(c)})
<1>1. c \in Seq(Row) /\ Len(c) \in Nat /\ ChunkSize \in Nat \ {0}
  BY JoinAssumption, Elements DEF Inv, TypeOK
<1>2. n \in {ChunkSize, Len(c)} /\ n <= ChunkSize /\ n <= Len(c)
  <2>1. \E x \in {ChunkSize, Len(c)} : \A y \in {ChunkSize, Len(c)} : x <= y
    BY <1>1
  <2> QED
    BY <2>1 DEF Min
<1>3. /\ phase = s /\ phase' \in {"partition", "build", other} /\ dropped' = dropped
      /\ child' = [child EXCEPT ![s] = SubSeq(c, n + 1, Len(c))]
  BY ChunkRead DEF ReadChunk
<1>4. ~dropped
  BY <1>3 DEF Inv, Phased, Reading, Sides
<1>5. Stage = 4
  BY <1>3, <1>4 DEF Stage, Sides
<1>6. CASE phase' \in {"partition", "build"}
  <2>1. Stage' = 3
    BY <1>3, <1>4, <1>6 DEF Stage, Sides
  <2> QED
    BY <1>5, <2>1
<1>7. CASE phase' = other
  <2>1. Stage' = 4
    BY <1>3, <1>4, <1>7 DEF Stage, Sides
  <2>2. n # 0
    <3>1. exhausted' = IF n < ChunkSize THEN exhausted \cup {s} ELSE exhausted
      BY DEF ReadChunk
    <3>2. s \notin exhausted'
      <4>1. phase' = CASE TotalSize(buffered') > Limit -> "partition"
                       [] TotalSize(buffered') <= Limit /\ s \in exhausted' -> "build"
                       [] OTHER -> other
        BY DEF ReadChunk
      <4>2. buffered' \in [Sides -> Seq(Row)]
        BY ChunkRead
      <4>3. Len(buffered'["left"]) \in Nat /\ Len(buffered'["right"]) \in Nat
        BY <4>2, Elements DEF Sides
      <4>4. TotalSize(buffered') \in Int /\ Limit \in Int
        BY <4>3, JoinAssumption DEF TotalSize
      <4> DEFINE big == TotalSize(buffered') > Limit
                 fit == TotalSize(buffered') <= Limit
      <4>5. big <=> ~fit
        BY <4>4
      <4>6. phase' = CASE big -> "partition" [] fit /\ s \in exhausted' -> "build"
                       [] OTHER -> other
        BY <4>1
      <4> HIDE DEF big, fit
      <4> QED
        BY <1>7, <4>5, <4>6 DEF Sides
    <3> HIDE DEF n
    <3> QED
      BY <1>1, <3>1, <3>2
  <2> HIDE DEF n
  <2>3. n \in 0 .. Len(c)
    BY <1>1, <1>2
  <2>4. Len(SubSeq(c, n + 1, Len(c))) = Len(c) - n
    BY <1>1, <2>3, Stretch
  <2>5. child'[s] = SubSeq(c, n + 1, Len(c)) /\ \A t \in Sides \ {s} : child'[t] = child[t]
    BY <1>3 DEF Inv, TypeOK
  <2>6. Len(child'[s]) < Len(child[s]) /\ Len(child'[s]) \in Nat
    BY <1>1, <1>2, <2>2, <2>3, <2>4, <2>5
  <2>7. /\ Len(child["left"]) \in Nat /\ Len(child["right"]) \in Nat
        /\ s = "left" \/ s = "right"
    <3>1. child["left"] \in Seq(Row) /\ child["right"] \in Seq(Row)
      BY Strings DEF Inv, TypeOK
    <3> QED
      BY <3>1, Elements DEF Sides
  <2>8. RowsLeft' < RowsLeft
    <3> HIDE DEF c
    <3>1. CASE s = "left"
      <4>1. child'["right"] = child["right"]
        BY <2>5, <3>1 DEF Sides
      <4> QED
        BY <2>6, <2>7, <3>1, <4>1, Added DEF RowsLeft
    <3>2. CASE s = "right"
      <4>1. child'["left"] = child["left"]
        BY <2>5, <3>2 DEF Sides
      <4> QED
        BY <2>6, <2>7, <3>2, <4>1, Added DEF RowsLeft
    <3> QED
      BY <2>7, <3>1, <3>2
  <2> QED
    BY <1>5, <2>1, <2>8
<1> QED
  BY <1>3, <1>6, <1>7

LEMMA StageFalls ==
    ASSUME Inv, BuildInMemory \/ PartitionLeft \/ PartitionRight \/ Drop
    PROVE  Stage' < Stage
<1>1. CASE BuildInMemory
  <2>1. ~dropped /\ phase = "build" /\ phase' = "memory" /\ ~dropped'
    BY <1>1 DEF BuildInMemory, Inv, Phased, Reading
  <2> QED
    BY <2>1 DEF Stage, Sides
<1>2. CASE PartitionLeft
  <2>1. ~dropped /\ phase = "partition" /\ phase' = "partition_right" /\ ~dropped'
    BY <1>2 DEF PartitionLeft, Inv, Phased, Reading
  <2> QED
    BY <2>1 DEF Stage, Sides
<1>3. CASE PartitionRight
  <2>1. ~dropped /\ phase = "partition_right" /\ phase' = "disk" /\ ~dropped'
    BY <1>3 DEF PartitionRight, Inv, Phased, Reading
  <2> QED
    BY <2>1 DEF Stage, Sides
<1>4. CASE Drop
  <2>1. ~dropped /\ phase \in {"memory", "disk"} /\ dropped'
    BY <1>4 DEF Drop, Calling
  <2> QED
    BY <2>1 DEF Stage, Sides
<1> QED
  BY <1>1, <1>2, <1>3, <1>4

LEMMA ProbeChildLowers ==
    ASSUME Inv, ProbeChild PROVE Stage' = Stage /\ RowsLeft' < RowsLeft
<1>1. Stage' = Stage
  BY DEF ProbeChild, Stage
<1>2. /\ child[Probe] # <<>> /\ child' = [child EXCEPT ![Probe] = Tail(@)]
  BY DEF ProbeChild
<1>3. Probe = "left" \/ Probe = "right"
  BY DEF Probe
<1>4. child["left"] \in Seq(Row) /\ child["right"] \in Seq(Row)
  BY Strings DEF Inv, TypeOK
<1>7. Len(child["left"]) \in Nat /\ Len(child["right"]) \in Nat
  BY <1>4, Elements
<1>5. CASE Probe = "left"
  <2>1. child'["left"] = Tail(child["left"]) /\ child'["right"] = child["right"]
    BY <1>2, <1>5, Strings DEF Inv, TypeOK
  <2>2. Len(child'["left"]) = Len(child["left"]) - 1
    BY <1>2, <1>4, <1>5, <2>1, Shorter
  <2>3. Len(child'["left"]) \in Nat /\ Len(child'["left"]) < Len(child["left"])
    BY <1>2, <1>4, <1>5, <2>1, <2>2
  <2> QED
    BY <1>1, <1>7, <2>1, <2>3, Added DEF RowsLeft
<1>6. CASE Probe = "right"
  <2>1. child'["right"] = Tail(child["right"]) /\ child'["left"] = child["left"]
    BY <1>2, <1>6, Strings DEF Inv, TypeOK
  <2>2. Len(child'["right"]) = Len(child["right"]) - 1
    BY <1>2, <1>4, <1>6, <2>1, Shorter
  <2>3. Len(child'["right"]) \in Nat /\ Len(child'["right"]) < Len(child["right"])
    BY <1>2, <1>4, <1>6, <2>1, <2>2
  <2> QED
    BY <1>1, <1>7, <2>1, <2>3, Added DEF RowsLeft
<1> QED
  BY <1>3, <1>5, <1>6

LEMMA PartitionLowers ==
    ASSUME Inv, JoinPartition \/ SkipPartition
    PROVE  Stage' = Stage /\ RowsLeft' = RowsLeft /\ PartitionsLeft' < PartitionsLeft
<1>1. /\ current_partition' = current_partition + 1
      /\ UNCHANGED <<reading, phase, dropped>>
  BY DEF JoinPartition, SkipPartition, AtNextPartition
<1>2. current_partition \in Nat /\ NumPartitions \in Nat
  BY PartitionNumbers DEF Inv
<1> QED
  BY <1>1, <1>2 DEF reading, Stage, RowsLeft, PartitionsLeft

LEMMA RunLowers ==
    ASSUME Inv, FreeProbeRun
    PROVE  /\ Stage' = Stage /\ RowsLeft' = RowsLeft /\ PartitionsLeft' = PartitionsLeft
           /\ RunOpen' < RunOpen
BY DEF FreeProbeRun, reading, Stage, RowsLeft, PartitionsLeft, RunOpen

LEMMA RowLowers ==
    ASSUME Inv, ProbeBuffered
    PROVE  /\ Stage' = Stage /\ RowsLeft' = RowsLeft /\ PartitionsLeft' = PartitionsLeft
           /\ RunOpen' = RunOpen /\ Len(probe_rest') < Len(probe_rest)
<1>1. /\ probe_rest # <<>> /\ probe_rest' = Tail(probe_rest)
      /\ UNCHANGED <<reading, phase, dropped, runs, probe_run>>
  BY DEF ProbeBuffered
<1>2. Len(probe_rest') = Len(probe_rest) - 1 /\ Len(probe_rest) \in Nat
  BY <1>1, Shorter DEF Inv, TypeOK
<1> QED
  BY <1>1, <1>2 DEF reading, runs, Stage, RowsLeft, PartitionsLeft, RunOpen

LEMMA MatchLowers ==
    ASSUME Inv, NextMatch
    PROVE  /\ Stage' = Stage /\ RowsLeft' = RowsLeft /\ PartitionsLeft' = PartitionsLeft
           /\ RunOpen' = RunOpen /\ probe_rest' = probe_rest /\ Len(matches') < Len(matches)
<1>1. /\ matches # <<>> /\ matches' = Tail(matches)
      /\ UNCHANGED <<reading, phase, dropped, runs, probe_run, probe_rest>>
  BY DEF NextMatch
<1>2. Len(matches') = Len(matches) - 1 /\ Len(matches) \in Nat
  BY <1>1, Shorter DEF Inv, TypeOK
<1> QED
  BY <1>1, <1>2 DEF reading, runs, Stage, RowsLeft, PartitionsLeft, RunOpen

LEMMA StepLowers == Inv /\ Inv' /\ Next /\ ~NextNone => <<Work', Work>> \in Order
<1> SUFFICES ASSUME Inv, Inv', Next, ~NextNone PROVE <<Work', Work>> \in Order
  OBVIOUS
<1>1. Work \in [1 .. 6 -> Nat] /\ Work' \in [1 .. 6 -> Nat]
  BY WorkNat, WorkNatNext DEF WorkIsNat
<1>2. \E j \in 1 .. 6 : Work'[j] < Work[j] /\ \A i \in 1 .. (j - 1) : Work'[i] = Work[i]
  <2>1. CASE Stage' < Stage
    <3>1. Work'[1] < Work[1] /\ 1 .. (1 - 1) = {}
      BY <2>1 DEF Work
    <3> QED
      BY <3>1
  <2>2. CASE Stage' = Stage /\ RowsLeft' < RowsLeft
    <3>1. Work'[2] < Work[2] /\ \A i \in 1 .. (2 - 1) : Work'[i] = Work[i]
      BY <2>2 DEF Work
    <3> QED
      BY <3>1
  <2>3. CASE JoinPartition \/ SkipPartition
    <3>1. Work'[3] < Work[3] /\ \A i \in 1 .. (3 - 1) : Work'[i] = Work[i]
      BY <2>3, PartitionLowers DEF Work
    <3> QED
      BY <3>1
  <2>4. CASE FreeProbeRun
    <3>1. Work'[4] < Work[4] /\ \A i \in 1 .. (4 - 1) : Work'[i] = Work[i]
      BY <2>4, RunLowers DEF Work
    <3> QED
      BY <3>1
  <2>5. CASE ProbeBuffered
    <3>1. Work'[5] < Work[5] /\ \A i \in 1 .. (5 - 1) : Work'[i] = Work[i]
      BY <2>5, RowLowers DEF Work
    <3> QED
      BY <3>1
  <2>6. CASE NextMatch
    <3>1. Work'[6] < Work[6] /\ \A i \in 1 .. (6 - 1) : Work'[i] = Work[i]
      BY <2>6, MatchLowers DEF Work
    <3> QED
      BY <3>1
  <2>7. CASE ReadChunk("left", "right") \/ ReadChunk("right", "left")
    BY <2>1, <2>2, <2>7, ChunkLowers, Strings
  <2> QED
    BY <2>1, <2>2, <2>3, <2>4, <2>5, <2>6, <2>7, StageFalls, ProbeChildLowers DEF Next
<1> QED
  BY <1>1, <1>2, LowerAt

(* Every step of new and every turn of the loop of next() that does not    *)
(* return None leaves less to do, in an order in which nothing falls for   *)
(* ever: a chunk takes rows or shows the end of its input, a partition's   *)
(* probe rows are paid for by the partition, a row's matches by the row.   *)
TurnsLeadOn == [][NextNone \/ <<Work', Work>> \in Order]_vars

THEOREM LoopEnds == Spec => TurnsLeadOn
<1>1. Spec => []Inv
  BY InitInv, NextInv, PTL DEF Spec
<1>2. Inv /\ Inv' /\ [Next]_vars => [NextNone \/ <<Work', Work>> \in Order]_vars
  BY StepLowers
<1> QED
  BY <1>1, <1>2, PTL DEF Spec, TurnsLeadOn

-----------------------------------------------------------------------------
(* The choices of the steps: rows in the order of their input, matches in  *)
(* the order of their chain.                                               *)
LEMMA Least ==
    ASSUME NEW T, T \subseteq Nat, T # {} PROVE \E x \in T : \A y \in T : ~(y < x)
<1> DEFINE Lt == OpToRel(<, Nat)
<1>1. \A x, y \in Nat : y < x => <<y, x>> \in Lt
  BY DEF OpToRel
<1>2. IsWellFoundedOn(Lt, Nat)
  BY NatLessThanWellFounded
<1> HIDE DEF Lt
<1>3. PICK x \in T : \A y \in T : <<y, x>> \notin Lt
  BY <1>2, WFMin
<1> QED
  BY <1>1, <1>3

(* A finite set whose elements have different places can be listed in the  *)
(* order of the places: take the last one out and list the others.         *)
Lists(P, w) == { s \in [1 .. Cardinality(P) -> P] :
                   \A i, j \in 1 .. Cardinality(P) : i < j => w[s[i]] < w[s[j]] }

LEMMA LastOf ==
    ASSUME NEW m \in Nat, NEW P, P # {}, NEW w, \A a \in P : w[a] \in 0 .. m
    PROVE  \E r \in P : \A q \in P : w[q] <= w[r]
<1> DEFINE T == { m - w[a] : a \in P }
<1>1. T \subseteq Nat /\ T # {}
  OBVIOUS
<1> HIDE DEF T
<1>2. PICK x \in T : \A y \in T : ~(y < x)
  BY <1>1, Least
<1> USE DEF T
<1>3. PICK r \in P : x = m - w[r]
  BY <1>2
<1>4. ASSUME NEW q \in P PROVE w[q] <= w[r]
  <2>1. m - w[q] \in T
    OBVIOUS
  <2> HIDE DEF T
  <2>2. ~(m - w[q] < m - w[r])
    BY <1>2, <1>3, <2>1
  <2>3. w[q] \in Int /\ w[r] \in Int
    BY <1>4
  <2> QED
    BY <2>2, <2>3
<1> QED
  BY <1>4

LEMMA Extended ==
    ASSUME NEW P, IsFiniteSet(P), NEW w, NEW r \in P,
           \A a \in P : w[a] \in Nat, \A a, b \in P : w[a] = w[b] => a = b,
           \A q \in P : w[q] <= w[r], NEW s \in Lists(P \ {r}, w)
    PROVE  Lists(P, w) # {}
<1> DEFINE n == Cardinality(P)
           f == [i \in 1 .. n |-> IF i < n THEN s[i] ELSE r]
<1>1. n \in Nat /\ Cardinality(P \ {r}) = n - 1 /\ Cardinality(P \ {r}) \in Nat
  BY FS_RemoveElement, FS_CardinalityType
<1> HIDE DEF n
<1>2. /\ \A i \in 1 .. n - 1 : s[i] \in P \ {r}
      /\ \A i, j \in 1 .. n - 1 : i < j => w[s[i]] < w[s[j]]
  BY <1>1 DEF Lists
<1>3. n \in 1 .. n
  BY <1>1
<1>4. \A i \in 1 .. n : f[i] = (IF i < n THEN s[i] ELSE r) /\ (i < n \/ i = n)
  BY <1>1
<1>5. f \in [1 .. n -> P]
  <2>1. \A i \in 1 .. n : i < n => s[i] \in P
    BY <1>1, <1>2
  <2> QED
    BY <2>1
<1> HIDE DEF f
<1>6. ASSUME NEW i \in 1 .. n, NEW j \in 1 .. n, i < j PROVE w[f[i]] < w[f[j]]
  <2>1. i \in 1 .. n - 1 /\ f[i] = s[i]
    BY <1>1, <1>4, <1>6
  <2>2. CASE j < n
    <3>1. j \in 1 .. n - 1 /\ f[j] = s[j]
      BY <1>1, <1>4, <2>2
    <3> QED
      BY <1>2, <1>6, <2>1, <3>1
  <2>3. CASE j = n
    <3>1. f[j] = r
      BY <1>1, <1>4, <2>3
    <3>2. s[i] \in P /\ s[i] # r
      BY <1>2, <2>1
    <3>3. w[s[i]] <= w[r] /\ w[s[i]] # w[r] /\ w[s[i]] \in Nat /\ w[r] \in Nat
      BY <3>2
    <3> QED
      BY <2>1, <3>1, <3>3
  <2> QED
    BY <1>4, <2>2, <2>3
<1>7. f \in Lists(P, w)
  BY <1>5, <1>6 DEF Lists, n
<1> QED
  BY <1>7

LEMMA CanBeListed ==
    ASSUME NEW m \in Nat, NEW Q, IsFiniteSet(Q), NEW w,
           \A a \in Q : w[a] \in 0 .. m, \A a, b \in Q : w[a] = w[b] => a = b
    PROVE  Lists(Q, w) # {}
<1> DEFINE T == { n \in Nat : \E P \in SUBSET Q : Cardinality(P) = n /\ Lists(P, w) = {} }
<1>1. ASSUME T # {} PROVE FALSE
  <2>1. T \subseteq Nat
    OBVIOUS
  <2> HIDE DEF T
  <2>2. PICK n \in T : \A y \in T : ~(y < n)
    BY <1>1, <2>1, Least
  <2> USE DEF T
  <2>3. PICK P \in SUBSET Q : Cardinality(P) = n /\ Lists(P, w) = {}
    BY <2>2
  <2>4. IsFiniteSet(P) /\ n \in Nat
    BY <2>3, FS_Subset
  <2>5. CASE P = {}
    <3>1. n = 0
      BY <2>3, <2>5, FS_EmptySet
    <3> DEFINE f == [i \in 1 .. n |-> 0]
    <3>2. f \in [1 .. n -> P]
      BY <3>1
    <3> HIDE DEF f
    <3>3. f \in Lists(P, w)
      BY <2>3, <3>1, <3>2 DEF Lists
    <3> QED
      BY <2>3, <3>3
  <2>6. CASE P # {}
    <3>1. PICK r \in P : \A q \in P : w[q] <= w[r]
      BY <2>6, LastOf
    <3>2. IsFiniteSet(P \ {r}) /\ Cardinality(P \ {r}) = n - 1
      BY <2>3, <2>4, FS_RemoveElement
    <3>3. n - 1 \in Nat
      BY <3>2, FS_CardinalityType
    <3>4. n - 1 \notin T
      <4>1. n - 1 < n
        BY <2>4
      <4> QED
        BY <2>2, <4>1
    <3>5. P \ {r} \in SUBSET Q
      OBVIOUS
    <3>6. Lists(P \ {r}, w) # {}
      BY <3>2, <3>3, <3>4, <3>5
    <3>7. PICK s : s \in Lists(P \ {r}, w)
      BY <3>6
    <3>8. /\ \A a \in P : w[a] \in Nat
          /\ \A a, b \in P : w[a] = w[b] => a = b
      OBVIOUS
    <3> QED
      BY <2>3, <2>4, <3>1, <3>7, <3>8, Extended
  <2> QED
    BY <2>5, <2>6
<1>2. Cardinality(Q) \in Nat
  BY FS_CardinalityType
<1> QED
  BY <1>1, <1>2

(* A row of an input is known by its place in it.                          *)
ById(rows) == \A a, b \in rows : a.id = b.id => a = b
Unread(s)  == ToSet(child[s]) \cup ToSet(buffered[s])

LEMMA InOrderOf ==
    ASSUME NEW rows, rows \subseteq Row, IsFiniteSet(rows), ById(rows)
    PROVE  InOrder(rows) # {}
<1> DEFINE w == [r \in rows |-> r.id]
<1>1. MaxRows \in Nat
  BY JoinAssumption
<1>2. \A a \in rows : w[a] = a.id /\ w[a] \in 0 .. MaxRows
  BY <1>1 DEF Row
<1>3. \A a, b \in rows : w[a] = w[b] => a = b
  BY <1>2 DEF ById
<1> HIDE DEF w
<1>4. PICK s : s \in Lists(rows, w)
  BY <1>1, <1>2, <1>3, CanBeListed
<1>5. s \in [1 .. Cardinality(rows) -> rows] /\ DOMAIN s = 1 .. Cardinality(rows)
  BY <1>4 DEF Lists
<1>6. \A i, j \in DOMAIN s : i < j => s[i].id < s[j].id
  <2> SUFFICES ASSUME NEW i \in DOMAIN s, NEW j \in DOMAIN s, i < j PROVE s[i].id < s[j].id
    OBVIOUS
  <2>1. w[s[i]] < w[s[j]] /\ s[i] \in rows /\ s[j] \in rows
    BY <1>4, <1>5 DEF Lists
  <2> QED
    BY <1>2, <2>1
<1> QED
  BY <1>5, <1>6 DEF InOrder

LEMMA ChainOf == ASSUME TypeOK, NEW r \in Row PROVE Chain(r) # {}
<1> DEFINE n == Len(build_side)
           P == Matching(r)
           w == [i \in P |-> n - i]
<1>1. n \in Nat /\ DOMAIN build_side = 1 .. n
  BY Elements DEF TypeOK
<1>2. P \subseteq 1 .. n /\ IsFiniteSet(1 .. n)
  BY <1>1, FS_Interval DEF Matching
<1>3. IsFiniteSet(P)
  BY <1>2, FS_Subset
<1> HIDE DEF n, P
<1>4. \A a \in P : w[a] = n - a /\ a \in 1 .. n /\ w[a] \in 0 .. n
  BY <1>1, <1>2
<1>5. \A a, b \in P : w[a] = w[b] => a = b
  BY <1>1, <1>4
<1> HIDE DEF w
<1>6. PICK s : s \in Lists(P, w)
  BY <1>1, <1>3, <1>4, <1>5, CanBeListed
<1>7. s \in [1 .. Cardinality(P) -> P] /\ DOMAIN s = 1 .. Cardinality(P)
  BY <1>6 DEF Lists
<1>8. \A i, j \in DOMAIN s : i < j => s[i] > s[j]
  <2> SUFFICES ASSUME NEW i \in DOMAIN s, NEW j \in DOMAIN s, i < j PROVE s[i] > s[j]
    OBVIOUS
  <2>1. w[s[i]] < w[s[j]] /\ s[i] \in P /\ s[j] \in P
    BY <1>6, <1>7 DEF Lists
  <2>2. n - s[i] < n - s[j] /\ s[i] \in 1 .. n /\ s[j] \in 1 .. n
    BY <1>4, <2>1
  <2> QED
    BY <1>1, <2>2
<1> QED
  BY <1>7, <1>8 DEF Chain, P

(* No step adds to the rows a side has still to bring.                     *)
LEMMA OnlyFewer ==
    ASSUME Inv, [Next]_vars, NEW s \in Sides PROVE Unread(s)' \subseteq Unread(s)
<1>1. CASE ReadChunk("left", "right")
  <2>1. /\ ToSet(child'["left"]) \cup ToSet(buffered'["left"])
           = ToSet(child["left"]) \cup ToSet(buffered["left"])
        /\ child'["right"] = child["right"] /\ buffered'["right"] = buffered["right"]
    BY <1>1, Strings, ChunkRead
  <2> QED
    BY <2>1, Strings DEF Unread
<1>2. CASE ReadChunk("right", "left")
  <2>1. /\ ToSet(child'["right"]) \cup ToSet(buffered'["right"])
           = ToSet(child["right"]) \cup ToSet(buffered["right"])
        /\ child'["left"] = child["left"] /\ buffered'["left"] = buffered["left"]
    BY <1>2, Strings, ChunkRead
  <2> QED
    BY <2>1, Strings DEF Unread
<1>3. CASE BuildInMemory
  <2>1. /\ child'["left"] = child["left"]
        /\ ToSet(child'["right"]) \subseteq ToSet(child["right"])
    BY <1>3, Built
  <2>2. ToSet(buffered'[s]) = {}
    BY <1>3, Empty DEF BuildInMemory
  <2> QED
    BY <2>1, <2>2, Strings DEF Unread
<1>4. CASE PartitionLeft
  <2>1. PICK rows \in ScanFiltered(child["right"], dynamic_filter') :
           child' = [left |-> <<>>, right |-> rows]
    BY <1>4 DEF PartitionLeft
  <2>2. child["right"] \in Seq(Row)
    BY Strings DEF Inv, TypeOK
  <2>3. ToSet(rows) \subseteq ToSet(child["right"])
    BY <2>2, ScanKeeps
  <2>4. /\ ToSet(child'["left"]) = {} /\ ToSet(child'["right"]) \subseteq ToSet(child["right"])
    BY <2>1, <2>3, Empty
  <2>5. ToSet(buffered'["left"]) = {} /\ buffered'["right"] = buffered["right"]
    BY <1>4, Strings, Empty DEF PartitionLeft, Inv, TypeOK
  <2> QED
    BY <2>4, <2>5, Strings DEF Unread
<1>5. CASE PartitionRight
  <2>1. /\ ToSet(child'["right"]) = {} /\ child'["left"] = child["left"]
        /\ ToSet(buffered'["right"]) = {} /\ buffered'["left"] = buffered["left"]
    BY <1>5, Strings, Empty DEF PartitionRight, Inv, TypeOK
  <2> QED
    BY <2>1, Strings DEF Unread
<1>6. CASE ProbeChild
  <2>1. ToSet(child'[s]) \subseteq ToSet(child[s]) /\ buffered' = buffered
    BY <1>6, ChildProbe
  <2> QED
    BY <2>1 DEF Unread
<1>7. CASE UNCHANGED reading
  BY <1>7 DEF reading, Unread
<1> QED
  BY <1>1, <1>2, <1>3, <1>4, <1>5, <1>6, <1>7
  DEF Next, NextMatch, ProbeBuffered, FreeProbeRun, JoinPartition, SkipPartition, NextNone, Drop,
      vars

KnownById == \A s \in Sides : ById(Unread(s))

LEMMA InitKnown == Init => KnownById
<1> SUFFICES ASSUME Init, NEW s \in Sides PROVE ById(Unread(s))
  BY DEF KnownById
<1>1. PICK keys \in [Sides -> BoundedSeq(Keys, MaxRows)] :
         child = [t \in Sides |-> [i \in DOMAIN keys[t] |-> [id |-> i, key |-> keys[t][i]]]]
  BY DEF Init
<1>2. child[s] = [i \in DOMAIN keys[s] |-> [id |-> i, key |-> keys[s][i]]]
  BY <1>1
<1>3. ToSet(buffered[s]) = {}
  BY Empty DEF Init
<1>4. \A a \in ToSet(child[s]) : \E i \in DOMAIN keys[s] : a = [id |-> i, key |-> keys[s][i]]
  BY <1>2 DEF ToSet
<1> QED
  BY <1>3, <1>4 DEF ById, Unread

LEMMA NextKnown == Inv /\ KnownById /\ [Next]_vars => KnownById'
<1> SUFFICES ASSUME Inv, KnownById, [Next]_vars, NEW s \in Sides PROVE ById(Unread(s)')
  BY DEF KnownById, ById
<1>1. Unread(s)' \subseteq Unread(s)
  BY OnlyFewer
<1> QED
  BY <1>1 DEF KnownById, ById

(* Every loop of new finds what it chooses: the rows of a partition and    *)
(* what a filter leaves of the right input in the order they came in, the  *)
(* chain of a probe row; and current_probe_row is there for every match    *)
(* (664, 667).                                                             *)
CanTurn ==
    /\ phase \in Reading =>
          /\ \A s \in Sides : PartitionInput(s) # {}
          /\ \A bits : ScanFiltered(child["right"], bits) # {}
    /\ \A r \in Row : Chain(r) # {}
    /\ matches # <<>> => current_probe_row # {}

LEMMA Goes == Inv /\ KnownById => CanTurn
<1> SUFFICES ASSUME Inv, KnownById PROVE CanTurn
  OBVIOUS
<1>1. ASSUME NEW s \in Sides PROVE PartitionInput(s) # {}
  <2>1. child[s] \in Seq(Row) /\ buffered[s] \in Seq(Row)
    BY DEF Inv, TypeOK
  <2>2. Unread(s) \subseteq Row /\ IsFiniteSet(Unread(s))
    BY <2>1, Elements, FiniteElements, FS_Union DEF Unread
  <2>3. ASSUME NEW p \in Partition PROVE InOrder(InBucket(s, p)) # {}
    <3>1. InBucket(s, p) \subseteq Unread(s)
      BY DEF InBucket, Unread
    <3>2. IsFiniteSet(InBucket(s, p)) /\ InBucket(s, p) \subseteq Row
      BY <2>2, <3>1, FS_Subset
    <3>3. ById(InBucket(s, p))
      BY <3>1 DEF KnownById, ById
    <3> QED
      BY <3>2, <3>3, InOrderOf
  <2> DEFINE ps == [p \in Partition |-> CHOOSE q : q \in InOrder(InBucket(s, p))]
  <2>4. \A p \in Partition : ps[p] \in InOrder(InBucket(s, p))
    BY <2>3
  <2>5. ps \in [Partition -> UNION { InOrder(InBucket(s, p)) : p \in Partition }]
    BY <2>4
  <2> HIDE DEF ps
  <2> QED
    BY <2>4, <2>5 DEF PartitionInput
<1>2. ASSUME NEW bits PROVE ScanFiltered(child["right"], bits) # {}
  <2> DEFINE rows == child["right"]
             P == Passing(rows, 0, bits)
  <2>1. rows \in Seq(Row)
    BY Strings DEF Inv, TypeOK
  <2>2. ToSet(rows) \subseteq Row /\ IsFiniteSet(ToSet(rows)) /\ 0 \in 0 .. Len(rows)
    BY <2>1, Elements, FiniteElements
  <2>3. P \subseteq ToSet(rows)
    BY DEF Passing, ToSet
  <2>4. ToSet(rows) \subseteq Unread("right") /\ ById(Unread("right"))
    BY Strings DEF Unread, KnownById
  <2> HIDE DEF rows, P
  <2>5. IsFiniteSet(P) /\ P \subseteq Row /\ ById(P)
    BY <2>2, <2>3, <2>4, FS_Subset DEF ById
  <2>6. InOrder(P) # {}
    BY <2>5, InOrderOf
  <2> QED
    BY <2>2, <2>6 DEF ScanFiltered, rows, P
<1>3. \A r \in Row : Chain(r) # {}
  BY ChainOf DEF Inv
<1>4. matches # <<>> => current_probe_row # {}
  BY DEF Inv, Matched
<1> QED
  BY <1>1, <1>2, <1>3, <1>4 DEF CanTurn

(* The hash join is never stuck and does not panic on its probe row.       *)
THEOREM LoopGoesOn == Spec => []CanTurn
<1>1. Spec => []Inv
  BY InitInv, NextInv, PTL DEF Spec
<1>2. Spec => []KnownById
  BY <1>1, InitKnown, NextKnown, PTL DEF Spec
<1> QED
  BY <1>1, <1>2, Goes, PTL
=============================================================================
