-------------------------- MODULE RunReaderProofs --------------------------
(***************************************************************************)
(* Proofs about RunReader: a run of any rows, blocks, flushes and gaps is  *)
(* read back as it was written, from its own blocks, each once; the reader *)
(* always has a next step, and no read or row is ever cut short.           *)
(***************************************************************************)
EXTENDS RunReader, FiniteSetTheorems, WellFoundedInduction, TLAPS

(* Sequences as the proofs use them.                                       *)
LEMMA Elements ==
    ASSUME NEW S, NEW s \in Seq(S)
    PROVE  /\ ToSet(s) = { s[i] : i \in 1 .. Len(s) } /\ ToSet(s) \subseteq S
           /\ DOMAIN s = 1 .. Len(s) /\ Len(s) \in Nat
           /\ s = <<>> <=> Len(s) = 0
           /\ s = <<>> <=> ToSet(s) = {}
<1>1. DOMAIN s = 1 .. Len(s) /\ Len(s) \in Nat /\ (s = <<>> <=> Len(s) = 0)
  OBVIOUS
<1>2. ToSet(s) = { s[i] : i \in 1 .. Len(s) } /\ ToSet(s) \subseteq S
  BY <1>1 DEF ToSet
<1>3. s # <<>> => s[1] \in ToSet(s)
  BY <1>1, <1>2
<1>4. s = <<>> => ToSet(s) = {}
  BY <1>1, <1>2
<1> QED
  BY <1>1, <1>2, <1>3, <1>4

LEMMA Empty == ToSet(<<>>) = {} /\ Len(<<>>) = 0 /\ \A S : <<>> \in Seq(S)
BY DEF ToSet

LEMMA Joined ==
    ASSUME NEW S, NEW s \in Seq(S), NEW t \in Seq(S)
    PROVE  /\ s \o t \in Seq(S) /\ ToSet(s \o t) = ToSet(s) \cup ToSet(t)
<1> DEFINE u == s \o t
<1>1. /\ u \in Seq(S) /\ Len(u) = Len(s) + Len(t) /\ Len(s) \in Nat /\ Len(t) \in Nat
      /\ \A i \in 1 .. Len(s) : u[i] = s[i]
  OBVIOUS
<1>2. \A i \in Len(s) + 1 .. Len(u) : i - Len(s) \in 1 .. Len(t) /\ u[i] = t[i - Len(s)]
  BY <1>1
<1>3. \A i \in 1 .. Len(t) : Len(s) + i \in 1 .. Len(u) /\ u[Len(s) + i] = t[i]
  BY <1>1
<1>4. /\ ToSet(u) = { u[i] : i \in 1 .. Len(u) } /\ ToSet(s) = { s[i] : i \in 1 .. Len(s) }
      /\ ToSet(t) = { t[i] : i \in 1 .. Len(t) }
  BY <1>1, Elements
<1>5. /\ \A i \in 1 .. Len(s) : i \in 1 .. Len(u)
      /\ \A i \in 1 .. Len(u) : i \in 1 .. Len(s) \/ i \in Len(s) + 1 .. Len(u)
  BY <1>1
<1> HIDE DEF u
<1>6. ToSet(u) = ToSet(s) \cup ToSet(t)
  BY <1>1, <1>2, <1>3, <1>4, <1>5
<1> QED
  BY <1>1, <1>6 DEF u

LEMMA Concatenated ==
    ASSUME NEW S, NEW s \in Seq(S), NEW t \in Seq(S)
    PROVE  /\ s \o t \in Seq(S) /\ Len(s \o t) = Len(s) + Len(t)
           /\ Len(s) \in Nat /\ Len(t) \in Nat
           /\ \A i \in 1 .. Len(s) : (s \o t)[i] = s[i]
           /\ \A i \in Len(s) + 1 .. Len(s) + Len(t) :
                 i - Len(s) \in 1 .. Len(t) /\ (s \o t)[i] = t[i - Len(s)]
OBVIOUS

LEMMA SameSequence ==
    ASSUME NEW S, NEW s \in Seq(S), NEW t \in Seq(S), Len(s) = Len(t),
           \A i \in 1 .. Len(s) : s[i] = t[i]
    PROVE  s = t
OBVIOUS

-----------------------------------------------------------------------------

(* A list of blocks that holds the rows from + 1 .. to in order.           *)
Linked(bs, from, to) ==
    /\ from <= to
    /\ Len(bs) = 0 => from = to
    /\ Len(bs) > 0 => bs[1].first = from /\ bs[Len(bs)].first + bs[Len(bs)].count = to
    /\ \A i \in 1 .. Len(bs) :
          bs[i].count >= 1 /\ from <= bs[i].first /\ bs[i].first + bs[i].count <= to
    /\ \A i \in 1 .. Len(bs) - 1 : bs[i + 1].first = bs[i].first + bs[i].count

Stored == [i \in 1 .. Len(block_ids) |-> disk[block_ids[i]]]

(* The ids of a run increase, below those still to be given.               *)
IdsIncrease ==
    /\ \A i \in 1 .. Len(block_ids) : block_ids[i] < next_anon_block_id
    /\ \A i, j \in 1 .. Len(block_ids) : i < j => block_ids[i] < block_ids[j]

(* What is stored, pending and in the current block are the rows written.  *)
Packed ==
    /\ \E m \in Nat : Linked(Stored, 0, m) /\ Linked(pending, m, current_block.first)
    /\ written = current_block.first + current_block.count
    /\ current_block.count <= current_offset
    /\ current_block.count = 0 => current_offset = 0 /\ pending = <<>>

Window ==
    /\ prefetched_count = Len(read) /\ prefetched_start_idx + Len(read) <= Len(block_ids)
    /\ \A k \in 1 .. Len(read) : read[k] = block_ids[prefetched_start_idx + k]

(* Where the reader is: behind the rows it has returned.                   *)
Positioned ==
    /\ ~opened => /\ emitted = 0 /\ out = {} /\ ~done /\ read = <<>> /\ ~exhausted
                  /\ current_block_idx = 0 /\ current_row_idx = 0 /\ prefetched_start_idx = 0
    /\ opened => current_block.count = 0
    /\ opened /\ exhausted => emitted = written
    /\ opened /\ ~exhausted =>
          /\ current_block_idx < Len(block_ids) /\ prefetched_start_idx <= current_block_idx
          /\ current_block_idx < prefetched_start_idx + prefetched_count
          /\ current_block_rows = Decoded(Stored[current_block_idx + 1])
          /\ current_row_idx < Stored[current_block_idx + 1].count
          /\ emitted = Stored[current_block_idx + 1].first + current_row_idx
    /\ done => emitted = written

Inv == TypeOK /\ IdsIncrease /\ Packed /\ Window /\ Positioned

-----------------------------------------------------------------------------
(* Induction over the naturals, for a set.                                 *)
LEMMA Least ==
    ASSUME NEW T, T \subseteq Nat, T # {} PROVE \E x \in T : \A y \in T : ~(y < x)
<1> DEFINE Less == { p \in Nat \X Nat : p[1] < p[2] }
<1>1. OpToRel(<, Nat) = Less
  BY DEF OpToRel
<1>2. IsWellFoundedOn(Less, Nat)
  BY <1>1, NatLessThanWellFounded
<1>3. \A x, y \in Nat : y < x => <<y, x>> \in Less
  OBVIOUS
<1> HIDE DEF Less
<1>4. PICK x \in T : \A y \in T : <<y, x>> \notin Less
  BY <1>2, WFMin
<1> QED
  BY <1>3, <1>4

LEMMA Inductive ==
    ASSUME NEW T, T \subseteq Nat, 0 \in T, \A n \in Nat : n \in T => n + 1 \in T
    PROVE  T = Nat
<1> SUFFICES ASSUME Nat \ T # {} PROVE FALSE
  OBVIOUS
<1>1. PICK x \in Nat \ T : \A y \in Nat \ T : ~(y < x)
  BY Least
<1>2. x - 1 \in Nat /\ x - 1 < x /\ (x - 1) + 1 = x
  BY <1>1
<1>3. x - 1 \in T
  BY <1>1, <1>2
<1> QED
  BY <1>1, <1>2, <1>3

-----------------------------------------------------------------------------
LEMMA Numbers == \A b \in Block : b.first \in Nat /\ b.count \in Nat /\ b.count < CountMod
BY ReaderAssumption DEF Block

LEMMA LinkedAppend ==
    ASSUME NEW bs \in Seq(Block), NEW a \in Nat, NEW b \in Block, Linked(bs, a, b.first),
           b.count >= 1
    PROVE  Append(bs, b) \in Seq(Block) /\ Linked(Append(bs, b), a, b.first + b.count)
<1> DEFINE t == Append(bs, b)
           n == Len(bs)
<1>1. /\ t \in Seq(Block) /\ Len(t) = n + 1 /\ n \in Nat /\ t[n + 1] = b
      /\ \A i \in 1 .. n : t[i] = bs[i] /\ bs[i] \in Block
  OBVIOUS
<1>2. b.first \in Nat /\ b.count \in Nat
  BY Numbers
<1>3. \A i \in 1 .. n : bs[i].first \in Nat /\ bs[i].count \in Nat
  BY <1>1, Numbers
<1> HIDE DEF t
<1>4. a <= b.first + b.count /\ Len(t) > 0
  BY <1>1, <1>2 DEF Linked
<1>5. t[1].first = a
  <2>1. CASE n = 0
    BY <1>1, <2>1 DEF Linked
  <2>2. CASE n > 0
    BY <1>1, <2>2 DEF Linked
  <2> QED
    BY <1>1, <2>1, <2>2
<1>6. t[Len(t)].first + t[Len(t)].count = b.first + b.count
  BY <1>1
<1>7. ASSUME NEW i \in 1 .. Len(t)
      PROVE  t[i].count >= 1 /\ a <= t[i].first /\ t[i].first + t[i].count <= b.first + b.count
  <2>1. CASE i \in 1 .. n
    <3>1. bs[i].count >= 1 /\ a <= bs[i].first /\ bs[i].first + bs[i].count <= b.first
      BY <2>1 DEF Linked
    <3>2. bs[i].first \in Nat /\ bs[i].count \in Nat /\ t[i] = bs[i]
      BY <1>1, <1>3, <2>1
    <3>3. bs[i].first + bs[i].count <= b.first + b.count
      BY <1>2, <3>1, <3>2
    <3> QED
      BY <3>1, <3>2, <3>3, Zenon
  <2>2. CASE i = n + 1
    BY <1>1, <1>2, <2>2 DEF Linked
  <2> QED
    BY <1>1, <2>1, <2>2
<1>8. ASSUME NEW i \in 1 .. Len(t) - 1 PROVE t[i + 1].first = t[i].first + t[i].count
  <2>1. CASE i \in 1 .. n - 1
    <3>1. i \in 1 .. n /\ i + 1 \in 1 .. n
      BY <1>1, <2>1
    <3> QED
      BY <1>1, <2>1, <3>1 DEF Linked
  <2>2. CASE i = n /\ n > 0
    <3>1. bs[n].first + bs[n].count = b.first /\ n \in 1 .. n
      BY <1>1, <2>2 DEF Linked
    <3> QED
      BY <1>1, <2>2, <3>1
  <2> QED
    BY <1>1, <2>1, <2>2
<1>9. Linked(t, a, b.first + b.count)
  BY <1>1, <1>4, <1>5, <1>6, <1>7, <1>8 DEF Linked
<1> QED
  BY <1>1, <1>9 DEF t

LEMMA LinkedJoin ==
    ASSUME NEW x \in Seq(Block), NEW y \in Seq(Block), NEW a \in Nat, NEW b \in Nat, NEW c \in Nat,
           Linked(x, a, b), Linked(y, b, c)
    PROVE  Linked(x \o y, a, c)
<1> DEFINE t == x \o y
           n == Len(x)
           m == Len(y)
<1>1. /\ t \in Seq(Block) /\ Len(t) = n + m /\ n \in Nat /\ m \in Nat
      /\ \A i \in 1 .. n : t[i] = x[i] /\ x[i] \in Block
      /\ \A i \in 1 .. m : y[i] \in Block
  OBVIOUS
<1>2. \A i \in n + 1 .. n + m : i - n \in 1 .. m /\ t[i] = y[i - n]
  BY <1>1
<1> HIDE DEF t
<1>3. /\ \A i \in 1 .. n : x[i].first \in Nat /\ x[i].count \in Nat
      /\ \A i \in 1 .. m : y[i].first \in Nat /\ y[i].count \in Nat
  BY <1>1, Numbers
<1>4. a <= b /\ b <= c
  BY DEF Linked
<1>5. \A i \in 1 .. Len(t) : i \in 1 .. n \/ i \in n + 1 .. n + m
  BY <1>1
<1>6. ASSUME NEW i \in 1 .. Len(t)
      PROVE  t[i].count >= 1 /\ a <= t[i].first /\ t[i].first + t[i].count <= c
  <2>1. CASE i \in 1 .. n
    <3>1. x[i].count >= 1 /\ a <= x[i].first /\ x[i].first + x[i].count <= b
      BY <2>1 DEF Linked
    <3>2. x[i].first \in Nat /\ x[i].count \in Nat /\ t[i] = x[i]
      BY <1>1, <1>3, <2>1
    <3> QED
      BY <1>4, <3>1, <3>2
  <2>2. CASE i \in n + 1 .. n + m
    <3>1. PICK k \in 1 .. m : t[i] = y[k]
      BY <1>2, <2>2
    <3>2. y[k].count >= 1 /\ b <= y[k].first /\ y[k].first + y[k].count <= c
      BY DEF Linked
    <3> QED
      BY <1>3, <1>4, <3>1, <3>2
  <2> QED
    BY <1>5, <2>1, <2>2
<1>7. ASSUME Len(t) = 0 PROVE a = c
  BY <1>1, <1>7 DEF Linked
<1>8. ASSUME Len(t) > 0 PROVE t[1].first = a /\ t[Len(t)].first + t[Len(t)].count = c
  <2>1. t[1].first = a
    <3>1. CASE n > 0
      BY <1>1, <3>1 DEF Linked
    <3>2. CASE n = 0
      <4>1. 1 \in n + 1 .. n + m /\ 1 - n = 1 /\ a = b
        BY <1>1, <1>8, <3>2 DEF Linked
      <4> QED
        BY <1>1, <1>2, <1>8, <3>2, <4>1 DEF Linked
    <3> QED
      BY <1>1, <3>1, <3>2
  <2>2. t[Len(t)].first + t[Len(t)].count = c
    <3>1. CASE m > 0
      <4>1. n + m \in n + 1 .. n + m /\ (n + m) - n = m
        BY <1>1, <3>1
      <4>2. t[n + m] = y[m]
        BY <1>2, <4>1
      <4> QED
        BY <1>1, <3>1, <4>2 DEF Linked
    <3>2. CASE m = 0
      <4>1. b = c /\ Len(t) = n /\ n \in 1 .. n
        BY <1>1, <1>8, <3>2 DEF Linked
      <4> QED
        BY <1>1, <1>8, <4>1 DEF Linked
    <3> QED
      BY <1>1, <3>1, <3>2
  <2> QED
    BY <2>1, <2>2
<1>9. ASSUME NEW i \in 1 .. Len(t) - 1 PROVE t[i + 1].first = t[i].first + t[i].count
  <2>1. CASE i \in 1 .. n - 1
    <3>1. i \in 1 .. n /\ i + 1 \in 1 .. n
      BY <1>1, <2>1
    <3> QED
      BY <1>1, <2>1, <3>1 DEF Linked
  <2>2. CASE i = n /\ n > 0
    <3>1. i + 1 \in n + 1 .. n + m /\ (i + 1) - n = 1 /\ m > 0 /\ i \in 1 .. n
      BY <1>1, <1>9, <2>2
    <3>2. t[i + 1] = y[1] /\ t[i] = x[n]
      BY <1>1, <1>2, <2>2, <3>1
    <3> QED
      BY <1>1, <2>2, <3>1, <3>2 DEF Linked
  <2>3. CASE i \in n + 1 .. n + m - 1
    <3>1. /\ i - n \in 1 .. m - 1 /\ (i + 1) - n = (i - n) + 1
          /\ t[i] = y[i - n] /\ t[i + 1] = y[(i + 1) - n]
      BY <1>1, <1>2, <2>3
    <3> QED
      BY <3>1 DEF Linked
  <2> QED
    BY <1>1, <2>1, <2>2, <2>3
<1>10. Linked(t, a, c)
  BY <1>4, <1>6, <1>7, <1>8, <1>9 DEF Linked
<1> QED
  BY <1>10 DEF t

(* A flush puts its blocks behind those that are stored.                   *)
LEMMA Flushed ==
    ASSUME TypeOK, IdsIncrease, NEW bs \in Seq(Block), Flush(bs)
    PROVE  /\ block_ids' \in Seq(Nat) /\ next_anon_block_id' \in Nat
           /\ disk' \in [ToSet(block_ids') -> Block]
           /\ pending' = <<>> /\ IdsIncrease' /\ Stored' = Stored \o bs
           /\ Stored \in Seq(Block)
           /\ Len(block_ids') >= Len(block_ids)
<1>1. PICK gap \in 0 .. MaxGap :
         /\ next_anon_block_id' = next_anon_block_id + gap + Len(bs)
         /\ block_ids' = block_ids \o [k \in 1 .. Len(bs) |-> next_anon_block_id + gap + k - 1]
         /\ disk' = [id \in DOMAIN disk \cup
                              (next_anon_block_id + gap
                                 .. next_anon_block_id + gap + Len(bs) - 1) |->
                        IF id \in next_anon_block_id + gap
                                    .. next_anon_block_id + gap + Len(bs) - 1
                        THEN bs[id - (next_anon_block_id + gap) + 1] ELSE disk[id]]
         /\ pending' = <<>>
  BY DEF Flush
<1> DEFINE s == next_anon_block_id + gap
           c == Len(bs)
           n == Len(block_ids)
           new == [k \in 1 .. c |-> s + k - 1]
           ids == s .. s + c - 1
<1>2. /\ s \in Nat /\ c \in Nat /\ n \in Nat /\ s >= next_anon_block_id
      /\ block_ids \in Seq(Nat) /\ next_anon_block_id \in Nat /\ MaxGap \in Nat
      /\ disk \in [ToSet(block_ids) -> Block]
  BY ReaderAssumption DEF TypeOK
<1>3. /\ next_anon_block_id' = s + c /\ block_ids' = block_ids \o new
      /\ disk' = [id \in DOMAIN disk \cup ids |-> IF id \in ids THEN bs[id - s + 1] ELSE disk[id]]
  BY <1>1
<1> HIDE DEF s
<1>4. new \in Seq(Nat) /\ Len(new) = c /\ \A k \in 1 .. c : new[k] = s + k - 1
  <2>1. \A k \in 1 .. c : s + k - 1 \in Nat
    BY <1>2
  <2> QED
    BY <1>2, <2>1
<1> HIDE DEF new, c
<1>5. /\ block_ids' \in Seq(Nat) /\ Len(block_ids') = n + c
      /\ \A i \in 1 .. n : block_ids'[i] = block_ids[i]
      /\ \A i \in n + 1 .. n + c : block_ids'[i] = s + (i - n) - 1
  <2>1. /\ block_ids' \in Seq(Nat) /\ Len(block_ids') = n + c
        /\ \A i \in 1 .. n : block_ids'[i] = block_ids[i]
        /\ \A i \in n + 1 .. n + c : i - n \in 1 .. c /\ block_ids'[i] = new[i - n]
    <3>1. block_ids \in Seq(Nat) /\ new \in Seq(Nat)
      BY <1>2, <1>4
    <3>2. LET u == block_ids \o new
          IN  /\ u \in Seq(Nat) /\ Len(u) = Len(block_ids) + Len(new)
              /\ \A i \in 1 .. Len(block_ids) : u[i] = block_ids[i]
              /\ \A i \in Len(block_ids) + 1 .. Len(block_ids) + Len(new) :
                    i - Len(block_ids) \in 1 .. Len(new) /\ u[i] = new[i - Len(block_ids)]
      BY <3>1, Concatenated, Zenon
    <3> QED
      BY <1>3, <1>4, <3>2
  <2> QED
    BY <1>4, <2>1
<1>6. ToSet(block_ids') = ToSet(block_ids) \cup ids
  <2>1. ToSet(block_ids') = ToSet(block_ids) \cup ToSet(new)
    BY <1>2, <1>3, <1>4, Joined
  <2>2. ToSet(new) = { new[k] : k \in 1 .. c }
    BY <1>4, Elements
  <2>3. \A k \in 1 .. c : new[k] \in ids
    BY <1>2, <1>4
  <2>4. \A id \in ids : id - s + 1 \in 1 .. c /\ new[id - s + 1] = id
    BY <1>2, <1>4
  <2>5. ToSet(new) = ids
    BY <2>2, <2>3, <2>4
  <2> QED
    BY <2>1, <2>5
<1>7. \A id \in ids : id - s + 1 \in 1 .. c /\ bs[id - s + 1] \in Block
  BY <1>2 DEF c
<1>8. disk' \in [ToSet(block_ids') -> Block]
  <2>1. DOMAIN disk = ToSet(block_ids) /\ \A id \in ToSet(block_ids) : disk[id] \in Block
    BY <1>2
  <2> HIDE DEF ids
  <2> QED
    BY <1>3, <1>6, <1>7, <2>1
<1>9. IdsIncrease'
  <2>0. \A i \in 1 .. n : block_ids[i] \in Nat
    BY <1>2
  <2>1. \A i \in 1 .. n : block_ids[i] < s
    BY <1>2, <2>0 DEF IdsIncrease
  <2>2. ASSUME NEW i \in 1 .. n + c PROVE block_ids'[i] < s + c
    <3>1. CASE i \in 1 .. n
      <4>1. block_ids'[i] \in Nat /\ block_ids'[i] < s
        BY <1>5, <2>0, <2>1, <3>1
      <4> QED
        BY <1>2, <4>1
    <3>2. CASE i \in n + 1 .. n + c
      BY <1>2, <1>5, <3>2
    <3> QED
      BY <1>2, <3>1, <3>2
  <2>3. ASSUME NEW i \in 1 .. n + c, NEW j \in 1 .. n + c, i < j
        PROVE  block_ids'[i] < block_ids'[j]
    <3>1. CASE j \in 1 .. n
      <4>1. i \in 1 .. n
        BY <1>2, <2>3, <3>1
      <4> QED
        BY <1>5, <2>3, <3>1, <4>1 DEF IdsIncrease
    <3>2. CASE i \in 1 .. n /\ j \in n + 1 .. n + c
      <4>1. /\ block_ids'[i] \in Nat /\ block_ids'[i] < s
            /\ block_ids'[j] = s + (j - n) - 1
        BY <1>5, <2>0, <2>1, <3>2
      <4> QED
        BY <1>2, <3>2, <4>1
    <3>3. CASE i \in n + 1 .. n + c /\ j \in n + 1 .. n + c
      BY <1>2, <1>5, <2>3, <3>3
    <3> QED
      BY <1>2, <2>3, <3>1, <3>2, <3>3
  <2> QED
    BY <1>3, <1>5, <2>2, <2>3 DEF IdsIncrease
<1>10. Stored \in Seq(Block) /\ Len(Stored) = n /\ \A i \in 1 .. n : Stored[i] = disk[block_ids[i]]
  <2>1. \A i \in 1 .. n : block_ids[i] \in ToSet(block_ids)
    BY <1>2, Elements
  <2>2. \A i \in 1 .. n : disk[block_ids[i]] \in Block
    BY <1>2, <2>1
  <2> QED
    BY <1>2, <2>2 DEF Stored
<1>11. Stored' = Stored \o bs
  <2>1. /\ Stored \o bs \in Seq(Block) /\ Len(Stored \o bs) = n + c
        /\ \A i \in 1 .. n : (Stored \o bs)[i] = Stored[i]
        /\ \A i \in n + 1 .. n + c : i - n \in 1 .. c /\ (Stored \o bs)[i] = bs[i - n]
    <3>0. Stored \in Seq(Block) /\ bs \in Seq(Block)
      BY <1>10
    <3>1. LET u == Stored \o bs
          IN  /\ u \in Seq(Block) /\ Len(u) = Len(Stored) + Len(bs)
              /\ \A i \in 1 .. Len(Stored) : u[i] = Stored[i]
              /\ \A i \in Len(Stored) + 1 .. Len(Stored) + Len(bs) :
                    i - Len(Stored) \in 1 .. Len(bs) /\ u[i] = bs[i - Len(Stored)]
      BY <3>0, Concatenated, Zenon
    <3>2. Len(Stored) = n
      BY <1>10
    <3> HIDE DEF n
    <3> QED
      BY <3>1, <3>2 DEF c
  <2>2. \A i \in 1 .. n + c : i \in 1 .. n \/ i \in n + 1 .. n + c
    BY <1>2
  <2>3. ASSUME NEW i \in 1 .. n PROVE disk'[block_ids'[i]] = Stored[i]
    <3>1. block_ids'[i] = block_ids[i] /\ block_ids[i] \in ToSet(block_ids)
      <4>1. ToSet(block_ids) = { block_ids[k] : k \in 1 .. Len(block_ids) }
        BY <1>2, Elements, Zenon
      <4> QED
        BY <1>5, <4>1
    <3>2. block_ids[i] \in Nat /\ block_ids[i] < next_anon_block_id
      BY <1>2 DEF IdsIncrease
    <3>3. block_ids[i] \notin ids /\ block_ids[i] \in DOMAIN disk
      BY <1>2, <3>1, <3>2
    <3> HIDE DEF ids
    <3>4. disk'[block_ids[i]] = disk[block_ids[i]]
      BY <1>3, <3>3
    <3>5. Stored[i] = disk[block_ids[i]]
      BY <1>10
    <3> QED
      BY <3>1, <3>4, <3>5
  <2>4. ASSUME NEW i \in n + 1 .. n + c PROVE disk'[block_ids'[i]] = bs[i - n]
    <3>1. /\ block_ids'[i] = s + (i - n) - 1 /\ block_ids'[i] \in ids
          /\ block_ids'[i] - s + 1 = i - n
      <4>1. block_ids'[i] = s + (i - n) - 1
        BY <1>5, <2>4
      <4>2. i - n \in 1 .. c /\ s \in Nat /\ c \in Nat
        BY <1>2, <2>4
      <4> HIDE DEF n
      <4>3. \A d \in 1 .. c : s + d - 1 \in s .. s + c - 1 /\ (s + d - 1) - s + 1 = d
        BY <4>2
      <4> QED
        BY <4>1, <4>2, <4>3
    <3> HIDE DEF ids
    <3>2. disk'[block_ids'[i]] = bs[block_ids'[i] - s + 1]
      BY <1>3, <3>1
    <3> QED
      BY <3>1, <3>2
  <2>5. /\ Stored' \in Seq(Block) /\ Len(Stored') = n + c
        /\ \A i \in 1 .. n + c : Stored'[i] = disk'[block_ids'[i]]
    <3>1. \A i \in 1 .. n + c : block_ids'[i] \in ToSet(block_ids')
      BY <1>5, Elements
    <3>2. \A i \in 1 .. n + c : disk'[block_ids'[i]] \in Block
      BY <1>8, <3>1
    <3> QED
      BY <1>2, <1>5, <3>2 DEF Stored
  <2>6. \A i \in 1 .. Len(Stored') : Stored'[i] = (Stored \o bs)[i]
    <3> TAKE i \in 1 .. Len(Stored')
    <3>1. CASE i \in 1 .. n
      BY <2>1, <2>3, <2>5, <3>1
    <3>2. CASE i \in n + 1 .. n + c
      BY <2>1, <2>4, <2>5, <3>2
    <3> QED
      BY <2>2, <2>5, <3>1, <3>2
  <2> QED
    BY <2>1, <2>5, <2>6, SameSequence
<1> QED
  BY <1>1, <1>2, <1>3, <1>5, <1>8, <1>9, <1>10, <1>11

-----------------------------------------------------------------------------
(* A block whose rows fit does not wrap its count.                         *)
LEMMA NoWrap == \A a \in Nat : a < CountMod => a % CountMod = a
BY ReaderAssumption

LEMMA DecodedRows ==
    ASSUME NEW b \in Block
    PROVE  /\ Decoded(b) \in Seq(Nat) /\ Len(Decoded(b)) = b.count
           /\ \A k \in 1 .. b.count : Decoded(b)[k] = b.first + k
<1>1. b.first \in Nat /\ b.count \in Nat
  BY Numbers
<1>2. \A k \in 1 .. b.count : b.first + k \in Nat
  BY <1>1
<1> QED
  BY <1>1, <1>2 DEF Decoded

LEMMA LinkedNone == \A a \in Nat : <<>> \in Seq(Block) /\ Linked(<<>>, a, a)
BY DEF Linked

(* When nothing is left in the current block, the run is stored.           *)
LEMMA Complete ==
    ASSUME Inv, current_block.count = 0
    PROVE  /\ Linked(Stored, 0, written) /\ Stored \in Seq(Block)
           /\ Len(Stored) = Len(block_ids) /\ Len(block_ids) \in Nat /\ written \in 0 .. MaxRows
           /\ \A i \in 1 .. Len(block_ids) : Stored[i] = disk[block_ids[i]] /\ Stored[i] \in Block
           /\ written = 0 <=> Len(block_ids) = 0
<1>1. /\ block_ids \in Seq(Nat) /\ disk \in [ToSet(block_ids) -> Block]
      /\ current_block \in Block /\ written \in 0 .. MaxRows
  BY DEF Inv, TypeOK
<1>2. PICK m \in Nat : Linked(Stored, 0, m) /\ Linked(pending, m, current_block.first)
  BY DEF Inv, Packed
<1>3. pending = <<>> /\ written = current_block.first
  BY <1>1, Numbers DEF Inv, Packed
<1>4. m = written
  BY <1>2, <1>3 DEF Linked
<1>5. ToSet(block_ids) = { block_ids[k] : k \in 1 .. Len(block_ids) }
  BY <1>1, Elements, Zenon
<1>6. \A i \in 1 .. Len(block_ids) : disk[block_ids[i]] \in Block
  BY <1>1, <1>5
<1>7. /\ Stored \in Seq(Block) /\ Len(Stored) = Len(block_ids) /\ Len(block_ids) \in Nat
      /\ \A i \in 1 .. Len(block_ids) : Stored[i] = disk[block_ids[i]] /\ Stored[i] \in Block
  BY <1>1, <1>6 DEF Stored
<1>8. Linked(Stored, 0, written)
  BY <1>2, <1>4
<1>9. ASSUME written = 0, Len(block_ids) > 0 PROVE FALSE
  <2>1. 1 \in 1 .. Len(Stored)
    BY <1>7, <1>9
  <2>2. Stored[1].count >= 1 /\ 0 <= Stored[1].first /\ Stored[1].first + Stored[1].count <= written
    BY <1>8, <2>1 DEF Linked
  <2>3. Stored[1].count \in Nat /\ Stored[1].first \in Nat
    BY <1>7, <2>1, Numbers
  <2> QED
    BY <1>9, <2>2, <2>3
<1>10. Len(block_ids) = 0 => written = 0
  BY <1>7, <1>8 DEF Linked
<1> QED
  BY <1>1, <1>7, <1>8, <1>9, <1>10

(* The ids of a prefetch are those of the blocks from its start.           *)
LEMMA Loaded ==
    ASSUME TypeOK, NEW start \in Nat, LoadPrefetchBatch(start), UNCHANGED block_ids
    PROVE  /\ prefetched_start_idx' = start /\ prefetched_count' \in 1 .. Prefetch
           /\ read' \in Seq(Nat) /\ Window'
<1>1. PICK count \in 1 .. Prefetch :
         /\ Consecutive(start, count)
         /\ prefetched_start_idx' = start /\ prefetched_count' = count
         /\ read' = [k \in 1 .. count |-> block_ids[start + 1] + k - 1]
  BY DEF LoadPrefetchBatch
<1>2. /\ start + count <= Len(block_ids) /\ count \in Nat /\ block_ids \in Seq(Nat)
      /\ Len(block_ids) \in Nat
      /\ \A k \in 1 .. count - 1 : block_ids[start + k + 1] = block_ids[start + k] + 1
  BY <1>1, ReaderAssumption DEF Consecutive, TypeOK
<1>3. \A k \in 1 .. count : start + k \in 1 .. Len(block_ids) /\ block_ids[start + k] \in Nat
  BY <1>2
<1> DEFINE T == { k \in Nat : k + 1 <= count => block_ids[start + (k + 1)] = block_ids[start + 1] + k }
<1>4. 0 \in T
  <2>1. 1 <= count => block_ids[start + 1] \in Nat
    BY <1>2, <1>3
  <2> QED
    BY <2>1
<1>5. ASSUME NEW k \in Nat, k \in T PROVE k + 1 \in T
  <2> SUFFICES ASSUME (k + 1) + 1 <= count
               PROVE  block_ids[start + ((k + 1) + 1)] = block_ids[start + 1] + (k + 1)
    OBVIOUS
  <2>1. block_ids[start + (k + 1)] = block_ids[start + 1] + k
    BY <1>2, <1>5
  <2>2. k + 1 \in 1 .. count - 1 /\ start + (k + 1) + 1 = start + ((k + 1) + 1)
    BY <1>2
  <2>3. block_ids[start + ((k + 1) + 1)] = block_ids[start + (k + 1)] + 1
    BY <1>2, <2>2
  <2>4. block_ids[start + 1] \in Nat
    BY <1>2, <1>3
  <2> QED
    BY <2>1, <2>3, <2>4
<1>6. T = Nat
  <2>1. T \subseteq Nat
    OBVIOUS
  <2> HIDE DEF T
  <2> QED
    BY <1>4, <1>5, <2>1, Inductive
<1>7. \A k \in 1 .. count : block_ids[start + k] = block_ids[start + 1] + k - 1
  <2> TAKE k \in 1 .. count
  <2>0. k - 1 \in Nat /\ (k - 1) + 1 = k /\ k <= count
    BY <1>2
  <2>1. k - 1 \in T
    BY <1>6, <2>0
  <2>2. block_ids[start + ((k - 1) + 1)] = block_ids[start + 1] + (k - 1)
    <3>1. (k - 1) + 1 <= count => block_ids[start + ((k - 1) + 1)] = block_ids[start + 1] + (k - 1)
      BY <2>1
    <3> QED
      BY <2>0, <3>1
  <2>3. block_ids[start + 1] \in Nat
    BY <1>2, <1>3
  <2>4. block_ids[start + k] = block_ids[start + 1] + (k - 1)
    BY <2>0, <2>2
  <2> QED
    BY <2>3, <2>4
<1>8. /\ read' \in Seq(Nat) /\ Len(read') = count
      /\ \A k \in 1 .. count : read'[k] = block_ids[start + k]
  <2>1. read' = [k \in 1 .. count |-> block_ids[start + k]]
    BY <1>1, <1>7
  <2> QED
    BY <1>2, <1>3, <2>1
<1> QED
  BY <1>1, <1>2, <1>8 DEF Window

-----------------------------------------------------------------------------
LEMMA InitInv == Init => Inv
<1> SUFFICES ASSUME Init PROVE Inv
  OBVIOUS
<1>1. ToSet(block_ids) = {} /\ block_ids = <<>> /\ Len(block_ids) = 0
  BY Empty DEF Init
<1>2. TypeOK
  <2>1. current_block \in Block
    BY ReaderAssumption DEF Init, Block
  <2>2. disk \in [ToSet(block_ids) -> Block]
    BY <1>1 DEF Init
  <2>3. /\ written \in 0 .. MaxRows /\ current_offset \in 0 .. Usable /\ pending \in Seq(Block)
        /\ block_ids \in Seq(Nat) /\ next_anon_block_id \in Nat
    BY <1>1, ReaderAssumption DEF Init
  <2>4. /\ current_block_idx \in 0 .. Len(block_ids) /\ current_row_idx \in Nat
        /\ current_block_rows \in Seq(Nat)
        /\ prefetched_start_idx \in Nat /\ prefetched_count \in 0 .. Prefetch
        /\ read \in Seq(Nat) /\ out \subseteq 1 .. MaxRows /\ emitted \in Nat
    BY <1>1, ReaderAssumption DEF Init
  <2>5. opened \in BOOLEAN /\ exhausted \in BOOLEAN /\ done \in BOOLEAN
    BY DEF Init
  <2> QED
    BY <2>1, <2>2, <2>3, <2>4, <2>5 DEF TypeOK
<1>3. IdsIncrease
  BY <1>1 DEF IdsIncrease
<1>4. Packed
  <2>1. Linked(Stored, 0, 0) /\ Linked(pending, 0, 0)
    BY <1>1 DEF Init, Linked, Stored
  <2> QED
    BY <2>1 DEF Init, Packed
<1>5. Window /\ Positioned
  BY <1>1 DEF Init, Window, Positioned
<1> QED
  BY <1>2, <1>3, <1>4, <1>5 DEF Inv

(* What writing leaves alone: the reader has not started.                  *)
LEMMA NotStarted ==
    ASSUME Inv, ~opened, block_ids' \in Seq(Nat), UNCHANGED <<opened, cursor, out, emitted, done>>
    PROVE  /\ Window' /\ Positioned'
           /\ opened' \in BOOLEAN /\ exhausted' \in BOOLEAN /\ done' \in BOOLEAN
           /\ current_block_idx' \in 0 .. Len(block_ids')
           /\ current_row_idx' \in Nat
           /\ current_block_rows' \in Seq(Nat)
           /\ prefetched_start_idx' \in Nat /\ prefetched_count' \in 0 .. Prefetch
           /\ read' \in Seq(Nat)
           /\ out' \subseteq 1 .. MaxRows /\ emitted' \in Nat
<1>1. /\ TypeOK /\ Window /\ Positioned
      /\ opened' = opened /\ exhausted' = exhausted /\ done' = done /\ out' = out
      /\ current_block_idx' = current_block_idx /\ current_row_idx' = current_row_idx
      /\ current_block_rows' = current_block_rows
      /\ prefetched_start_idx' = prefetched_start_idx /\ prefetched_count' = prefetched_count
      /\ read' = read /\ emitted' = emitted
  BY DEF Inv, cursor, window
<1>2. /\ emitted = 0 /\ out = {} /\ ~done /\ read = <<>> /\ ~exhausted
      /\ current_block_idx = 0 /\ current_row_idx = 0 /\ prefetched_start_idx = 0
      /\ Len(block_ids') \in Nat
  BY <1>1 DEF Positioned
<1>3. Window'
  BY <1>1, <1>2 DEF Window
<1>4. Positioned'
  BY <1>1, <1>2 DEF Positioned
<1> QED
  BY <1>1, <1>2, <1>3, <1>4 DEF TypeOK

(* A row more in the current block, or the first of a new one.             *)
LEMMA WriteRowInv == ASSUME Inv, WriteRow PROVE Inv'
<1>1. PICK size \in RowSizes :
         \/ /\ current_offset + size <= Usable
            /\ current_offset' = current_offset + size
            /\ current_block' = [current_block EXCEPT !.count = (@ + 1) % CountMod]
            /\ UNCHANGED <<pending, stored>>
         \/ /\ current_offset + size > Usable
            /\ current_offset' = size
            /\ current_block' = [first |-> written, count |-> 1]
            /\ \/ pending' = Append(pending, current_block) /\ UNCHANGED stored
               \/ Flush(Append(pending, current_block))
  BY DEF WriteRow
<1>2. /\ ~opened /\ written < MaxRows /\ written' = written + 1
      /\ UNCHANGED <<opened, cursor, out, emitted, done>>
  BY DEF WriteRow
<1>3. /\ written \in 0 .. MaxRows /\ current_offset \in 0 .. Usable
      /\ current_block \in Block /\ pending \in Seq(Block)
      /\ block_ids \in Seq(Nat) /\ next_anon_block_id \in Nat
      /\ disk \in [ToSet(block_ids) -> Block] /\ TypeOK /\ IdsIncrease
  BY DEF Inv, TypeOK
<1>4. /\ size \in 1 .. Usable /\ Usable \in Nat /\ CountMod \in Nat /\ CountMod > Usable
      /\ MaxRows \in Nat
  BY ReaderAssumption
<1>5. current_block.first \in Nat /\ current_block.count \in Nat
  BY <1>3, Numbers
<1>6. PICK m \in Nat : Linked(Stored, 0, m) /\ Linked(pending, m, current_block.first)
  BY DEF Inv, Packed
<1>7. /\ written = current_block.first + current_block.count
      /\ current_block.count <= current_offset
      /\ current_block.count = 0 => current_offset = 0 /\ pending = <<>>
  BY DEF Inv, Packed
<1>8. written' \in 0 .. MaxRows
  BY <1>2, <1>3, <1>4
<1>9. CASE /\ current_offset + size <= Usable
           /\ current_offset' = current_offset + size
           /\ current_block' = [current_block EXCEPT !.count = (@ + 1) % CountMod]
           /\ UNCHANGED <<pending, stored>>
  <2>0. /\ current_offset + size <= Usable /\ current_offset' = current_offset + size
        /\ current_offset \in Nat /\ size \in Nat /\ size >= 1
    BY <1>3, <1>4, <1>9
  <2>a. current_block.count + 1 \in Nat /\ current_block.count + 1 < CountMod
        /\ current_block.count + 1 <= current_offset'
    BY <1>4, <1>5, <1>7, <2>0
  <2>1. (current_block.count + 1) % CountMod = current_block.count + 1
    BY <2>a, NoWrap
  <2>2. current_block' = [first |-> current_block.first, count |-> current_block.count + 1]
    BY <1>3, <1>9, <2>1 DEF Block
  <2>3. current_block' \in Block /\ current_offset' \in 0 .. Usable
    <3>1. current_block.count + 1 \in 0 .. CountMod - 1
      BY <1>4, <2>a
    <3>2. current_block' \in Block
      BY <1>5, <2>2, <3>1 DEF Block
    <3>3. current_offset' \in 0 .. Usable
      BY <1>4, <2>0
    <3> QED
      BY <3>2, <3>3
  <2>4. /\ pending' = pending /\ block_ids' = block_ids /\ disk' = disk
        /\ next_anon_block_id' = next_anon_block_id /\ Stored' = Stored
    BY <1>9 DEF stored, Stored
  <2>5. Packed'
    <3>1. /\ current_block'.first = current_block.first
          /\ current_block'.count = current_block.count + 1
      BY <2>2
    <3>2. Linked(Stored', 0, m) /\ Linked(pending', m, current_block'.first)
      BY <1>6, <2>4, <3>1
    <3>3. /\ written' = current_block'.first + current_block'.count
          /\ current_block'.count <= current_offset' /\ current_block'.count # 0
      BY <1>2, <1>5, <1>7, <2>a, <3>1
    <3> QED
      BY <3>2, <3>3 DEF Packed
  <2>6. IdsIncrease'
    BY <1>3, <2>4 DEF IdsIncrease
  <2> QED
    BY <1>2, <1>3, <1>8, <2>3, <2>4, <2>5, <2>6, NotStarted DEF Inv, TypeOK
<1>10. ASSUME current_offset + size > Usable,
              current_offset' = size,
              current_block' = [first |-> written, count |-> 1]
       PROVE  /\ current_block' \in Block /\ current_offset' \in 0 .. Usable
              /\ current_block'.first = written /\ current_block'.count = 1
              /\ Append(pending, current_block) \in Seq(Block)
              /\ Linked(Append(pending, current_block), m, written)
  <2>1. current_block.count >= 1
    BY <1>3, <1>4, <1>5, <1>7, <1>10
  <2>2. /\ Append(pending, current_block) \in Seq(Block)
        /\ Linked(Append(pending, current_block), m, written)
    BY <1>3, <1>6, <1>7, <2>1, LinkedAppend
  <2> QED
    BY <1>3, <1>4, <1>10, <2>2 DEF Block
<1>11. CASE /\ current_offset + size > Usable
            /\ current_offset' = size
            /\ current_block' = [first |-> written, count |-> 1]
            /\ pending' = Append(pending, current_block) /\ UNCHANGED stored
  <2>1. /\ block_ids' = block_ids /\ disk' = disk
        /\ next_anon_block_id' = next_anon_block_id /\ Stored' = Stored
    BY <1>11 DEF stored, Stored
  <2>2. Packed'
    <3>1. Linked(Stored', 0, m) /\ Linked(pending', m, current_block'.first)
      BY <1>6, <1>10, <1>11, <2>1
    <3> QED
      BY <1>2, <1>3, <1>4, <1>10, <1>11, <3>1 DEF Packed
  <2>3. IdsIncrease'
    BY <1>3, <2>1 DEF IdsIncrease
  <2> QED
    BY <1>2, <1>3, <1>8, <1>10, <1>11, <2>1, <2>2, <2>3, NotStarted DEF Inv, TypeOK
<1>12. CASE /\ current_offset + size > Usable
            /\ current_offset' = size
            /\ current_block' = [first |-> written, count |-> 1]
            /\ Flush(Append(pending, current_block))
  <2>1. /\ block_ids' \in Seq(Nat) /\ next_anon_block_id' \in Nat
        /\ disk' \in [ToSet(block_ids') -> Block]
        /\ pending' = <<>> /\ IdsIncrease'
        /\ Stored' = Stored \o Append(pending, current_block) /\ Stored \in Seq(Block)
    BY <1>3, <1>10, <1>12, Flushed
  <2>2. Linked(Stored', 0, written) /\ written \in Nat
    <3>1. /\ Append(pending, current_block) \in Seq(Block)
          /\ Linked(Append(pending, current_block), m, written)
      BY <1>10, <1>12
    <3>2. written \in Nat /\ 0 \in Nat
      BY <1>3
    <3>3. Linked(Stored \o Append(pending, current_block), 0, written)
      BY <1>6, <2>1, <3>1, <3>2, LinkedJoin
    <3> QED
      BY <2>1, <3>2, <3>3
  <2>3. Linked(pending', written, current_block'.first)
    BY <1>10, <1>12, <2>1, <2>2, LinkedNone
  <2>4. Packed'
    BY <1>2, <1>3, <1>4, <1>10, <1>12, <2>2, <2>3 DEF Packed
  <2>5. pending' \in Seq(Block)
    BY <2>1
  <2> QED
    BY <1>2, <1>8, <1>10, <1>12, <2>1, <2>4, <2>5, NotStarted DEF Inv, TypeOK
<1> QED
  BY <1>1, <1>9, <1>11, <1>12

LEMMA FinishInv == ASSUME Inv, Finish PROVE Inv'
<1>1. /\ ~opened /\ current_block.count > 0 /\ Flush(Append(pending, current_block))
      /\ current_block' = [first |-> written, count |-> 0] /\ current_offset' = 0
      /\ written' = written /\ UNCHANGED <<opened, cursor, out, emitted, done>>
  BY DEF Finish
<1>2. /\ written \in 0 .. MaxRows /\ current_block \in Block /\ pending \in Seq(Block)
      /\ TypeOK /\ IdsIncrease /\ written \in Nat
  BY ReaderAssumption DEF Inv, TypeOK
<1>3. current_block.first \in Nat /\ current_block.count \in Nat
  BY <1>2, Numbers
<1>4. PICK m \in Nat : Linked(Stored, 0, m) /\ Linked(pending, m, current_block.first)
  BY DEF Inv, Packed
<1>5. written = current_block.first + current_block.count
  BY DEF Inv, Packed
<1>6. /\ Append(pending, current_block) \in Seq(Block)
      /\ Linked(Append(pending, current_block), m, written)
  <2>1. current_block.count >= 1
    BY <1>1, <1>3
  <2> QED
    BY <1>2, <1>4, <1>5, <2>1, LinkedAppend
<1>7. /\ block_ids' \in Seq(Nat) /\ next_anon_block_id' \in Nat
      /\ disk' \in [ToSet(block_ids') -> Block]
      /\ pending' = <<>> /\ IdsIncrease'
      /\ Stored' = Stored \o Append(pending, current_block) /\ Stored \in Seq(Block)
  BY <1>1, <1>2, <1>6, Flushed
<1>8. current_block' \in Block /\ current_block'.first = written /\ current_block'.count = 0
  BY <1>1, <1>2, ReaderAssumption DEF Block
<1>9. Packed'
  <2>1. Linked(Stored', 0, written)
    BY <1>2, <1>4, <1>6, <1>7, LinkedJoin
  <2>2. Linked(pending', written, current_block'.first)
    BY <1>2, <1>7, <1>8, LinkedNone
  <2> QED
    BY <1>1, <1>2, <1>7, <1>8, <2>1, <2>2 DEF Packed
<1>10. pending' \in Seq(Block) /\ current_offset' \in 0 .. Usable
  BY <1>1, <1>7, ReaderAssumption
<1> QED
  BY <1>1, <1>2, <1>7, <1>8, <1>9, <1>10, NotStarted DEF Inv, TypeOK

-----------------------------------------------------------------------------
LEMMA WriterKept ==
    ASSUME Inv, UNCHANGED writer
    PROVE  /\ Packed' /\ IdsIncrease' /\ Stored' = Stored /\ block_ids' = block_ids
           /\ disk' = disk /\ written' = written /\ current_block' = current_block
           /\ written' \in 0 .. MaxRows /\ current_offset' \in 0 .. Usable
           /\ current_block' \in Block /\ pending' \in Seq(Block)
           /\ block_ids' \in Seq(Nat) /\ next_anon_block_id' \in Nat
           /\ disk' \in [ToSet(block_ids') -> Block]
<1>1. /\ written' = written /\ current_block' = current_block
      /\ current_offset' = current_offset /\ pending' = pending
      /\ block_ids' = block_ids /\ next_anon_block_id' = next_anon_block_id /\ disk' = disk
  BY DEF writer, stored
<1>2. Stored' = Stored
  BY <1>1 DEF Stored
<1>3. TypeOK /\ Packed /\ IdsIncrease
  BY DEF Inv
<1>4. IdsIncrease'
  BY <1>1, <1>3 DEF IdsIncrease
<1>5. Packed'
  BY <1>1, <1>2, <1>3 DEF Packed
<1> QED
  BY <1>1, <1>2, <1>3, <1>4, <1>5 DEF TypeOK

LEMMA NewInv == ASSUME Inv, New PROVE Inv'
<1>1. /\ ~opened /\ current_block.count = 0 /\ opened' = TRUE
      /\ UNCHANGED <<writer, current_block_idx, current_row_idx, out, emitted, done>>
  BY DEF New
<1>2. /\ TypeOK /\ Window /\ emitted = 0 /\ out = {} /\ ~done /\ read = <<>> /\ ~exhausted
      /\ current_block_idx = 0 /\ current_row_idx = 0 /\ prefetched_start_idx = 0
  BY <1>1 DEF Inv, Positioned
<1>3. /\ Linked(Stored, 0, written) /\ Len(Stored) = Len(block_ids) /\ Len(block_ids) \in Nat
      /\ \A i \in 1 .. Len(block_ids) : Stored[i] = disk[block_ids[i]] /\ Stored[i] \in Block
      /\ (written = 0 <=> Len(block_ids) = 0) /\ written \in 0 .. MaxRows
  BY <1>1, Complete
<1>4. /\ Packed' /\ IdsIncrease' /\ Stored' = Stored /\ block_ids' = block_ids
      /\ disk' = disk /\ written' = written /\ current_block' = current_block
      /\ written' \in 0 .. MaxRows /\ current_offset' \in 0 .. Usable
      /\ current_block' \in Block /\ pending' \in Seq(Block)
      /\ block_ids' \in Seq(Nat) /\ next_anon_block_id' \in Nat
      /\ disk' \in [ToSet(block_ids') -> Block]
  BY <1>1, WriterKept
<1>5. /\ current_block_idx' = 0 /\ current_row_idx' = 0 /\ out' = {} /\ emitted' = 0 /\ ~done'
      /\ done' \in BOOLEAN
  <2>1. /\ current_block_idx' = current_block_idx /\ current_row_idx' = current_row_idx
        /\ out' = out /\ emitted' = emitted /\ done' = done
    BY <1>1
  <2>2. done \in BOOLEAN
    BY <1>2 DEF TypeOK
  <2> QED
    BY <1>2, <2>1, <2>2
<1>6. CASE written = 0 /\ exhausted' = TRUE /\ UNCHANGED <<window, current_block_rows>>
  <2>1. /\ prefetched_start_idx' = prefetched_start_idx /\ prefetched_count' = prefetched_count
        /\ read' = read /\ current_block_rows' = current_block_rows
    BY <1>6 DEF window
  <2>2. Window'
    BY <1>2, <1>4, <2>1 DEF Window
  <2>3. Positioned'
    BY <1>1, <1>4, <1>5, <1>6 DEF Positioned
  <2>4. TypeOK'
    BY <1>1, <1>2, <1>3, <1>4, <1>5, <1>6, <2>1 DEF TypeOK
  <2> QED
    BY <1>4, <2>2, <2>3, <2>4 DEF Inv
<1>7. CASE /\ written # 0 /\ LoadPrefetchBatch(0) /\ UNCHANGED exhausted
           /\ current_block_rows' = Decoded(disk[read'[1]])
  <2>1. /\ prefetched_start_idx' = 0 /\ prefetched_count' \in 1 .. Prefetch
        /\ read' \in Seq(Nat) /\ Window'
    BY <1>2, <1>4, <1>7, Loaded
  <2>2. /\ 1 \in 1 .. Len(block_ids) /\ ~exhausted'
        /\ prefetched_count' \in Nat /\ prefetched_count' >= 1
    BY <1>2, <1>3, <1>7, <2>1, ReaderAssumption
  <2>3. read'[1] = block_ids[1]
    <3>1. /\ prefetched_count' = Len(read') 
          /\ \A k \in 1 .. Len(read') : read'[k] = block_ids'[prefetched_start_idx' + k]
      BY <2>1 DEF Window
    <3>2. 1 \in 1 .. Len(read')
      BY <2>2, <3>1
    <3> QED
      BY <1>4, <2>1, <3>1, <3>2
  <2>4. current_block_rows' = Decoded(Stored[1]) /\ Stored[1] \in Block
    BY <1>3, <1>7, <2>2, <2>3
  <2>5. Stored[1].count \in Nat /\ Stored[1].count >= 1 /\ Stored[1].first = 0
    <3>1. Len(Stored) > 0 /\ 1 \in 1 .. Len(Stored)
      BY <1>3, <2>2
    <3> QED
      BY <1>3, <2>4, <3>1, Numbers DEF Linked
  <2>6. Positioned'
    <3>1. /\ prefetched_start_idx' <= current_block_idx'
          /\ current_block_idx' < prefetched_start_idx' + prefetched_count'
      <4>1. current_block_idx' = 0 /\ prefetched_start_idx' = 0
        BY <1>5, <2>1
      <4>2. prefetched_count' \in Nat /\ prefetched_count' >= 1
        BY <2>2
      <4>3. \A c \in Nat : c >= 1 => 0 <= 0 /\ 0 < 0 + c
        OBVIOUS
      <4> QED
        BY <4>1, <4>2, <4>3, Zenon
    <3>2. current_block_idx' + 1 = 1 /\ current_block_idx' < Len(block_ids')
      BY <1>3, <1>4, <1>5, <2>2
    <3>3. /\ current_block_rows' = Decoded(Stored'[current_block_idx' + 1])
          /\ current_row_idx' < Stored'[current_block_idx' + 1].count
          /\ emitted' = Stored'[current_block_idx' + 1].first + current_row_idx'
      BY <1>4, <1>5, <2>4, <2>5, <3>2
    <3>4. current_block'.count = 0 /\ opened' /\ ~exhausted' /\ ~done'
      BY <1>1, <1>4, <1>5, <2>2
    <3>5. current_block_rows' = Decoded(Stored[current_block_idx + 1])'
      BY <3>3 DEF Decoded
    <3> QED
      BY <3>1, <3>2, <3>3, <3>4, <3>5 DEF Positioned
  <2>7. TypeOK'
    <3>1. current_block_rows' \in Seq(Nat)
      BY <2>4, DecodedRows
    <3>2. /\ current_block_idx' \in 0 .. Len(block_ids') /\ current_row_idx' \in Nat
          /\ prefetched_start_idx' \in Nat /\ prefetched_count' \in 0 .. Prefetch
          /\ out' \subseteq 1 .. MaxRows /\ emitted' \in Nat
      BY <1>3, <1>4, <1>5, <2>1, ReaderAssumption
    <3>3. opened' \in BOOLEAN /\ exhausted' \in BOOLEAN
      BY <1>1, <2>2, <1>2, <1>7 DEF TypeOK
    <3> QED
      BY <1>4, <1>5, <2>1, <3>1, <3>2, <3>3 DEF TypeOK
  <2> QED
    BY <1>4, <2>1, <2>6, <2>7 DEF Inv
<1> QED
  BY <1>6, <1>7 DEF New

(* The row the reader stands on.                                           *)
LEMMA Here ==
    ASSUME Inv, opened, ~exhausted
    PROVE  /\ Linked(Stored, 0, written) /\ Len(Stored) = Len(block_ids) /\ Len(block_ids) \in Nat
           /\ \A i \in 1 .. Len(block_ids) : Stored[i] = disk[block_ids[i]] /\ Stored[i] \in Block
           /\ written \in 0 .. MaxRows /\ written \in Nat
           /\ current_block_idx \in Nat /\ current_block_idx + 1 \in 1 .. Len(block_ids)
           /\ LET here == Stored[current_block_idx + 1]
              IN  /\ here.first \in Nat /\ here.count \in Nat /\ here.first + here.count <= written
                  /\ Len(current_block_rows) = here.count
                  /\ current_row_idx \in Nat /\ current_row_idx < here.count
                  /\ emitted = here.first + current_row_idx /\ emitted \in Nat
                  /\ current_block_rows[current_row_idx + 1] = emitted + 1
           /\ emitted < written /\ ~done
           /\ prefetched_start_idx <= current_block_idx
           /\ current_block_idx < prefetched_start_idx + prefetched_count
<1>1. /\ current_block.count = 0
      /\ current_block_idx < Len(block_ids) /\ prefetched_start_idx <= current_block_idx
      /\ current_block_idx < prefetched_start_idx + prefetched_count
      /\ current_block_rows = Decoded(Stored[current_block_idx + 1])
      /\ current_row_idx < Stored[current_block_idx + 1].count
      /\ emitted = Stored[current_block_idx + 1].first + current_row_idx
      /\ done => emitted = written
  BY DEF Inv, Positioned
<1>2. /\ Linked(Stored, 0, written) /\ Len(Stored) = Len(block_ids) /\ Len(block_ids) \in Nat
      /\ \A i \in 1 .. Len(block_ids) : Stored[i] = disk[block_ids[i]] /\ Stored[i] \in Block
      /\ written \in 0 .. MaxRows /\ written \in Nat
  BY <1>1, Complete, ReaderAssumption
<1>3. current_block_idx \in Nat /\ current_row_idx \in Nat
  BY <1>2 DEF Inv, TypeOK
<1>4. current_block_idx + 1 \in 1 .. Len(block_ids)
  BY <1>1, <1>2, <1>3
<1> DEFINE here == Stored[current_block_idx + 1]
<1>5. here \in Block /\ here.first \in Nat /\ here.count \in Nat
  BY <1>2, <1>4, Numbers
<1>6. here.first + here.count <= written
  BY <1>2, <1>4 DEF Linked
<1>7. /\ current_row_idx < here.count /\ emitted = here.first + current_row_idx
      /\ current_block_rows = Decoded(here)
  BY <1>1
<1> HIDE DEF here
<1>8. Len(current_block_rows) = here.count
  BY <1>5, <1>7, DecodedRows
<1>9. current_block_rows[current_row_idx + 1] = here.first + (current_row_idx + 1)
  <2>1. current_row_idx + 1 \in 1 .. here.count
    BY <1>3, <1>5, <1>7
  <2> QED
    BY <1>5, <1>7, <2>1, DecodedRows
<1>10. emitted < written /\ emitted \in Nat /\ current_block_rows[current_row_idx + 1] = emitted + 1
  <2>1. here.first \in Nat /\ here.count \in Nat /\ written \in Nat /\ current_row_idx \in Nat
    BY <1>2, <1>3, <1>5
  <2>2. current_row_idx < here.count /\ emitted = here.first + current_row_idx
    BY <1>7
  <2>3. emitted < written /\ emitted \in Nat
    BY <1>6, <2>1, <2>2
  <2> QED
    BY <1>9, <2>1, <2>2, <2>3
<1>11. ~done
  BY <1>1, <1>2, <1>10
<1> QED
  BY <1>1, <1>2, <1>3, <1>4, <1>5, <1>6, <1>7, <1>8, <1>10, <1>11 DEF here

(* The window after the reader has moved to the next block.                *)
LEMMA NextWindow ==
    ASSUME Inv, opened, ~exhausted, UNCHANGED writer, AdvanceToBlock
    PROVE  /\ current_block_idx + 2 \in 1 .. Len(block_ids) /\ Window'
           /\ prefetched_start_idx' \in Nat /\ prefetched_count' \in 0 .. Prefetch
           /\ read' \in Seq(Nat)
           /\ prefetched_start_idx' <= current_block_idx + 1
           /\ current_block_idx + 1 < prefetched_start_idx' + prefetched_count'
           /\ current_block_rows' = Decoded(Stored[current_block_idx + 2])
           /\ prefetched_start_idx' # prefetched_start_idx =>
                 prefetched_start_idx' = prefetched_start_idx + prefetched_count
<1>1. /\ current_block_idx \in Nat /\ current_block_idx + 1 \in 1 .. Len(block_ids)
      /\ Len(block_ids) \in Nat /\ prefetched_start_idx <= current_block_idx
      /\ current_block_idx < prefetched_start_idx + prefetched_count
      /\ \A i \in 1 .. Len(block_ids) : Stored[i] = disk[block_ids[i]]
  BY Here
<1>2. /\ current_block_idx + 1 < Len(block_ids)
      /\ current_block_rows' =
            Decoded(disk[read'[current_block_idx + 1 - prefetched_start_idx' + 1]])
      /\ \/ InWindow(current_block_idx + 1) /\ UNCHANGED window
         \/ ~InWindow(current_block_idx + 1) /\ LoadPrefetchBatch(current_block_idx + 1)
  BY DEF AdvanceToBlock
<1>3. /\ TypeOK /\ Window /\ prefetched_start_idx \in Nat /\ prefetched_count \in 0 .. Prefetch
      /\ prefetched_count \in Nat /\ read \in Seq(Nat)
  BY ReaderAssumption DEF Inv, TypeOK
<1>4. block_ids' = block_ids
  BY DEF writer, stored
<1>n. current_block_idx + 2 \in 1 .. Len(block_ids)
  BY <1>1, <1>2
<1>5. /\ Window' /\ prefetched_start_idx' \in Nat /\ prefetched_count' \in 0 .. Prefetch
      /\ read' \in Seq(Nat) /\ prefetched_start_idx' <= current_block_idx + 1
      /\ current_block_idx + 1 < prefetched_start_idx' + prefetched_count'
      /\ prefetched_start_idx' # prefetched_start_idx =>
            prefetched_start_idx' = prefetched_start_idx + prefetched_count
  <2>1. CASE InWindow(current_block_idx + 1) /\ UNCHANGED window
    <3>1. /\ prefetched_start_idx' = prefetched_start_idx /\ prefetched_count' = prefetched_count
          /\ read' = read
      BY <2>1 DEF window
    <3>2. Window'
      BY <1>3, <1>4, <3>1 DEF Window
    <3> QED
      BY <1>3, <2>1, <3>1, <3>2 DEF InWindow
  <2>2. CASE ~InWindow(current_block_idx + 1) /\ LoadPrefetchBatch(current_block_idx + 1)
    <3>1. /\ prefetched_start_idx' = current_block_idx + 1 /\ prefetched_count' \in 1 .. Prefetch
          /\ read' \in Seq(Nat) /\ Window'
      BY <1>1, <1>3, <1>4, <2>2, Loaded
    <3>2. current_block_idx + 1 = prefetched_start_idx + prefetched_count
      BY <1>1, <1>3, <2>2 DEF InWindow
    <3>3. prefetched_count' \in Nat /\ prefetched_count' >= 1 /\ prefetched_count' \in 0 .. Prefetch
      BY <3>1, ReaderAssumption
    <3>4. current_block_idx + 1 \in Nat
      BY <1>1
    <3>5. /\ prefetched_start_idx' <= current_block_idx + 1
          /\ current_block_idx + 1 < prefetched_start_idx' + prefetched_count'
      BY <3>1, <3>3, <3>4
    <3> QED
      BY <3>1, <3>2, <3>3, <3>4, <3>5
  <2> QED
    BY <1>2, <2>1, <2>2
<1>6. current_block_rows' = Decoded(Stored[current_block_idx + 2])
  <2>1. /\ prefetched_count' = Len(read')
        /\ \A k \in 1 .. Len(read') : read'[k] = block_ids[prefetched_start_idx' + k]
    BY <1>4, <1>5 DEF Window
  <2> DEFINE k == current_block_idx + 1 - prefetched_start_idx' + 1
  <2>0. prefetched_start_idx' \in Nat /\ Len(read') \in Nat /\ current_block_idx \in Nat
    BY <1>1, <1>5
  <2>2. k \in 1 .. Len(read') /\ prefetched_start_idx' + k = current_block_idx + 2
    <3>1. /\ prefetched_start_idx' <= current_block_idx + 1
          /\ current_block_idx + 1 < prefetched_start_idx' + Len(read')
      BY <1>5, <2>1
    <3>2. \A a, b, c \in Nat : a <= c + 1 /\ c + 1 < a + b =>
             c + 1 - a + 1 \in 1 .. b /\ a + (c + 1 - a + 1) = c + 2
      OBVIOUS
    <3> QED
      BY <2>0, <3>1, <3>2
  <2>3. current_block_rows' = Decoded(disk[read'[k]])
    BY <1>2
  <2> HIDE DEF k
  <2>4. read'[k] = block_ids[current_block_idx + 2]
    BY <2>1, <2>2
  <2> QED
    BY <1>1, <1>n, <2>3, <2>4
<1> QED
  BY <1>5, <1>6, <1>n

LEMMA NextOwnedInv == ASSUME Inv, NextOwned PROVE Inv'
<1>1. /\ opened /\ ~exhausted /\ UNCHANGED <<writer, opened, done>>
      /\ out' = {current_block_rows[current_row_idx + 1]} /\ emitted' = emitted + 1
      /\ opened' = opened /\ done' = done
  BY DEF NextOwned
<1> DEFINE here == Stored[current_block_idx + 1]
<1>2. /\ Linked(Stored, 0, written) /\ Len(Stored) = Len(block_ids) /\ Len(block_ids) \in Nat
      /\ \A i \in 1 .. Len(block_ids) : Stored[i] = disk[block_ids[i]] /\ Stored[i] \in Block
      /\ written \in 0 .. MaxRows /\ written \in Nat
      /\ current_block_idx \in Nat /\ current_block_idx + 1 \in 1 .. Len(block_ids)
      /\ here.first \in Nat /\ here.count \in Nat /\ here.first + here.count <= written
      /\ Len(current_block_rows) = here.count
      /\ current_row_idx \in Nat /\ current_row_idx < here.count
      /\ emitted = here.first + current_row_idx /\ emitted \in Nat
      /\ current_block_rows[current_row_idx + 1] = emitted + 1
      /\ emitted < written /\ ~done
      /\ prefetched_start_idx <= current_block_idx
      /\ current_block_idx < prefetched_start_idx + prefetched_count
  BY <1>1, Here
<1>3. /\ TypeOK /\ Window /\ current_block.count = 0
      /\ current_block_rows = Decoded(Stored[current_block_idx + 1])
  BY <1>1 DEF Inv, Positioned
<1>4. /\ Packed' /\ IdsIncrease' /\ Stored' = Stored /\ block_ids' = block_ids
      /\ disk' = disk /\ written' = written /\ current_block' = current_block
      /\ written' \in 0 .. MaxRows /\ current_offset' \in 0 .. Usable
      /\ current_block' \in Block /\ pending' \in Seq(Block)
      /\ block_ids' \in Seq(Nat) /\ next_anon_block_id' \in Nat
      /\ disk' \in [ToSet(block_ids') -> Block]
  BY <1>1, WriterKept
<1>5. /\ emitted' \in Nat /\ out' \subseteq 1 .. MaxRows
      /\ opened' \in BOOLEAN /\ done' \in BOOLEAN /\ opened' /\ ~done'
      /\ current_block'.count = 0 /\ emitted' = here.first + (current_row_idx + 1)
  <2>1. emitted + 1 \in 1 .. MaxRows /\ emitted' \in Nat
    <3>1. MaxRows \in Nat
      BY ReaderAssumption
    <3>2. written <= MaxRows /\ emitted < written /\ emitted \in Nat /\ written \in Nat
      BY <1>2, <3>1
    <3> QED
      BY <1>1, <3>1, <3>2
  <2>2. emitted' = here.first + (current_row_idx + 1)
    <3>1. /\ here.first \in Nat /\ current_row_idx \in Nat
          /\ emitted = here.first + current_row_idx
      BY <1>2
    <3> HIDE DEF here
    <3> QED
      BY <1>1, <3>1
  <2>3. out' = {emitted + 1}
    BY <1>1, <1>2
  <2>4. opened' \in BOOLEAN /\ done' \in BOOLEAN
    BY <1>1, <1>3 DEF TypeOK
  <2>5. opened' /\ ~done' /\ current_block'.count = 0
    BY <1>1, <1>2, <1>3, <1>4
  <2> QED
    BY <2>1, <2>2, <2>3, <2>4, <2>5
<1>6. CASE AdvanceInBlock
  <2>1. /\ current_row_idx + 1 < Len(current_block_rows) /\ current_row_idx' = current_row_idx + 1
        /\ current_block_idx' = current_block_idx /\ current_block_rows' = current_block_rows
        /\ exhausted' = exhausted /\ prefetched_start_idx' = prefetched_start_idx
        /\ prefetched_count' = prefetched_count /\ read' = read
    BY <1>6 DEF AdvanceInBlock, window
  <2>2. Window'
    BY <1>3, <1>4, <2>1 DEF Window
  <2>3. Positioned'
    <3>1. current_block_rows' = Decoded(Stored[current_block_idx + 1])'
      BY <1>3, <1>4, <2>1 DEF Decoded
    <3>2. /\ current_row_idx' < Stored'[current_block_idx' + 1].count
          /\ emitted' = Stored'[current_block_idx' + 1].first + current_row_idx'
      BY <1>2, <1>4, <1>5, <2>1
    <3>3. /\ current_block_idx' < Len(block_ids') /\ prefetched_start_idx' <= current_block_idx'
          /\ current_block_idx' < prefetched_start_idx' + prefetched_count'
      BY <1>2, <1>4, <2>1
    <3>4. ~exhausted' /\ opened' /\ ~done' /\ current_block'.count = 0
      BY <1>1, <1>5, <2>1
    <3> QED
      BY <3>1, <3>2, <3>3, <3>4 DEF Positioned
  <2>4. TypeOK'
    <3>1. current_row_idx' \in Nat
      BY <1>2, <2>1
    <3> QED
      BY <1>3, <1>4, <1>5, <2>1, <3>1 DEF TypeOK
  <2> QED
    BY <1>4, <2>2, <2>3, <2>4 DEF Inv
<1>7. CASE AdvanceToEnd
  <2>1. /\ current_row_idx + 1 >= Len(current_block_rows) /\ current_row_idx' = current_row_idx + 1
        /\ current_block_idx + 1 >= Len(block_ids) /\ current_block_idx' = current_block_idx + 1
        /\ current_block_rows' = current_block_rows
        /\ exhausted' = TRUE /\ prefetched_start_idx' = prefetched_start_idx
        /\ prefetched_count' = prefetched_count /\ read' = read
    BY <1>7 DEF AdvanceToEnd, window
  <2>2. Window'
    BY <1>3, <1>4, <2>1 DEF Window
  <2>3. current_row_idx + 1 = here.count /\ current_block_idx + 1 = Len(block_ids)
    <3>1. /\ here.count \in Nat /\ Len(current_block_rows) = here.count
          /\ current_row_idx \in Nat /\ current_row_idx < here.count
      BY <1>2
    <3>2. Len(block_ids) \in Nat /\ current_block_idx + 1 <= Len(block_ids) /\ current_block_idx \in Nat
      BY <1>2
    <3> HIDE DEF here
    <3> QED
      BY <2>1, <3>1, <3>2
  <2>4. emitted' = written
    <3>1. Len(Stored) > 0 /\ Stored[Len(Stored)] = here
      BY <1>2, <2>3
    <3>2. here.first + here.count = written
      BY <1>2, <3>1 DEF Linked
    <3> QED
      BY <1>5, <2>3, <3>2
  <2>5. Positioned'
    <3>1. opened' /\ exhausted' /\ ~done' /\ current_block'.count = 0 /\ emitted' = written'
      BY <1>4, <1>5, <2>1, <2>4
    <3> QED
      BY <3>1 DEF Positioned
  <2>6. TypeOK'
    <3>1. current_row_idx' \in Nat /\ current_block_idx' \in 0 .. Len(block_ids')
      <4>1. current_row_idx \in Nat /\ Len(block_ids) \in Nat /\ Len(block_ids') = Len(block_ids)
        BY <1>2, <1>4
      <4> QED
        BY <2>1, <2>3, <4>1
    <3> QED
      BY <1>3, <1>4, <1>5, <2>1, <3>1 DEF TypeOK
  <2> QED
    BY <1>4, <2>2, <2>5, <2>6 DEF Inv
<1>8. CASE AdvanceToBlock
  <2>1. /\ current_row_idx + 1 >= Len(current_block_rows) /\ current_row_idx' = 0
        /\ current_block_idx' = current_block_idx + 1 /\ exhausted' = exhausted
    BY <1>8 DEF AdvanceToBlock
  <2>2. /\ current_block_idx + 2 \in 1 .. Len(block_ids) /\ Window'
        /\ prefetched_start_idx' \in Nat /\ prefetched_count' \in 0 .. Prefetch
        /\ read' \in Seq(Nat)
        /\ prefetched_start_idx' <= current_block_idx + 1
        /\ current_block_idx + 1 < prefetched_start_idx' + prefetched_count'
        /\ current_block_rows' = Decoded(Stored[current_block_idx + 2])
    BY <1>1, <1>8, NextWindow
  <2> DEFINE next == Stored[current_block_idx + 2]
  <2>3. next \in Block /\ next.count \in Nat /\ next.first \in Nat
    BY <1>2, <2>2, Numbers
  <2>4. next.count >= 1 /\ next.first = here.first + here.count
    <3>1. current_block_idx + 1 \in 1 .. Len(Stored) - 1 /\ (current_block_idx + 1) + 1 = current_block_idx + 2
          /\ current_block_idx + 2 \in 1 .. Len(Stored)
      BY <1>2, <2>2
    <3> QED
      BY <1>2, <3>1 DEF Linked
  <2>5. current_row_idx + 1 = here.count
    BY <1>2, <2>1
  <2>6. current_block_idx' + 1 = current_block_idx + 2
    BY <1>2, <2>1
  <2>7. Positioned'
    <3>1. current_block_rows' = Decoded(Stored[current_block_idx + 1])'
      BY <1>4, <2>2, <2>6 DEF Decoded
    <3>2. /\ current_row_idx' < Stored'[current_block_idx' + 1].count
          /\ emitted' = Stored'[current_block_idx' + 1].first + current_row_idx'
      <4>1. 0 < next.count /\ emitted' = next.first + 0
        <5> HIDE DEF next, here
        <5> QED
          BY <1>5, <2>3, <2>4, <2>5
      <4> QED
        BY <1>4, <2>1, <2>6, <4>1
    <3>3. /\ current_block_idx' < Len(block_ids') /\ prefetched_start_idx' <= current_block_idx'
          /\ current_block_idx' < prefetched_start_idx' + prefetched_count'
      <4>1. /\ Len(block_ids) \in Nat /\ current_block_idx \in Nat
            /\ current_block_idx + 2 \in 1 .. Len(block_ids) /\ Len(block_ids') = Len(block_ids)
        BY <1>2, <1>4, <2>2
      <4>2. current_block_idx + 1 < Len(block_ids)
        BY <4>1
      <4> QED
        BY <2>1, <2>2, <4>1, <4>2
    <3>4. ~exhausted' /\ opened' /\ ~done' /\ current_block'.count = 0
      BY <1>1, <1>5, <2>1
    <3> QED
      BY <3>1, <3>2, <3>3, <3>4 DEF Positioned
  <2>8. TypeOK'
    <3>1. current_block_rows' \in Seq(Nat)
      BY <2>2, <2>3, DecodedRows
    <3>2. current_row_idx' \in Nat /\ current_block_idx' \in 0 .. Len(block_ids')
      BY <1>2, <1>4, <2>1, <2>2
    <3>3. exhausted' \in BOOLEAN
      BY <1>3, <2>1 DEF TypeOK
    <3> QED
      BY <1>4, <1>5, <2>2, <3>1, <3>2, <3>3 DEF TypeOK
  <2> QED
    BY <1>4, <2>2, <2>7, <2>8 DEF Inv
<1> QED
  BY <1>6, <1>7, <1>8 DEF NextOwned

LEMMA NextNoneInv == ASSUME Inv, NextNone PROVE Inv' /\ emitted = written
<1>1. /\ opened /\ (exhausted \/ current_row_idx >= Len(current_block_rows))
      /\ done' = TRUE /\ UNCHANGED <<writer, opened, cursor, out, emitted>>
  BY DEF NextNone
<1>2. /\ opened' = opened /\ out' = out /\ emitted' = emitted
      /\ current_block_idx' = current_block_idx /\ current_row_idx' = current_row_idx
      /\ current_block_rows' = current_block_rows /\ exhausted' = exhausted
      /\ prefetched_start_idx' = prefetched_start_idx /\ prefetched_count' = prefetched_count
      /\ read' = read
  BY <1>1 DEF cursor, window
<1>3. exhausted
  <2>1. ASSUME ~exhausted PROVE FALSE
    <3>1. /\ Len(current_block_rows) = Stored[current_block_idx + 1].count
          /\ current_row_idx < Stored[current_block_idx + 1].count
          /\ Stored[current_block_idx + 1].count \in Nat /\ current_row_idx \in Nat
      BY <1>1, <2>1, Here
    <3> QED
      BY <1>1, <2>1, <3>1
  <2> QED
    BY <2>1
<1>4. TypeOK /\ Window /\ emitted = written /\ current_block.count = 0
  BY <1>1, <1>3 DEF Inv, Positioned
<1>5. /\ Packed' /\ IdsIncrease' /\ Stored' = Stored /\ block_ids' = block_ids
      /\ disk' = disk /\ written' = written /\ current_block' = current_block
      /\ written' \in 0 .. MaxRows /\ current_offset' \in 0 .. Usable
      /\ current_block' \in Block /\ pending' \in Seq(Block)
      /\ block_ids' \in Seq(Nat) /\ next_anon_block_id' \in Nat
      /\ disk' \in [ToSet(block_ids') -> Block]
  BY <1>1, WriterKept
<1>6. Window'
  BY <1>2, <1>4, <1>5 DEF Window
<1>7. Positioned'
  BY <1>1, <1>2, <1>3, <1>4, <1>5 DEF Positioned
<1>8. TypeOK'
  BY <1>1, <1>2, <1>4, <1>5 DEF TypeOK
<1> QED
  BY <1>4, <1>5, <1>6, <1>7, <1>8 DEF Inv

LEMMA NextInv == ASSUME Inv, [Next]_vars PROVE Inv'
<1>1. CASE UNCHANGED vars
  <2>1. /\ UNCHANGED writer
        /\ opened' = opened /\ out' = out /\ emitted' = emitted /\ done' = done
        /\ current_block_idx' = current_block_idx /\ current_row_idx' = current_row_idx
        /\ current_block_rows' = current_block_rows /\ exhausted' = exhausted
        /\ prefetched_start_idx' = prefetched_start_idx /\ prefetched_count' = prefetched_count
        /\ read' = read
    BY <1>1 DEF vars, cursor, window
  <2>2. /\ Packed' /\ IdsIncrease' /\ Stored' = Stored /\ block_ids' = block_ids
        /\ disk' = disk /\ written' = written /\ current_block' = current_block
        /\ written' \in 0 .. MaxRows /\ current_offset' \in 0 .. Usable
        /\ current_block' \in Block /\ pending' \in Seq(Block)
        /\ block_ids' \in Seq(Nat) /\ next_anon_block_id' \in Nat
        /\ disk' \in [ToSet(block_ids') -> Block]
    BY <2>1, WriterKept
  <2>3. TypeOK /\ Window /\ Positioned
    BY DEF Inv
  <2>4. Window'
    BY <2>1, <2>2, <2>3 DEF Window
  <2>5. Positioned'
    BY <2>1, <2>2, <2>3 DEF Positioned, Decoded
  <2>6. TypeOK'
    BY <2>1, <2>2, <2>3 DEF TypeOK
  <2> QED
    BY <2>2, <2>4, <2>5, <2>6 DEF Inv
<1> QED
  BY <1>1, WriteRowInv, FinishInv, NewInv, NextOwnedInv, NextNoneInv DEF Next

THEOREM Invariance == Spec => []Inv
<1>1. Init => Inv
  BY InitInv
<1>2. Inv /\ [Next]_vars => Inv'
  BY NextInv
<1> QED
  BY <1>1, <1>2, PTL DEF Spec

(* Every variable keeps its type; the row count of a block never wraps,    *)
(* since a block of at most 64 KiB holds fewer rows than that.             *)
THEOREM Types == Spec => []TypeOK
<1>1. Inv => TypeOK
  BY DEF Inv
<1> QED
  BY <1>1, Invariance, PTL

(* A prefetch reads blocks of the run only, for every pattern of flushes   *)
(* and of ids others take.                                                 *)
THEOREM OwnBlocks == Spec => []ReadsOwnBlocks
<1>1. Inv => ReadsOwnBlocks
  <2> SUFFICES ASSUME Inv, NEW k \in DOMAIN read PROVE read[k] \in ToSet(block_ids)
    BY DEF ReadsOwnBlocks
  <2>1. /\ read \in Seq(Nat) /\ block_ids \in Seq(Nat) /\ prefetched_start_idx \in Nat
        /\ prefetched_start_idx + Len(read) <= Len(block_ids)
        /\ \A i \in 1 .. Len(read) : read[i] = block_ids[prefetched_start_idx + i]
    <3>1. TypeOK /\ Window
      BY DEF Inv
    <3>2. read \in Seq(Nat) /\ block_ids \in Seq(Nat) /\ prefetched_start_idx \in Nat
      BY <3>1 DEF TypeOK
    <3> QED
      BY <3>1, <3>2 DEF Window
  <2>2. k \in 1 .. Len(read) /\ prefetched_start_idx + k \in 1 .. Len(block_ids)
    <3>1. k \in 1 .. Len(read) /\ Len(read) \in Nat /\ Len(block_ids) \in Nat
      BY <2>1
    <3>2. prefetched_start_idx \in Nat /\ prefetched_start_idx + Len(read) <= Len(block_ids)
      BY <2>1
    <3> QED
      BY <3>1, <3>2
  <2>3. ToSet(block_ids) = { block_ids[i] : i \in 1 .. Len(block_ids) }
    BY <2>1, Elements, Zenon
  <2> QED
    BY <2>1, <2>2, <2>3
<1> QED
  BY <1>1, Invariance, PTL

(* A new window starts where the last one ended: no block is read twice    *)
(* and none is left out.                                                   *)
THEOREM Once == Spec => ReadsOnce
<1> DEFINE Follows == prefetched_count # 0 /\ prefetched_start_idx' # prefetched_start_idx
                         => prefetched_start_idx' = prefetched_start_idx + prefetched_count
<1>1. ASSUME Inv, [Next]_vars PROVE [Follows]_vars
  <2> SUFFICES ASSUME Next, prefetched_start_idx' # prefetched_start_idx, prefetched_count # 0
               PROVE  prefetched_start_idx' = prefetched_start_idx + prefetched_count
    BY <1>1
  <2>1. CASE WriteRow \/ Finish \/ NextNone
    BY <2>1 DEF WriteRow, Finish, NextNone, cursor, window
  <2>2. CASE New
    BY <1>1, <2>2 DEF New, Inv, Window, Positioned
  <2>3. CASE NextOwned
    <3>1. opened /\ ~exhausted /\ UNCHANGED writer
      BY <2>3 DEF NextOwned
    <3>2. CASE AdvanceInBlock \/ AdvanceToEnd
      BY <3>2 DEF AdvanceInBlock, AdvanceToEnd, window
    <3>3. CASE AdvanceToBlock
      BY <1>1, <3>1, <3>3, NextWindow
    <3> QED
      BY <2>3, <3>2, <3>3 DEF NextOwned
  <2> QED
    BY <2>1, <2>2, <2>3 DEF Next
<1> QED
  BY <1>1, Invariance, PTL DEF Spec, ReadsOnce

(* The reader is a row source of the rows that were written, in the order  *)
(* of writing.                                                             *)
THEOREM Reads == Spec => ReadsBack
<1>1. Inv => (~opened => Stream!Init)
  <2> SUFFICES ASSUME Inv, ~opened PROVE Stream!Init
    OBVIOUS
  <2>1. out = {} /\ ~done /\ done \in BOOLEAN /\ written \in 0 .. MaxRows
    BY DEF Inv, Positioned, TypeOK
  <2>2. ToRead \subseteq 1 .. MaxRows
    BY <2>1, ReaderAssumption DEF ToRead
  <2> QED
    BY <2>1, <2>2 DEF Stream!Init
<1>2. Inv /\ [Next]_vars => [opened => [Stream!Next]_<<ToRead, out, done>>]_vars
  <2> SUFFICES ASSUME Inv, Next, opened PROVE [Stream!Next]_<<ToRead, out, done>>
    OBVIOUS
  <2>1. CASE NextOwned
    <3>1. /\ ~exhausted /\ out' = {current_block_rows[current_row_idx + 1]}
          /\ emitted' = emitted + 1 /\ written' = written /\ done' = done
      BY <2>1 DEF NextOwned, writer
    <3>2. /\ written \in 0 .. MaxRows /\ written \in Nat /\ emitted \in Nat
          /\ emitted < written /\ ~done
          /\ current_block_rows[current_row_idx + 1] = emitted + 1
      BY <3>1, Here
    <3>3. emitted + 1 \in ToRead /\ \A r \in ToRead : r \in Nat /\ ~(r < emitted + 1)
      BY <3>2 DEF ToRead
    <3>4. ToRead' = ToRead \ {emitted + 1}
      BY <3>1, <3>2 DEF ToRead
    <3>5. Stream!Deliver(emitted + 1)
      BY <3>1, <3>2, <3>3, <3>4 DEF Stream!Deliver
    <3> QED
      BY <3>3, <3>5 DEF Stream!Next
  <2>2. CASE NextNone
    <3>1. emitted = written /\ written \in Nat
      BY <2>2, NextNoneInv, ReaderAssumption DEF Inv, TypeOK
    <3>2. ToRead = {} /\ ToRead' = ToRead /\ done' = TRUE /\ out' = out
      BY <2>2, <3>1 DEF NextNone, ToRead, writer
    <3> QED
      BY <3>2 DEF Stream!Next, Stream!End
  <2> QED
    BY <2>1, <2>2 DEF Next, WriteRow, Finish, New
<1> QED
  BY <1>1, <1>2, Invariance, PTL DEF Spec, ReadsBack

-----------------------------------------------------------------------------
(* Reading goes on and ends.                                               *)
(*                                                                         *)
(* What the loop of load_prefetch_batch leaves in count (280-288).         *)
Batch(start, count) ==
    /\ Consecutive(start, count)
    /\ count = Prefetch \/ ~Consecutive(start, count + 1)

(* The loop always ends, and its result depends on nothing else.           *)
OneBatch(start) ==
    \E c \in 1 .. Prefetch :
       Batch(start, c) /\ \A d \in 1 .. Prefetch : Batch(start, d) => d = c

LEMMA Shorter ==
    ASSUME TypeOK, NEW start \in Nat, NEW c \in Nat, NEW d \in Nat, c <= d,
           Consecutive(start, d)
    PROVE  Consecutive(start, c)
<1>1. Len(block_ids) \in Nat
  BY DEF TypeOK
<1>2. start + d <= Len(block_ids)
  BY DEF Consecutive
<1>3. start + c <= Len(block_ids)
  BY <1>1, <1>2
<1>4. \A k \in 1 .. c - 1 : k \in 1 .. d - 1
  OBVIOUS
<1> QED
  BY <1>3, <1>4 DEF Consecutive

(* From every block of the run there is a batch, and only one.             *)
LEMMA BatchFound ==
    ASSUME TypeOK, NEW start \in Nat, start < Len(block_ids)
    PROVE  OneBatch(start)
<1>1. Prefetch \in Nat /\ Prefetch >= 1 /\ Len(block_ids) \in Nat
  BY ReaderAssumption DEF TypeOK
<1>2. Consecutive(start, 1)
  BY <1>1 DEF Consecutive
<1> DEFINE T == { p \in Nat : p < Prefetch /\ Consecutive(start, Prefetch - p) }
<1>3. Prefetch - 1 \in T /\ T \subseteq Nat
  <2>1. Prefetch - (Prefetch - 1) = 1 /\ Prefetch - 1 \in Nat /\ Prefetch - 1 < Prefetch
    BY <1>1
  <2> QED
    BY <1>2, <2>1
<1>4. PICK p \in T : \A q \in T : ~(q < p)
  <2> HIDE DEF T
  <2> QED
    BY <1>3, Least
<1> DEFINE c == Prefetch - p
<1>5. c \in 1 .. Prefetch /\ c \in Nat /\ Consecutive(start, c)
  BY <1>1, <1>4
<1>6. ASSUME c # Prefetch PROVE ~Consecutive(start, c + 1)
  <2>1. p - 1 \in Nat /\ p - 1 < Prefetch /\ p - 1 < p /\ Prefetch - (p - 1) = c + 1
    BY <1>1, <1>4, <1>6
  <2>2. p - 1 \notin T
    BY <1>4, <2>1
  <2> QED
    BY <2>1, <2>2
<1> HIDE DEF T, c
<1>7. Batch(start, c)
  BY <1>5, <1>6 DEF Batch
<1>8. ASSUME NEW d \in 1 .. Prefetch, Batch(start, d) PROVE d = c
  <2>1. Consecutive(start, d) /\ (d = Prefetch \/ ~Consecutive(start, d + 1)) /\ d \in Nat
    BY <1>1, <1>8 DEF Batch
  <2>2. ~(d < c)
    <3>1. ASSUME d < c PROVE FALSE
      <4>1. d + 1 \in Nat /\ d + 1 <= c /\ d # Prefetch
        BY <1>1, <1>5, <2>1, <3>1
      <4>2. Consecutive(start, d + 1)
        BY <1>5, <4>1, Shorter
      <4> QED
        BY <2>1, <4>1, <4>2
    <3> QED
      BY <3>1
  <2>3. ~(c < d)
    <3>1. ASSUME c < d PROVE FALSE
      <4>1. c + 1 \in Nat /\ c + 1 <= d /\ c # Prefetch
        BY <1>1, <1>5, <1>8, <2>1, <3>1
      <4>2. Consecutive(start, c + 1)
        BY <2>1, <4>1, Shorter
      <4> QED
        BY <1>6, <4>1, <4>2
    <3> QED
      BY <3>1
  <2> QED
    BY <1>5, <2>1, <2>2, <2>3
<1> QED
  BY <1>5, <1>7, <1>8 DEF OneBatch

(* A reader that is not exhausted has its next row, its block lies in the  *)
(* bytes it read, and for the block after it there is a window or a batch. *)
(* What the code has for less (196, 221, 248, 275) is never reached, so    *)
(* no run is cut short without a word.                                     *)
CanTurn ==
    /\ current_block.count = 0 /\ written # 0 => OneBatch(0)
    /\ opened /\ ~exhausted =>
          /\ current_row_idx + 1 \in 1 .. Len(current_block_rows)
          /\ current_block_idx - prefetched_start_idx + 1 \in 1 .. Len(read)
          /\ read[current_block_idx - prefetched_start_idx + 1] = block_ids[current_block_idx + 1]
          /\ current_block_idx + 1 < Len(block_ids) =>
                InWindow(current_block_idx + 1) \/ OneBatch(current_block_idx + 1)

THEOREM ReadGoesOn == Spec => []CanTurn
<1>1. Inv => CanTurn
  <2> SUFFICES ASSUME Inv PROVE CanTurn
    OBVIOUS
  <2>0. TypeOK /\ Window
    BY DEF Inv
  <2>1. ASSUME current_block.count = 0, written # 0 PROVE OneBatch(0)
    <3>1. 0 \in Nat /\ 0 < Len(block_ids)
      BY <2>1, Complete
    <3> QED
      BY <2>0, <3>1, BatchFound
  <2>2. ASSUME opened, ~exhausted
        PROVE  /\ current_row_idx + 1 \in 1 .. Len(current_block_rows)
               /\ current_block_idx - prefetched_start_idx + 1 \in 1 .. Len(read)
               /\ read[current_block_idx - prefetched_start_idx + 1]
                     = block_ids[current_block_idx + 1]
               /\ current_block_idx + 1 < Len(block_ids) => OneBatch(current_block_idx + 1)
    <3>1. /\ current_block_idx \in Nat /\ Len(block_ids) \in Nat
          /\ prefetched_start_idx <= current_block_idx
          /\ current_block_idx < prefetched_start_idx + prefetched_count
      BY <2>2, Here
    <3>2. current_row_idx + 1 \in 1 .. Len(current_block_rows)
      <4>1. /\ current_row_idx \in Nat /\ Len(current_block_rows) \in Nat
            /\ current_row_idx < Len(current_block_rows)
        BY <2>2, Here
      <4> QED
        BY <4>1
    <3>3. /\ prefetched_start_idx \in Nat /\ Len(read) \in Nat /\ prefetched_count = Len(read)
          /\ \A k \in 1 .. Len(read) : read[k] = block_ids[prefetched_start_idx + k]
      <4>1. prefetched_start_idx \in Nat /\ read \in Seq(Nat)
        BY <2>0 DEF TypeOK
      <4>2. Len(read) \in Nat
        BY <4>1
      <4> QED
        BY <2>0, <4>1, <4>2 DEF Window
    <3>4. /\ current_block_idx - prefetched_start_idx + 1 \in 1 .. Len(read)
          /\ prefetched_start_idx + (current_block_idx - prefetched_start_idx + 1)
                = current_block_idx + 1
      BY <3>1, <3>3
    <3>5. ASSUME current_block_idx + 1 < Len(block_ids) PROVE OneBatch(current_block_idx + 1)
      <4>1. current_block_idx + 1 \in Nat
        BY <3>1
      <4> QED
        BY <2>0, <3>5, <4>1, BatchFound
    <3> QED
      BY <3>2, <3>3, <3>4, <3>5
  <2> QED
    BY <2>1, <2>2 DEF CanTurn
<1> QED
  BY <1>1, Invariance, PTL

(* Every row next_owned returns is one less of those written, so after     *)
(* that many calls there is only None.                                     *)
ReadsOn ==
    [][opened => \/ NextNone
                 \/ /\ written' = written /\ emitted' \in Nat
                    /\ written - emitted \in Nat /\ written' - emitted' \in Nat
                    /\ written' - emitted' < written - emitted]_vars

THEOREM ReadEnds == Spec => ReadsOn
<1>1. Inv /\ [Next]_vars =>
         [opened => \/ NextNone
                    \/ /\ written' = written /\ emitted' \in Nat
                       /\ written - emitted \in Nat /\ written' - emitted' \in Nat
                       /\ written' - emitted' < written - emitted]_vars
  <2> SUFFICES ASSUME Inv, Next, opened, ~NextNone
               PROVE  /\ written' = written /\ emitted' \in Nat
                      /\ written - emitted \in Nat /\ written' - emitted' \in Nat
                      /\ written' - emitted' < written - emitted
    OBVIOUS
  <2>1. NextOwned
    BY DEF Next, WriteRow, Finish, New
  <2>2. ~exhausted /\ emitted' = emitted + 1 /\ written' = written
    BY <2>1 DEF NextOwned, writer
  <2>3. emitted < written /\ emitted \in Nat /\ written \in Nat
    BY <2>2, Here
  <2> QED
    BY <2>2, <2>3
<1> QED
  BY <1>1, Invariance, PTL DEF Spec, ReadsOn
=============================================================================
