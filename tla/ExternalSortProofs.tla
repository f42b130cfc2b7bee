------------------------- MODULE ExternalSortProofs -------------------------
(***************************************************************************)
(* Proofs about ExternalSort: it gives its runs back once and all of them, *)
(* and it implements OperatorStream, for inputs of any length, rows of any *)
(* size and any budget, and always goes on to its end.                     *)
(***************************************************************************)
EXTENDS ExternalSort, FiniteSetTheorems, WellFoundedInduction, TLAPS

Distinct(s)  == \A i, j \in 1 .. Len(s) : s[i] = s[j] => i = j
Ascending(s) == \A i, j \in 1 .. Len(s) : i < j => s[i].key <= s[j].key
Spilled      == UNION { ToSet(runs[k]) : k \in 1 .. Len(runs) }

(* A row is in one place only: the input, the buffer, the overflow row or  *)
(* one run, or once in what is sorted in memory.                           *)
OnePlace ==
    /\ Distinct(input) /\ Distinct(sorted_rows)
    /\ \A k \in 1 .. Len(runs) : Distinct(runs[k])
    /\ \A k, l \in 1 .. Len(runs) : k # l => ToSet(runs[k]) \cap ToSet(runs[l]) = {}
    /\ ToSet(input) \cap (all_rows \cup overflow_row \cup Spilled) = {}
    /\ all_rows \cap overflow_row = {}
    /\ (all_rows \cup overflow_row) \cap Spilled = {}

Arranged ==
    /\ Ascending(sorted_rows) /\ \A k \in 1 .. Len(runs) : Ascending(runs[k])
    /\ IsFiniteSet(all_rows) /\ IsFiniteSet(overflow_row)

(* Which places are empty in which phase.                                  *)
Phased ==
    /\ phase # "spill" => overflow_row = {}
    /\ phase \in {"fill", "spill", "open"} =>
          /\ sorted_rows = <<>> /\ heap = {} /\ ~done
          /\ \A k \in 1 .. Len(runs) : pos[k] = 0 /\ k \in owned
    /\ phase = "spill" => all_rows # {}
    /\ phase \in {"open", "memory", "merge", "dropped"} => input = <<>> /\ all_rows = {}
    /\ phase = "memory" => runs = <<>> /\ heap = {}
    /\ phase = "merge" => sorted_rows = <<>> /\ \A e \in heap : e.run \in owned
    /\ phase = "memory" /\ done => sorted_rows = <<>>
    /\ phase = "merge" /\ done => heap = {}
    /\ \A k \in 1 .. Len(runs) : pos[k] <= Len(runs[k])
    /\ phase = "merge" => \A k \in 1 .. Len(runs) : pos[k] >= 1

Inv == /\ TypeOK /\ OnePlace /\ Arranged /\ Phased
       /\ FreedOnce /\ HeapCoversRuns

-----------------------------------------------------------------------------
(* Sequences as the proofs use them.                                       *)
LEMMA HeadAndTail ==
    ASSUME NEW S, NEW s \in Seq(S), s # <<>>
    PROVE  /\ Head(s) = s[1] /\ Head(s) \in S /\ Len(s) \in Nat /\ Len(s) >= 1
           /\ Tail(s) \in Seq(S) /\ Len(Tail(s)) = Len(s) - 1
           /\ \A i \in 1 .. Len(Tail(s)) : Tail(s)[i] = s[i + 1]
           /\ ToSet(s) = {Head(s)} \cup ToSet(Tail(s))
<1>1. /\ Head(s) = s[1] /\ Len(s) \in Nat /\ Len(s) >= 1
      /\ Tail(s) \in Seq(S) /\ Len(Tail(s)) = Len(s) - 1
      /\ \A i \in 1 .. Len(Tail(s)) : Tail(s)[i] = s[i + 1]
  OBVIOUS
<1>2. s[1] \in S /\ DOMAIN s = 1 .. Len(s) /\ DOMAIN Tail(s) = 1 .. Len(Tail(s))
  BY <1>1
<1>3. ToSet(s) \subseteq {Head(s)} \cup ToSet(Tail(s))
  <2> SUFFICES ASSUME NEW i \in 1 .. Len(s), i # 1 PROVE s[i] \in ToSet(Tail(s))
    BY <1>1, <1>2 DEF ToSet
  <2>1. i - 1 \in 1 .. Len(Tail(s)) /\ Tail(s)[i - 1] = s[i]
    BY <1>1
  <2> QED
    BY <1>2, <2>1 DEF ToSet
<1>4. ToSet(Tail(s)) \subseteq ToSet(s)
  BY <1>1, <1>2 DEF ToSet
<1> QED
  BY <1>1, <1>2, <1>3, <1>4 DEF ToSet

(* The head of a sequence without repetitions is not in its tail, and what *)
(* is distinct or ascending stays so.                                      *)
LEMMA TailOf ==
    ASSUME NEW S, NEW s \in Seq(S), s # <<>>
    PROVE  /\ Distinct(s) => Head(s) \notin ToSet(Tail(s)) /\ Distinct(Tail(s))
           /\ Ascending(s) => /\ Ascending(Tail(s))
                              /\ \A r \in ToSet(Tail(s)) : Head(s).key <= r.key
<1>1. /\ Head(s) = s[1] /\ Len(s) \in Nat /\ Len(s) >= 1 /\ Len(Tail(s)) = Len(s) - 1
      /\ \A i \in 1 .. Len(Tail(s)) : Tail(s)[i] = s[i + 1]
      /\ Tail(s) \in Seq(S)
  BY HeadAndTail
<1>2. DOMAIN Tail(s) = 1 .. Len(Tail(s))
  BY <1>1
<1>3. \A i \in 1 .. Len(Tail(s)) : i + 1 \in 1 .. Len(s) /\ i + 1 > 1
  BY <1>1
<1>4. \A r \in ToSet(Tail(s)) : \E i \in 1 .. Len(Tail(s)) : r = s[i + 1]
  BY <1>1, <1>2 DEF ToSet
<1>5. 1 \in 1 .. Len(s)
  BY <1>1
<1>6. ASSUME Distinct(s) PROVE Head(s) \notin ToSet(Tail(s)) /\ Distinct(Tail(s))
  <2>1. Distinct(Tail(s))
    <3> SUFFICES ASSUME NEW i \in 1 .. Len(Tail(s)), NEW j \in 1 .. Len(Tail(s)),
                        Tail(s)[i] = Tail(s)[j]
                 PROVE  i = j
      BY DEF Distinct
    <3>1. s[i + 1] = s[j + 1]
      BY <1>1
    <3>2. i + 1 = j + 1
      BY <1>3, <1>6, <3>1 DEF Distinct
    <3> QED
      BY <3>2
  <2>2. \A i \in 1 .. Len(Tail(s)) : s[i + 1] # s[1]
    BY <1>3, <1>5, <1>6 DEF Distinct
  <2> QED
    BY <1>1, <1>4, <2>1, <2>2
<1>7. ASSUME Ascending(s)
      PROVE  Ascending(Tail(s)) /\ \A r \in ToSet(Tail(s)) : Head(s).key <= r.key
  <2>1. \A i \in 1 .. Len(Tail(s)) : s[1].key <= s[i + 1].key
    BY <1>3, <1>5, <1>7 DEF Ascending
  <2>2. Ascending(Tail(s))
    BY <1>1, <1>3, <1>7 DEF Ascending
  <2> QED
    BY <1>1, <1>4, <2>1, <2>2
<1> QED
  BY <1>6, <1>7

LEMMA ElementOf ==
    ASSUME NEW S, NEW s \in Seq(S), NEW i \in 1 .. Len(s)
    PROVE  s[i] \in S /\ DOMAIN s = 1 .. Len(s) /\ s[i] \in ToSet(s)
BY DEF ToSet

LEMMA FunctionIsSeq ==
    ASSUME NEW n \in Nat, NEW S, NEW f \in [1 .. n -> S]
    PROVE  f \in Seq(S) /\ Len(f) = n
OBVIOUS

LEMMA Elements ==
    ASSUME NEW S, NEW s \in Seq(S)
    PROVE  ToSet(s) \subseteq S /\ DOMAIN s = 1 .. Len(s) /\ Len(s) \in Nat
BY DEF ToSet

(* An arrangement of a finite set of rows has each of them once.           *)
LEMMA Arrangement ==
    ASSUME NEW rows, rows \subseteq Row, IsFiniteSet(rows), NEW s \in SortedSeqs(rows)
    PROVE  /\ s \in Seq(Row) /\ ToSet(s) = rows /\ Distinct(s) /\ Ascending(s)
           /\ rows # {} => s # <<>>
<1> DEFINE n == Cardinality(rows)
<1>1. n \in Nat
  BY FS_CardinalityType
<1>2. s \in [1 .. n -> rows] /\ ToSet(s) = rows /\ DOMAIN s = 1 .. n
  BY DEF SortedSeqs
<1>3. s \in Seq(Row) /\ Len(s) = n
  BY <1>1, <1>2
<1>4. Ascending(s)
  BY <1>2, <1>3 DEF SortedSeqs, Ascending
<1>5. IsFiniteSet(1 .. n) /\ Cardinality(1 .. n) = n
  BY <1>1, FS_Interval
<1>6. s \in Surjection(1 .. n, rows)
  BY <1>2 DEF Surjection, ToSet
<1>7. s \in Injection(1 .. n, rows)
  BY <1>5, <1>6, FS_SurjSameCardinalityImpliesInj
<1>8. Distinct(s)
  BY <1>3, <1>7 DEF Injection, IsInjective, Distinct
<1>9. rows # {} => s # <<>>
  <2> SUFFICES ASSUME s = <<>> PROVE rows = {}
    OBVIOUS
  <2>1. n = 0
    BY <1>1, <1>3
  <2> QED
    BY <1>1, <1>2, <2>1 DEF ToSet
<1> QED
  BY <1>2, <1>3, <1>4, <1>8, <1>9

-----------------------------------------------------------------------------
LEMMA InitInv == Init => Inv
<1> SUFFICES ASSUME Init PROVE Inv
  OBVIOUS
<1>0. PICK n \in 0 .. MaxRows :
         \E key \in [1 .. n -> Keys], bytes \in [1 .. n -> RowBytes] :
            input = [i \in 1 .. n |-> [id |-> i, key |-> key[i], bytes |-> bytes[i]]]
  BY DEF Init
<1>1. PICK key \in [1 .. n -> Keys], bytes \in [1 .. n -> RowBytes] :
         input = [i \in 1 .. n |-> [id |-> i, key |-> key[i], bytes |-> bytes[i]]]
  BY <1>0
<1>2. n \in Nat /\ \A i \in 1 .. n : input[i] \in Row /\ input[i].id = i
  BY <1>1, SortAssumption DEF Row
<1>3. input \in Seq(Row) /\ Len(input) = n
  BY <1>1, <1>2
<1>4. Distinct(input)
  BY <1>2, <1>3 DEF Distinct
<1>5. /\ Len(runs) = 0 /\ runs = <<>> /\ DOMAIN runs = {} /\ DOMAIN pos = {} /\ DOMAIN freed = {}
      /\ sorted_rows = <<>> /\ Len(sorted_rows) = 0
  BY DEF Init
<1>6. TypeOK
  <2>1. runs \in Seq(Seq(Row) \ {<<>>}) /\ sorted_rows \in Seq(Row)
    BY <1>5
  <2>2. pos \in [DOMAIN runs -> Nat] /\ freed \in [DOMAIN runs -> Nat]
    BY <1>5 DEF Init
  <2> QED
    BY <1>3, <2>1, <2>2 DEF Init, TypeOK
<1>7. OnePlace
  <2>1. Spilled = {}
    BY <1>5 DEF Spilled
  <2> QED
    BY <1>4, <1>5, <2>1 DEF Init, OnePlace, Distinct
<1>8. Arranged
  BY <1>5, FS_EmptySet DEF Init, Arranged, Ascending
<1>9. Phased
  BY <1>5 DEF Init, Phased
<1> QED
  BY <1>5, <1>6, <1>7, <1>8, <1>9 DEF Inv, Init, FreedOnce, HeapCoversRuns

(* What Inv says of the types.                                             *)
LEMMA Typed ==
    ASSUME Inv
    PROVE  /\ input \in Seq(Row) /\ sorted_rows \in Seq(Row)
           /\ DOMAIN runs = 1 .. Len(runs) /\ Len(runs) \in Nat
           /\ pos \in [1 .. Len(runs) -> Nat] /\ freed \in [1 .. Len(runs) -> Nat]
           /\ \A k \in 1 .. Len(runs) : /\ runs[k] \in Seq(Row) /\ runs[k] # <<>>
                                        /\ Len(runs[k]) \in Nat /\ Len(runs[k]) >= 1
           /\ \A r \in Row : r.key \in Int
           /\ Spilled \subseteq Row
<1>1. runs \in Seq(Seq(Row) \ {<<>>})
  BY DEF Inv, TypeOK
<1>2. DOMAIN runs = 1 .. Len(runs) /\ Len(runs) \in Nat
  BY <1>1
<1>3. \A k \in 1 .. Len(runs) : runs[k] \in Seq(Row) /\ runs[k] # <<>>
  BY <1>1
<1>4. \A k \in 1 .. Len(runs) : Len(runs[k]) \in Nat /\ Len(runs[k]) >= 1
  BY <1>3, HeadAndTail
<1>5. \A r \in Row : r.key \in Int
  BY SortAssumption DEF Row
<1>6. Spilled \subseteq Row
  BY <1>3, Elements DEF Spilled
<1> QED
  BY <1>2, <1>3, <1>4, <1>5, <1>6 DEF Inv, TypeOK

LEMMA FillInv ==
    ASSUME Inv, FillRow \/ FillOverflow
    PROVE  Inv'
<1> DEFINE r == Head(input)
<1>1. /\ input # <<>> /\ phase = "fill" /\ input' = Tail(input) /\ overflow_row = {}
      /\ UNCHANGED <<runs, pos, owned, freed, sorted_rows, heap, out, done>>
  BY DEF FillRow, FillOverflow, Inv, Phased
<1>2. /\ r \in Row /\ input' \in Seq(Row) /\ ToSet(input) = {r} \cup ToSet(input')
      /\ r \notin ToSet(input') /\ Distinct(input')
  BY <1>1, HeadAndTail, TailOf, Typed DEF Inv, OnePlace
<1>3. r \notin all_rows /\ r \notin Spilled
  BY <1>2 DEF Inv, OnePlace
<1>4. \/ phase' = "fill" /\ all_rows' = all_rows \cup {r} /\ overflow_row' = {}
      \/ phase' = "spill" /\ all_rows' = all_rows /\ overflow_row' = {r} /\ all_rows # {}
  BY <1>1 DEF FillRow, FillOverflow, Fits
<1>b. buffered_bytes' \in Nat
  <2>1. buffered_bytes \in Nat /\ r.bytes \in Nat
    BY <1>2, SortAssumption DEF Inv, TypeOK, Row
  <2>2. buffered_bytes' = buffered_bytes + r.bytes \/ buffered_bytes' = buffered_bytes
    BY DEF FillRow, FillOverflow
  <2> QED
    BY <2>1, <2>2
<1>5. TypeOK'
  BY <1>1, <1>2, <1>4, <1>b DEF Inv, TypeOK
<1>6. Spilled' = Spilled
  BY <1>1 DEF Spilled
<1>7. OnePlace'
  BY <1>1, <1>2, <1>3, <1>4, <1>6 DEF Inv, OnePlace
<1>8. IsFiniteSet(all_rows') /\ IsFiniteSet(overflow_row')
  <2>1. IsFiniteSet(all_rows) /\ IsFiniteSet({}) /\ IsFiniteSet({r})
    BY FS_EmptySet, FS_Singleton DEF Inv, Arranged
  <2>2. IsFiniteSet(all_rows \cup {r})
    BY <2>1, FS_AddElement
  <2> QED
    BY <1>4, <2>1, <2>2
<1>9. Arranged'
  BY <1>1, <1>8 DEF Inv, Arranged
<1>10. Phased'
  BY <1>1, <1>4 DEF Inv, Phased
<1> QED
  BY <1>1, <1>4, <1>5, <1>7, <1>9, <1>10 DEF Inv, FreedOnce, HeapCoversRuns

LEMMA FillEndInv == Inv /\ FillEnd => Inv'
<1> SUFFICES ASSUME Inv, FillEnd PROVE Inv'
  OBVIOUS
<1>1. CASE runs = <<>> /\ phase' = "memory"
  <2>1. /\ sorted_rows' \in SortedSeqs(all_rows) /\ all_rows' = {} /\ input = <<>> /\ overflow_row = {}
        /\ UNCHANGED <<input, buffered_bytes, overflow_row, runs, pos, owned, freed, heap, out, done>>
        /\ heap = {} /\ ~done /\ Len(runs) = 0
    BY <1>1 DEF FillEnd, Inv, Phased
  <2>2. sorted_rows' \in Seq(Row) /\ Distinct(sorted_rows') /\ Ascending(sorted_rows')
    BY <2>1, Arrangement DEF Inv, TypeOK, Arranged
  <2>3. TypeOK'
    BY <1>1, <2>1, <2>2 DEF Inv, TypeOK
  <2>4. OnePlace'
    BY <1>1, <2>1, <2>2 DEF Inv, OnePlace, Spilled
  <2>5. Arranged'
    BY <2>1, <2>2, FS_EmptySet DEF Inv, Arranged
  <2>6. Phased'
    BY <1>1, <2>1 DEF Inv, Phased
  <2> QED
    BY <1>1, <2>1, <2>3, <2>4, <2>5, <2>6 DEF Inv, FreedOnce, HeapCoversRuns
<1>2. CASE runs # <<>> /\ phase' \in {"open", "spill"}
  <2>1. /\ phase = "fill" /\ input = <<>> /\ phase' = IF all_rows = {} THEN "open" ELSE "spill"
        /\ UNCHANGED <<input, all_rows, buffered_bytes, overflow_row, runs, pos, owned, freed, sorted_rows,
                       heap, out, done>>
    BY <1>2 DEF FillEnd
  <2>2. TypeOK'
    BY <2>1 DEF Inv, TypeOK
  <2>3. OnePlace' /\ Arranged'
    BY <2>1 DEF Inv, OnePlace, Arranged, Spilled
  <2>4. Phased'
    BY <2>1 DEF Inv, Phased
  <2> QED
    BY <2>1, <2>2, <2>3, <2>4 DEF Inv, FreedOnce, HeapCoversRuns
<1> QED
  BY <1>1, <1>2 DEF FillEnd

(* Spilling gives every row of the buffer a place in the new run.          *)
LEMMA SpillInv == Inv /\ Spill => Inv'
<1> SUFFICES ASSUME Inv, Spill PROVE Inv'
  OBVIOUS
<1> DEFINE n == Len(runs)
<1>t. /\ input \in Seq(Row) /\ sorted_rows \in Seq(Row) /\ n \in Nat /\ DOMAIN runs = 1 .. n
      /\ pos \in [1 .. n -> Nat] /\ freed \in [1 .. n -> Nat]
      /\ \A k \in 1 .. n : runs[k] \in Seq(Row) /\ runs[k] # <<>> /\ Len(runs[k]) >= 1
  BY Typed
<1>1. PICK s \in SortedSeqs(all_rows) : runs' = Append(runs, s)
  BY DEF Spill
<1>2. /\ phase = "spill" /\ phase' = "fill" /\ pos' = Append(pos, 0) /\ freed' = Append(freed, 0)
      /\ owned' = owned \cup {n + 1} /\ all_rows' = overflow_row /\ overflow_row' = {}
      /\ UNCHANGED <<input, sorted_rows, heap, out, done>>
      /\ sorted_rows = <<>> /\ heap = {} /\ ~done /\ all_rows # {}
  BY DEF Spill, Inv, Phased
<1>3. s \in Seq(Row) /\ ToSet(s) = all_rows /\ Distinct(s) /\ Ascending(s) /\ s # <<>>
  BY <1>2, Arrangement DEF Inv, TypeOK, Arranged
<1>4. /\ runs' \in Seq(Seq(Row) \ {<<>>}) /\ Len(runs') = n + 1 /\ DOMAIN runs' = 1 .. n + 1
      /\ runs'[n + 1] = s /\ \A k \in 1 .. n : runs'[k] = runs[k]
  BY <1>1, <1>3, <1>t DEF Inv, TypeOK
<1>5. /\ pos' \in [1 .. n + 1 -> Nat] /\ pos'[n + 1] = 0 /\ \A k \in 1 .. n : pos'[k] = pos[k]
      /\ freed' \in [1 .. n + 1 -> Nat] /\ freed'[n + 1] = 0
      /\ \A k \in 1 .. n : freed'[k] = freed[k]
  <2>1. pos \in Seq(Nat) /\ freed \in Seq(Nat) /\ Len(pos) = n /\ Len(freed) = n
    BY <1>t, FunctionIsSeq
  <2>2. pos' \in Seq(Nat) /\ Len(pos') = n + 1 /\ pos'[n + 1] = 0 /\ \A k \in 1 .. n : pos'[k] = pos[k]
    BY <1>2, <2>1
  <2>3. /\ freed' \in Seq(Nat) /\ Len(freed') = n + 1 /\ freed'[n + 1] = 0
        /\ \A k \in 1 .. n : freed'[k] = freed[k]
    BY <1>2, <2>1
  <2> QED
    BY <2>2, <2>3
<1>6. Spilled' = Spilled \cup all_rows
  <2>1. \A k \in 1 .. n + 1 : k \in 1 .. n \/ k = n + 1
    BY <1>t
  <2>2. \A k \in 1 .. n : ToSet(runs'[k]) = ToSet(runs[k])
    BY <1>4
  <2>3. \A k \in 1 .. n : k \in 1 .. n + 1
    BY <1>t
  <2>4. n + 1 \in 1 .. n + 1
    BY <1>t
  <2> QED
    BY <1>3, <1>4, <2>1, <2>2, <2>3, <2>4 DEF Spilled
<1>b. buffered_bytes' \in Nat
  <2>1. \A r \in overflow_row : r.bytes \in Nat
    BY SortAssumption DEF Inv, TypeOK, Row
  <2> QED
    BY <2>1 DEF Spill
<1>7. TypeOK'
  BY <1>2, <1>4, <1>5, <1>b, <1>t DEF Inv, TypeOK
<1>8. OnePlace'
  <2>1. \A k \in 1 .. n + 1 : k \in 1 .. n \/ k = n + 1
    BY <1>t
  <2>2. \A k \in 1 .. n : ToSet(runs[k]) \subseteq Spilled
    BY DEF Spilled
  <2>3. all_rows \cap Spilled = {} /\ all_rows \cap overflow_row = {}
        /\ overflow_row \cap Spilled = {} /\ ToSet(input) \cap (all_rows \cup overflow_row \cup Spilled) = {}
    BY DEF Inv, OnePlace
  <2>4. \A k \in 1 .. n + 1 : Distinct(runs'[k])
    BY <1>3, <1>4, <2>1 DEF Inv, OnePlace
  <2>5. \A k, l \in 1 .. n + 1 : k # l => ToSet(runs'[k]) \cap ToSet(runs'[l]) = {}
    <3>1. \A k, l \in 1 .. n : k # l => ToSet(runs[k]) \cap ToSet(runs[l]) = {}
      BY DEF Inv, OnePlace
    <3>2. \A k \in 1 .. n : ToSet(runs[k]) \cap ToSet(s) = {}
      BY <1>3, <2>2, <2>3
    <3> QED
      BY <1>4, <2>1, <3>1, <3>2
  <2>6. Distinct(input') /\ Distinct(sorted_rows')
    BY <1>2 DEF Inv, OnePlace
  <2> QED
    BY <1>2, <1>4, <1>6, <2>3, <2>4, <2>5, <2>6 DEF OnePlace
<1>9. Arranged'
  <2>1. \A k \in 1 .. n + 1 : Ascending(runs'[k])
    <3>1. \A k \in 1 .. n : Ascending(runs[k])
      BY DEF Inv, Arranged
    <3>2. \A k \in 1 .. n + 1 : k \in 1 .. n \/ k = n + 1
      BY <1>t
    <3> QED
      BY <1>3, <1>4, <3>1, <3>2
  <2> QED
    BY <1>2, <1>4, <2>1, FS_EmptySet DEF Inv, Arranged
<1>10. Phased'
  <2>1. \A k \in 1 .. n + 1 : pos'[k] = 0 /\ k \in owned'
    BY <1>2, <1>5, <1>t DEF Inv, Phased
  <2>2. \A k \in 1 .. n + 1 : pos'[k] <= Len(runs'[k])
    BY <1>4, <1>7, <2>1 DEF TypeOK
  <2> QED
    BY <1>2, <1>4, <2>1, <2>2 DEF Inv, Phased
<1>11. FreedOnce'
  <2>1. owned \subseteq 1 .. n /\ \A k \in 1 .. n : freed[k] = 0 /\ k \in owned
    BY <1>2, <1>t DEF Inv, TypeOK, FreedOnce, Phased
  <2>2. \A k \in 1 .. n + 1 : freed'[k] = 0 /\ k \in owned'
    BY <1>2, <1>5, <1>t, <2>1
  <2> QED
    BY <1>2, <1>4, <2>2 DEF FreedOnce
<1> QED
  BY <1>2, <1>7, <1>8, <1>9, <1>10, <1>11 DEF Inv, FreedOnce, HeapCoversRuns

LEMMA OpenMergeInv == Inv /\ OpenMerge => Inv'
<1> SUFFICES ASSUME Inv, OpenMerge PROVE Inv'
  OBVIOUS
<1> DEFINE n == Len(runs)
<1>t. /\ n \in Nat /\ DOMAIN runs = 1 .. n
      /\ \A k \in 1 .. n : /\ runs[k] \in Seq(Row) /\ runs[k] # <<>>
                          /\ Len(runs[k]) \in Nat /\ Len(runs[k]) >= 1
  BY Typed
<1>1. /\ phase = "open" /\ phase' = "merge"
      /\ UNCHANGED <<input, all_rows, buffered_bytes, overflow_row, runs, owned, freed, sorted_rows, out, done>>
      /\ sorted_rows = <<>> /\ overflow_row = {} /\ input = <<>> /\ all_rows = {} /\ ~done
      /\ \A k \in 1 .. n : k \in owned
  BY DEF OpenMerge, Inv, Phased
<1>2. pos' = [k \in 1 .. n |-> 1]
  BY <1>t DEF OpenMerge
<1>3. heap' = { [row |-> runs[k][1], run |-> k] : k \in 1 .. n }
  <2>1. { i \in DOMAIN runs : runs[i] # <<>> } = 1 .. n
    BY <1>t
  <2> QED
    BY <2>1 DEF OpenMerge
<1>4. \A k \in 1 .. n : runs[k][1] \in Row
  BY <1>t, ElementOf
<1>5. TypeOK'
  <2>1. heap' \subseteq [row : Row, run : 1 .. n]
    BY <1>3, <1>4
  <2>2. pos' \in [1 .. n -> Nat]
    BY <1>2
  <2> QED
    BY <1>1, <1>t, <2>1, <2>2 DEF Inv, TypeOK
<1>6. OnePlace' /\ Arranged'
  <2>1. Spilled' = Spilled
    BY <1>1 DEF Spilled
  <2> QED
    BY <1>1, <2>1 DEF Inv, OnePlace, Arranged
<1>7. Phased'
  BY <1>1, <1>2, <1>3, <1>t DEF Inv, Phased
<1>8. FreedOnce'
  BY <1>1, <1>t DEF Inv, FreedOnce
<1>9. HeapCoversRuns'
  <2> SUFFICES ASSUME NEW k \in 1 .. n
               PROVE  \E e \in heap' : /\ e.run = k /\ e.row = runs[k][1]
                                       /\ \A x \in heap' : x.run = k => x = e
    BY <1>1, <1>2, <1>t DEF HeapCoversRuns
  <2>1. [row |-> runs[k][1], run |-> k] \in heap'
    BY <1>3
  <2>2. \A x \in heap' : x.run = k => x = [row |-> runs[k][1], run |-> k]
    BY <1>3
  <2> QED
    BY <2>1, <2>2
<1> QED
  BY <1>1, <1>5, <1>6, <1>7, <1>8, <1>9 DEF Inv, FreedOnce

LEMMA NextInMemoryInv == Inv /\ NextInMemory => Inv'
<1> SUFFICES ASSUME Inv, NextInMemory PROVE Inv'
  OBVIOUS
<1>1. /\ phase = "memory" /\ sorted_rows # <<>> /\ out' = {Head(sorted_rows)}
      /\ sorted_rows' = Tail(sorted_rows)
      /\ UNCHANGED <<input, phase, all_rows, buffered_bytes, overflow_row, runs, pos, owned, freed, heap, done>>
  BY DEF NextInMemory
<1>2. Head(sorted_rows) \in Row /\ sorted_rows' \in Seq(Row)
  BY <1>1, HeadAndTail, Typed
<1>3. Distinct(sorted_rows') /\ Ascending(sorted_rows')
  BY <1>1, TailOf, Typed DEF Inv, OnePlace, Arranged
<1>4. TypeOK'
  BY <1>1, <1>2 DEF Inv, TypeOK
<1>5. OnePlace' /\ Arranged'
  <2>1. Spilled' = Spilled
    BY <1>1 DEF Spilled
  <2> QED
    BY <1>1, <1>3, <2>1 DEF Inv, OnePlace, Arranged
<1>6. Phased'
  BY <1>1 DEF Inv, Phased
<1> QED
  BY <1>1, <1>4, <1>5, <1>6 DEF Inv, FreedOnce, HeapCoversRuns

LEMMA NextNoneInv == Inv /\ NextNone => Inv'
<1> SUFFICES ASSUME Inv, NextNone PROVE Inv'
  OBVIOUS
<1>1. /\ done' = TRUE
      /\ \/ phase = "memory" /\ sorted_rows = <<>>
         \/ phase = "merge" /\ heap = {}
      /\ UNCHANGED <<input, phase, all_rows, buffered_bytes, overflow_row, runs, pos, owned, freed, sorted_rows,
                     heap, out>>
  BY DEF NextNone
<1>2. TypeOK'
  BY <1>1 DEF Inv, TypeOK
<1>3. OnePlace' /\ Arranged'
  <2>1. Spilled' = Spilled
    BY <1>1 DEF Spilled
  <2> QED
    BY <1>1, <2>1 DEF Inv, OnePlace, Arranged
<1>4. Phased'
  BY <1>1 DEF Inv, Phased
<1> QED
  BY <1>1, <1>2, <1>3, <1>4 DEF Inv, FreedOnce, HeapCoversRuns

(* Release gives back each run of the set once.                            *)
LEMMA DropInv == Inv /\ Drop => Inv'
<1> SUFFICES ASSUME Inv, Drop PROVE Inv'
  OBVIOUS
<1>1. /\ phase \in {"memory", "merge"} /\ phase' = "dropped" /\ owned' = {}
      /\ freed' = [k \in DOMAIN freed |-> IF k \in owned THEN freed[k] + 1 ELSE freed[k]]
      /\ UNCHANGED <<input, all_rows, buffered_bytes, overflow_row, runs, pos, sorted_rows, heap, out, done>>
  BY DEF Drop, Release
<1>2. DOMAIN runs = 1 .. Len(runs) /\ freed \in [1 .. Len(runs) -> Nat]
  BY Typed
<1>3. freed' \in [1 .. Len(runs) -> Nat]
  BY <1>1, <1>2
<1>4. TypeOK'
  BY <1>1, <1>2, <1>3 DEF Inv, TypeOK
<1>5. OnePlace' /\ Arranged'
  BY <1>1 DEF Inv, OnePlace, Arranged, Spilled
<1>6. Phased'
  BY <1>1 DEF Inv, Phased
<1>7. FreedOnce'
  BY <1>1, <1>2 DEF Inv, FreedOnce
<1> QED
  BY <1>1, <1>4, <1>5, <1>6, <1>7 DEF Inv, FreedOnce, HeapCoversRuns

(* During the merge the heap holds the current row of each owned run.      *)
LEMMA HeapEntry ==
    ASSUME Inv, phase = "merge", NEW e \in heap
    PROVE  /\ e.run \in owned /\ e.run \in 1 .. Len(runs) /\ e.row \in Row
           /\ pos[e.run] \in 1 .. Len(runs[e.run]) /\ e.row = runs[e.run][pos[e.run]]
           /\ \A x \in heap : x.run = e.run => x = e
<1>1. e.run \in owned /\ e.run \in 1 .. Len(runs) /\ e.row \in Row
  BY Typed DEF Inv, TypeOK, Phased
<1>2. PICK y \in heap : /\ y.run = e.run /\ y.row = runs[e.run][pos[e.run]]
                        /\ \A x \in heap : x.run = e.run => x = y
  BY <1>1, Typed DEF Inv, HeapCoversRuns
<1>3. e = y
  BY <1>2
<1>4. pos[e.run] \in Nat /\ pos[e.run] >= 1 /\ pos[e.run] <= Len(runs[e.run])
  BY <1>1, Typed DEF Inv, Phased
<1>5. Len(runs[e.run]) \in Nat
  BY <1>1, Typed
<1>6. pos[e.run] \in 1 .. Len(runs[e.run])
  BY <1>4, <1>5
<1> QED
  BY <1>1, <1>2, <1>3, <1>6

(* The two cases of a merge step, for the run of the top entry.            *)
Advances(e) ==
    /\ pos[e.run] < Len(runs[e.run])
    /\ heap' = (heap \ {e}) \cup {[row |-> runs[e.run][pos[e.run] + 1], run |-> e.run]}
    /\ pos' = [pos EXCEPT ![e.run] = pos[e.run] + 1]
    /\ UNCHANGED <<owned, freed>>

Finishes(e) ==
    /\ pos[e.run] = Len(runs[e.run])
    /\ heap' = heap \ {e}
    /\ pos' = pos
    /\ owned' = owned \ {e.run}
    /\ freed' = [k \in 1 .. Len(runs) |-> IF k = e.run THEN freed[k] + 1 ELSE freed[k]]

LEMMA MergeStep ==
    ASSUME Inv, NextMerged
    PROVE  /\ phase = "merge"
           /\ UNCHANGED <<input, phase, all_rows, buffered_bytes, overflow_row, runs, sorted_rows, done>>
           /\ \E e \in heap : IsTop(e) /\ out' = {e.row} /\ (Advances(e) \/ Finishes(e))
<1>1. /\ phase = "merge"
      /\ UNCHANGED <<input, phase, all_rows, buffered_bytes, overflow_row, runs, sorted_rows, done>>
  BY DEF NextMerged
<1>2. PICK e \in heap :
         /\ IsTop(e) /\ out' = {e.row}
         /\ \/ /\ pos[e.run] < Len(runs[e.run])
               /\ heap' = (heap \ {e}) \cup {[row |-> runs[e.run][pos[e.run] + 1], run |-> e.run]}
               /\ pos' = [pos EXCEPT ![e.run] = pos[e.run] + 1]
               /\ UNCHANGED <<owned, freed>>
            \/ /\ pos[e.run] = Len(runs[e.run])
               /\ heap' = heap \ {e}
               /\ Release({e.run} \cap owned)
               /\ UNCHANGED pos
  BY DEF NextMerged
<1>3. CASE pos[e.run] < Len(runs[e.run])
  <2>1. e.run \in 1 .. Len(runs)
    BY <1>1, HeapEntry
  <2>2. pos[e.run] # Len(runs[e.run])
    BY <1>3, <2>1, Typed
  <2> QED
    BY <1>1, <1>2, <1>3, <2>2 DEF Advances
<1>4. CASE ~(pos[e.run] < Len(runs[e.run]))
  <2>1. e.run \in owned /\ DOMAIN freed = 1 .. Len(runs)
    BY <1>1, HeapEntry, Typed
  <2>2. {e.run} \cap owned = {e.run}
    BY <2>1
  <2>3. /\ owned' = owned \ {e.run}
        /\ freed' = [k \in 1 .. Len(runs) |-> IF k \in {e.run} THEN freed[k] + 1 ELSE freed[k]]
        /\ pos[e.run] = Len(runs[e.run]) /\ heap' = heap \ {e} /\ pos' = pos
    BY <1>2, <1>4, <2>1, <2>2 DEF Release
  <2> QED
    BY <1>1, <1>2, <2>3 DEF Finishes
<1> QED
  BY <1>3, <1>4

LEMMA NextMergedInv == Inv /\ NextMerged => Inv'
<1> SUFFICES ASSUME Inv, NextMerged PROVE Inv'
  OBVIOUS
<1> DEFINE n == Len(runs)
<1>1. /\ phase = "merge"
      /\ UNCHANGED <<input, phase, all_rows, buffered_bytes, overflow_row, runs, sorted_rows, done>>
  BY MergeStep
<1>2. PICK e \in heap : IsTop(e) /\ out' = {e.row} /\ (Advances(e) \/ Finishes(e))
  BY MergeStep
<1> DEFINE k == e.run
<1>3. /\ k \in owned /\ k \in 1 .. n /\ e.row \in Row
      /\ pos[k] \in 1 .. Len(runs[k]) /\ \A x \in heap : x.run = k => x = e
  BY <1>1, HeapEntry
<1>t. /\ n \in Nat /\ DOMAIN runs = 1 .. n /\ pos \in [1 .. n -> Nat] /\ freed \in [1 .. n -> Nat]
      /\ \A l \in 1 .. n : runs[l] \in Seq(Row) /\ Len(runs[l]) \in Nat
  BY Typed
<1>4. OnePlace' /\ Arranged'
  <2>1. Spilled' = Spilled
    BY <1>1 DEF Spilled
  <2> QED
    BY <1>1, <2>1 DEF Inv, OnePlace, Arranged
<1>5. ~done
  BY <1>1, <1>2 DEF Inv, Phased
<1>6. CASE Advances(e)
  <2> DEFINE y == [row |-> runs[k][pos[k] + 1], run |-> k]
  <2>1. /\ pos[k] + 1 \in 1 .. Len(runs[k]) /\ heap' = (heap \ {e}) \cup {y}
        /\ pos' = [pos EXCEPT ![k] = pos[k] + 1] /\ owned' = owned /\ freed' = freed
    BY <1>3, <1>6, <1>t DEF Advances
  <2>2. y \in [row : Row, run : 1 .. n]
    BY <1>3, <1>t, <2>1, ElementOf
  <2>3. /\ pos' \in [1 .. n -> Nat] /\ pos'[k] = pos[k] + 1
        /\ \A l \in 1 .. n : l # k => pos'[l] = pos[l]
    BY <1>3, <1>t, <2>1
  <2>4. TypeOK'
    BY <1>1, <1>2, <1>3, <1>t, <2>1, <2>2, <2>3 DEF Inv, TypeOK
  <2>5. Phased'
    <3>1. \A x \in heap' : x.run \in owned'
      BY <1>1, <1>3, <2>1 DEF Inv, Phased
    <3>2. \A l \in 1 .. n : pos'[l] >= 1 /\ pos'[l] <= Len(runs[l])
      BY <1>1, <1>3, <1>t, <2>1, <2>3 DEF Inv, Phased
    <3> QED
      BY <1>1, <1>5, <3>1, <3>2 DEF Inv, Phased
  <2>6. FreedOnce'
    <3>1. \A l \in 1 .. n : pos'[l] < Len(runs[l]) => pos[l] < Len(runs[l])
      BY <1>3, <1>t, <2>3
    <3> QED
      BY <1>1, <1>t, <2>1, <3>1 DEF Inv, FreedOnce
  <2>7. HeapCoversRuns'
    <3> SUFFICES ASSUME NEW l \in 1 .. n
                 PROVE  IF l \in owned
                        THEN \E z \in heap' : /\ z.run = l /\ z.row = runs[l][pos'[l]]
                                              /\ \A x \in heap' : x.run = l => x = z
                        ELSE pos'[l] = Len(runs[l])
      BY <1>1, <1>t, <2>1 DEF HeapCoversRuns
    <3>1. CASE l = k
      <4>1. y \in heap' /\ y.run = l /\ y.row = runs[l][pos'[l]]
        BY <2>1, <2>3, <3>1
      <4>2. \A x \in heap' : x.run = l => x = y
        BY <1>3, <2>1, <3>1
      <4> QED
        BY <1>3, <3>1, <4>1, <4>2
    <3>2. CASE l # k /\ l \in owned
      <4>1. PICK z \in heap : /\ z.run = l /\ z.row = runs[l][pos[l]]
                              /\ \A x \in heap : x.run = l => x = z
        BY <1>1, <1>t, <3>2 DEF Inv, HeapCoversRuns
      <4>2. z \in heap' /\ z # y
        BY <2>1, <3>2, <4>1
      <4>3. \A x \in heap' : x.run = l => x = z
        BY <2>1, <3>2, <4>1
      <4> QED
        BY <2>3, <3>2, <4>1, <4>2, <4>3
    <3>3. CASE l # k /\ l \notin owned
      BY <1>1, <1>t, <2>3, <3>3 DEF Inv, HeapCoversRuns
    <3> QED
      BY <3>1, <3>2, <3>3
  <2> QED
    BY <1>1, <1>4, <2>4, <2>5, <2>6, <2>7 DEF Inv, FreedOnce
<1>7. CASE Finishes(e)
  <2>1. /\ pos[k] = Len(runs[k]) /\ heap' = heap \ {e} /\ pos' = pos /\ owned' = owned \ {k}
        /\ freed' = [l \in 1 .. n |-> IF l = k THEN freed[l] + 1 ELSE freed[l]]
    BY <1>7 DEF Finishes
  <2>2. freed' \in [1 .. n -> Nat]
    BY <1>t, <2>1
  <2>3. TypeOK'
    BY <1>1, <1>2, <1>3, <1>t, <2>1, <2>2 DEF Inv, TypeOK
  <2>4. Phased'
    <3>1. \A x \in heap' : x.run \in owned'
      BY <1>1, <1>3, <2>1 DEF Inv, Phased
    <3> QED
      BY <1>1, <1>5, <2>1, <3>1 DEF Inv, Phased
  <2>5. FreedOnce'
    <3>1. \A l \in 1 .. n : /\ freed[l] = IF l \in owned THEN 0 ELSE 1
                            /\ pos[l] < Len(runs[l]) => freed[l] = 0
      BY <1>1, <1>t DEF Inv, FreedOnce
    <3>2. \A l \in 1 .. n : /\ freed'[l] = IF l \in owned' THEN 0 ELSE 1
                            /\ pos'[l] < Len(runs[l]) => freed'[l] = 0
      BY <1>3, <1>t, <2>1, <3>1
    <3> QED
      BY <1>1, <1>t, <3>2 DEF FreedOnce
  <2>6. HeapCoversRuns'
    <3> SUFFICES ASSUME NEW l \in 1 .. n
                 PROVE  IF l \in owned'
                        THEN \E z \in heap' : /\ z.run = l /\ z.row = runs[l][pos[l]]
                                              /\ \A x \in heap' : x.run = l => x = z
                        ELSE pos[l] = Len(runs[l])
      BY <1>1, <1>t, <2>1 DEF HeapCoversRuns
    <3>1. CASE l = k
      BY <2>1, <3>1
    <3>2. CASE l # k
      BY <1>1, <1>t, <2>1, <3>2 DEF Inv, HeapCoversRuns
    <3> QED
      BY <3>1, <3>2
  <2> QED
    BY <1>1, <1>4, <2>3, <2>4, <2>5, <2>6 DEF Inv, FreedOnce
<1> QED
  BY <1>2, <1>6, <1>7

LEMMA NextInv == Inv /\ [Next]_vars => Inv'
<1> SUFFICES ASSUME Inv, [Next]_vars PROVE Inv'
  OBVIOUS
<1>1. CASE UNCHANGED vars
  <2>1. Spilled' = Spilled
    BY <1>1 DEF vars, Spilled
  <2>2. TypeOK'
    BY <1>1 DEF vars, Inv, TypeOK
  <2>3. OnePlace' /\ Arranged'
    BY <1>1, <2>1 DEF vars, Inv, OnePlace, Arranged
  <2>4. Phased'
    BY <1>1 DEF vars, Inv, Phased
  <2> QED
    BY <1>1, <2>2, <2>3, <2>4 DEF vars, Inv, FreedOnce, HeapCoversRuns
<1> QED
  BY <1>1, FillInv, FillEndInv, SpillInv, OpenMergeInv, NextInMemoryInv, NextMergedInv,
     NextNoneInv, DropInv DEF Next

(* Everything is of its type.                                              *)
THEOREM Types == Spec => []TypeOK
<1>1. Inv => TypeOK
  BY DEF Inv
<1> QED
  BY <1>1, InitInv, NextInv, PTL DEF Spec

(* No run is given back twice, or while rows are to be read from it, and   *)
(* none is left after the drop.                                            *)
THEOREM Frees == Spec => []FreedOnce
<1>1. Inv => FreedOnce
  BY DEF Inv
<1> QED
  BY <1>1, InitInv, NextInv, PTL DEF Spec

(* The merge forgets no run that has rows.                                 *)
THEOREM Covers == Spec => []HeapCoversRuns
<1>1. Inv => HeapCoversRuns
  BY DEF Inv
<1> QED
  BY <1>1, InitInv, NextInv, PTL DEF Spec

-----------------------------------------------------------------------------
(* The budget.  Bytes adds up the sizes of the rows.                       *)
Occupied(rows) == UNION { {r} \X (1 .. r.bytes) : r \in rows }

LEMMA OneRow ==
    ASSUME NEW r \in Row
    PROVE  Bytes({r}) = r.bytes /\ IsFiniteSet(Occupied({r})) /\ r.bytes \in Nat
<1>1. r.bytes \in Nat /\ r.bytes >= 1
  <2>1. r.bytes \in Nat \ {0}
    BY SortAssumption DEF Row
  <2> QED
    BY <2>1
<1>2. IsFiniteSet(1 .. r.bytes) /\ Cardinality(1 .. r.bytes) = r.bytes
  <2>1. 1 \in Int /\ r.bytes \in Int /\ ~(1 > r.bytes) /\ r.bytes - 1 + 1 = r.bytes
    BY <1>1
  <2>2. /\ IsFiniteSet(1 .. r.bytes)
        /\ Cardinality(1 .. r.bytes) = IF 1 > r.bytes THEN 0 ELSE r.bytes - 1 + 1
    BY <2>1, FS_Interval, Zenon
  <2> QED
    BY <2>1, <2>2
<1>3. IsFiniteSet({r}) /\ Cardinality({r}) = 1
  BY FS_Singleton
<1>4. /\ IsFiniteSet({r} \X (1 .. r.bytes))
      /\ Cardinality({r} \X (1 .. r.bytes)) = r.bytes
  <2>1. /\ IsFiniteSet({r} \X (1 .. r.bytes))
        /\ Cardinality({r} \X (1 .. r.bytes)) = Cardinality({r}) * Cardinality(1 .. r.bytes)
    BY <1>2, <1>3, FS_Product, Zenon
  <2>2. 1 * r.bytes = r.bytes
    BY <1>1
  <2> QED
    BY <1>2, <1>3, <2>1, <2>2
<1>5. Occupied({r}) = {r} \X (1 .. r.bytes)
  BY DEF Occupied
<1> QED
  BY <1>1, <1>4, <1>5 DEF Bytes, Occupied

LEMMA NoRow == Bytes({}) = 0
<1>1. UNION { {r} \X (1 .. r.bytes) : r \in {} } = {}
  OBVIOUS
<1> QED
  BY <1>1, FS_EmptySet DEF Bytes

LEMMA AddedRow ==
    ASSUME NEW rows, rows \subseteq Row, IsFiniteSet(rows), NEW h \in Row, h \notin rows
    PROVE  Bytes(rows) \in Nat /\ Bytes(rows \cup {h}) = Bytes(rows) + h.bytes
<1> DEFINE Part(r) == {r} \X (1 .. r.bytes)
<1>1. \A r \in rows : IsFiniteSet(Part(r))
  <2> TAKE r \in rows
  <2>1. IsFiniteSet(Occupied({r})) /\ Occupied({r}) = Part(r)
    BY OneRow DEF Occupied
  <2> QED
    BY <2>1
<1>2. IsFiniteSet({ Part(r) : r \in rows })
  <2> HIDE DEF Part
  <2> DEFINE f == [r \in rows |-> Part(r)]
  <2>1. f \in Surjection(rows, { Part(r) : r \in rows })
    BY DEF Surjection
  <2> QED
    BY <2>1, FS_Surjection
<1>3. IsFiniteSet(Occupied(rows))
  <2>1. Occupied(rows) = UNION { Part(r) : r \in rows }
    BY DEF Occupied
  <2>2. \A T \in { Part(r) : r \in rows } : IsFiniteSet(T)
    <3> HIDE DEF Part
    <3> QED
      BY <1>1
  <2> HIDE DEF Part
  <2> QED
    BY <1>2, <2>1, <2>2, FS_UNION
<1>4. Occupied(rows \cup {h}) = Occupied(rows) \cup Occupied({h})
  BY DEF Occupied
<1>5. Occupied(rows) \cap Occupied({h}) = {}
  BY DEF Occupied
<1>6. Cardinality(Occupied(rows) \cap Occupied({h})) = 0
  BY <1>5, FS_EmptySet
<1>7. /\ IsFiniteSet(Occupied({h})) /\ Cardinality(Occupied({h})) = h.bytes
      /\ h.bytes \in Nat
  BY OneRow DEF Bytes, Occupied
<1>8. Cardinality(Occupied(rows)) \in Nat
  BY <1>3, FS_CardinalityType
<1>9. Cardinality(Occupied(rows \cup {h})) =
         Cardinality(Occupied(rows)) + h.bytes - 0
  BY <1>3, <1>4, <1>6, <1>7, FS_Union
<1>10. Bytes(rows) = Cardinality(Occupied(rows))
       /\ Bytes(rows \cup {h}) = Cardinality(Occupied(rows \cup {h}))
  BY DEF Bytes, Occupied
<1> QED
  BY <1>7, <1>8, <1>9, <1>10

(* While the buffer is filled, buffered_bytes is the size of its rows.     *)
Counted ==
    /\ phase \in {"fill", "spill", "open"} => buffered_bytes = Bytes(all_rows)
    /\ \A a, b \in overflow_row : a = b

LEMMA FewRows ==
    ASSUME NEW rows, \A a, b \in rows : a = b
    PROVE  /\ ~(Cardinality(rows) > 1)
           /\ rows = {} \/ \E r \in rows : rows = {r}
<1>1. CASE rows = {}
  BY <1>1, FS_EmptySet
<1>2. CASE rows # {}
  <2>1. PICK r \in rows : rows = {r}
    BY <1>2
  <2>2. Cardinality(rows) = 1
    BY <2>1, FS_Singleton
  <2> QED
    BY <2>1, <2>2
<1> QED
  BY <1>1, <1>2

LEMMA CountedStep ==
    ASSUME Inv, Counted, BufferBounded, [Next]_vars
    PROVE  Counted' /\ BufferBounded'
<1>1. ASSUME UNCHANGED <<all_rows, buffered_bytes, overflow_row>>,
             phase' \in {"fill", "spill", "open"} => phase \in {"fill", "spill", "open"}
      PROVE  Counted' /\ BufferBounded'
  BY <1>1 DEF Counted, BufferBounded
<1>2. CASE FillRow
  <2>1. /\ Fits(Head(input)) /\ all_rows' = all_rows \cup {Head(input)}
        /\ buffered_bytes' = buffered_bytes + Head(input).bytes
        /\ overflow_row' = overflow_row /\ input # <<>> /\ phase = "fill"
    BY <1>2 DEF FillRow
  <2>2. Head(input) \in Row /\ Head(input) \notin all_rows
    <3>1. Head(input) \in Row /\ Head(input) \in ToSet(input)
      BY <2>1, HeadAndTail, Typed
    <3> QED
      BY <3>1 DEF Inv, OnePlace
  <2>3. all_rows \subseteq Row /\ IsFiniteSet(all_rows)
    BY DEF Inv, TypeOK, Arranged
  <2>4. Bytes(all_rows') = Bytes(all_rows) + Head(input).bytes
    BY <2>1, <2>2, <2>3, AddedRow
  <2>5. Counted'
    BY <2>1, <2>4 DEF Counted
  <2>6. CASE all_rows = {}
    <3>1. \A a, b \in all_rows' : a = b
      BY <2>1, <2>6
    <3> QED
      BY <2>5, <3>1, FewRows DEF BufferBounded
  <2>7. CASE all_rows # {}
    BY <2>1, <2>4, <2>5, <2>7 DEF BufferBounded, Counted, Fits
  <2> QED
    BY <2>6, <2>7
<1>3. CASE FillOverflow
  <2>1. /\ UNCHANGED <<all_rows, buffered_bytes>> /\ overflow_row' = {Head(input)}
        /\ phase = "fill"
    BY <1>3 DEF FillOverflow
  <2> QED
    BY <2>1 DEF Counted, BufferBounded
<1>4. CASE FillEnd
  <2>1. CASE all_rows' = {} /\ phase' = "memory"
    BY <1>4, <2>1, FewRows DEF FillEnd, Counted, BufferBounded
  <2>2. CASE UNCHANGED all_rows
    BY <1>1, <1>4, <2>2 DEF FillEnd
  <2> QED
    BY <1>4, <2>1, <2>2 DEF FillEnd
<1>5. CASE Spill
  <2>1. /\ all_rows' = overflow_row /\ overflow_row' = {} /\ overflow_row \subseteq Row
        /\ \A a, b \in overflow_row : a = b
        /\ \/ overflow_row = {} /\ buffered_bytes' = 0
           \/ \E r \in overflow_row : buffered_bytes' = r.bytes
    BY <1>5 DEF Spill, Counted, Inv, TypeOK
  <2>2. buffered_bytes' = Bytes(all_rows')
    <3>1. CASE overflow_row = {}
      BY <2>1, <3>1, NoRow
    <3>2. CASE overflow_row # {}
      <4>1. PICK r \in overflow_row : buffered_bytes' = r.bytes
        BY <2>1, <3>2
      <4>2. all_rows' = {r} /\ r \in Row
        BY <2>1, <4>1
      <4> QED
        BY <4>1, <4>2, OneRow
    <3> QED
      BY <3>1, <3>2
  <2> QED
    BY <2>1, <2>2, FewRows DEF Counted, BufferBounded
<1>6. CASE OpenMerge
  BY <1>1, <1>6 DEF OpenMerge
<1>7. CASE NextInMemory \/ NextMerged \/ NextNone \/ Drop \/ UNCHANGED vars
  <2>1. /\ UNCHANGED <<all_rows, buffered_bytes, overflow_row>>
        /\ phase' = phase \/ phase' = "dropped"
    BY <1>7 DEF NextInMemory, NextMerged, NextNone, Drop, vars
  <2> QED
    BY <1>1, <2>1
<1> QED
  BY <1>2, <1>3, <1>4, <1>5, <1>6, <1>7 DEF Next

(* The rows sorted at once never exceed the budget, unless there is one:   *)
(* the overflow row is counted for the buffer it starts.                   *)
THEOREM Bounded == Spec => []BufferBounded
<1>1. Init => Counted /\ BufferBounded
  BY NoRow, FewRows DEF Init, Counted, BufferBounded
<1>2. Inv /\ Counted /\ BufferBounded /\ [Next]_vars => Counted' /\ BufferBounded'
  BY CountedStep
<1> QED
  BY <1>1, <1>2, InitInv, NextInv, PTL DEF Spec

-----------------------------------------------------------------------------
(* The refinement.  Rows of a run from its current one on: during the      *)
(* merge these are all that remain.                                        *)
Left(k) == { runs[k][i] : i \in pos[k] .. Len(runs[k]) }
ToMerge == UNION { Left(k) : k \in owned }

LEMMA MergeRemaining ==
    Inv /\ phase = "merge" => Remaining = ToMerge
<1> SUFFICES ASSUME Inv, phase = "merge" PROVE Remaining = UNION { Left(k) : k \in owned }
  BY DEF ToMerge
<1> DEFINE n == Len(runs)
<1>t. /\ n \in Nat /\ DOMAIN runs = 1 .. n /\ owned \subseteq 1 .. n
      /\ \A k \in 1 .. n : pos[k] \in Nat /\ Len(runs[k]) \in Nat
  BY Typed DEF Inv, TypeOK
<1>1. Remaining = { e.row : e \in heap } \cup UNION { Unread(k) : k \in 1 .. n }
  <2>1. input = <<>> /\ sorted_rows = <<>> /\ all_rows = {} /\ overflow_row = {}
    BY DEF Inv, Phased
  <2>2. ToSet(<<>>) = {}
    BY DEF ToSet
  <2> QED
    BY <1>t, <2>1, <2>2 DEF Remaining
<1>2. ASSUME NEW e \in heap PROVE e.row \in Left(e.run) /\ e.run \in owned
  BY HeapEntry, <1>t DEF Left
<1>3. ASSUME NEW k \in 1 .. n PROVE (k \in owned /\ Unread(k) \subseteq Left(k)) \/ Unread(k) = {}
  <2>1. CASE k \in owned
    BY <1>t, <2>1 DEF Unread, Left
  <2>2. CASE k \notin owned
    <3>1. pos[k] = Len(runs[k])
      BY <1>t, <2>2 DEF Inv, HeapCoversRuns
    <3> QED
      BY <1>t, <3>1 DEF Unread
  <2> QED
    BY <2>1, <2>2
<1>4. ASSUME NEW k \in owned PROVE Left(k) \subseteq { e.row : e \in heap } \cup Unread(k)
  <2>1. PICK e \in heap : e.row = runs[k][pos[k]]
    BY <1>t DEF Inv, HeapCoversRuns
  <2>2. \A i \in pos[k] .. Len(runs[k]) : i = pos[k] \/ i \in pos[k] + 1 .. Len(runs[k])
    BY <1>t
  <2> QED
    BY <2>1, <2>2 DEF Left, Unread
<1>5. Remaining \subseteq UNION { Left(k) : k \in owned }
  BY <1>1, <1>2, <1>3
<1>6. UNION { Left(k) : k \in owned } \subseteq Remaining
  BY <1>1, <1>4, <1>t
<1> QED
  BY <1>5, <1>6

LEMMA RowsRemain == Inv => Remaining \subseteq Row
<1> SUFFICES ASSUME Inv PROVE Remaining \subseteq Row
  OBVIOUS
<1>1. ToSet(input) \subseteq Row /\ ToSet(sorted_rows) \subseteq Row
  BY Typed, Elements
<1>2. \A k \in DOMAIN runs : Unread(k) \subseteq Row
  <2> SUFFICES ASSUME NEW k \in 1 .. Len(runs), NEW i \in pos[k] + 1 .. Len(runs[k])
               PROVE  runs[k][i] \in Row
    BY Typed DEF Unread
  <2>1. runs[k] \in Seq(Row) /\ pos[k] \in Nat /\ Len(runs[k]) \in Nat
    BY Typed
  <2>2. i \in 1 .. Len(runs[k])
    BY <2>1
  <2> QED
    BY <2>1, <2>2, ElementOf
<1>3. { e.row : e \in heap } \subseteq Row
  BY DEF Inv, TypeOK
<1> QED
  BY <1>1, <1>2, <1>3 DEF Inv, TypeOK, Remaining

(* Steps of new() only move rows from one place to another.                *)
LEMMA FillSilent ==
    ASSUME Inv, FillRow \/ FillOverflow
    PROVE  UNCHANGED <<Remaining, out, done>>
<1>1. /\ input # <<>> /\ input' = Tail(input) /\ overflow_row = {}
      /\ UNCHANGED <<runs, pos, sorted_rows, heap, out, done>>
      /\ \/ all_rows' = all_rows \cup {Head(input)} /\ overflow_row' = {}
         \/ all_rows' = all_rows /\ overflow_row' = {Head(input)}
  BY DEF FillRow, FillOverflow, Inv, Phased
<1>2. ToSet(input) = {Head(input)} \cup ToSet(input')
  BY <1>1, HeadAndTail, Typed
<1>3. ToSet(input) \cup all_rows \cup overflow_row = ToSet(input') \cup all_rows' \cup overflow_row'
  BY <1>1, <1>2
<1>4. UNION { Unread(k) : k \in DOMAIN runs }' = UNION { Unread(k) : k \in DOMAIN runs }
  BY <1>1 DEF Unread
<1> QED
  BY <1>1, <1>3, <1>4 DEF Remaining

LEMMA FillEndSilent == ASSUME Inv, FillEnd PROVE UNCHANGED <<Remaining, out, done>>
<1>1. UNCHANGED <<input, overflow_row, runs, pos, heap, out, done>>
  BY DEF FillEnd
<1>2. all_rows' \cup ToSet(sorted_rows') = all_rows \cup ToSet(sorted_rows)
  <2>1. sorted_rows = <<>> /\ ToSet(<<>>) = {}
    BY DEF FillEnd, Inv, Phased, ToSet
  <2>2. CASE all_rows' = {} /\ sorted_rows' \in SortedSeqs(all_rows)
    <3>1. ToSet(sorted_rows') = all_rows
      BY <2>2, Arrangement DEF Inv, TypeOK, Arranged
    <3> QED
      BY <2>1, <2>2, <3>1
  <2>3. CASE UNCHANGED <<sorted_rows, all_rows>>
    BY <2>3
  <2> QED
    BY <2>2, <2>3 DEF FillEnd
<1>3. UNION { Unread(k) : k \in DOMAIN runs }' = UNION { Unread(k) : k \in DOMAIN runs }
  BY <1>1 DEF Unread
<1> QED
  BY <1>1, <1>2, <1>3 DEF Remaining

LEMMA SpillSilent == ASSUME Inv, Spill PROVE UNCHANGED <<Remaining, out, done>>
<1> DEFINE n == Len(runs)
<1>t. /\ n \in Nat /\ DOMAIN runs = 1 .. n /\ pos \in [1 .. n -> Nat] /\ runs \in Seq(Seq(Row) \ {<<>>})
  BY Typed DEF Inv, TypeOK
<1>1. PICK s \in SortedSeqs(all_rows) : runs' = Append(runs, s)
  BY DEF Spill
<1>2. /\ pos' = Append(pos, 0) /\ all_rows' = overflow_row /\ overflow_row' = {}
      /\ UNCHANGED <<input, sorted_rows, heap, out, done>> /\ all_rows # {}
  BY DEF Spill, Inv, Phased
<1>3. s \in Seq(Row) /\ ToSet(s) = all_rows /\ s # <<>>
  BY <1>2, Arrangement DEF Inv, TypeOK, Arranged
<1>4. /\ DOMAIN runs' = 1 .. n + 1 /\ runs'[n + 1] = s
      /\ \A k \in 1 .. n : runs'[k] = runs[k]
  BY <1>1, <1>3, <1>t
<1>5. pos'[n + 1] = 0 /\ \A k \in 1 .. n : pos'[k] = pos[k]
  <2>1. pos \in Seq(Nat) /\ Len(pos) = n
    BY <1>t, FunctionIsSeq
  <2> QED
    BY <1>2, <2>1
<1> DEFINE After(k) == { runs'[k][i] : i \in pos'[k] + 1 .. Len(runs'[k]) }
<1>6. \A k \in 1 .. n : After(k) = Unread(k)
  BY <1>4, <1>5 DEF Unread
<1>7. After(n + 1) = all_rows
  <2>1. DOMAIN s = 1 .. Len(s) /\ Len(s) \in Nat
    BY <1>3, Elements
  <2>2. 0 + 1 .. Len(s) = 1 .. Len(s)
    OBVIOUS
  <2> QED
    BY <1>3, <1>4, <1>5, <2>1, <2>2 DEF ToSet
<1> HIDE DEF After
<1>8. UNION { After(k) : k \in 1 .. n + 1 } = (UNION { Unread(k) : k \in 1 .. n }) \cup all_rows
  <2>1. 1 .. n + 1 = (1 .. n) \cup {n + 1}
    BY <1>t
  <2>2. UNION { After(k) : k \in 1 .. n + 1 }
          = (UNION { After(k) : k \in 1 .. n }) \cup After(n + 1)
    BY <2>1
  <2>3. UNION { After(k) : k \in 1 .. n } = UNION { Unread(k) : k \in 1 .. n }
    BY <1>6
  <2> QED
    BY <1>7, <2>2, <2>3
<1>9. UNION { Unread(k) : k \in DOMAIN runs }'
        = (UNION { Unread(k) : k \in DOMAIN runs }) \cup all_rows
  <2>1. UNION { Unread(k) : k \in DOMAIN runs }' = UNION { After(k) : k \in 1 .. n + 1 }
    BY <1>4 DEF After, Unread
  <2> QED
    BY <1>8, <1>t, <2>1
<1> QED
  BY <1>2, <1>9 DEF Remaining

LEMMA OpenMergeSilent == ASSUME Inv, OpenMerge PROVE UNCHANGED <<Remaining, out, done>>
<1> DEFINE n == Len(runs)
<1>t. /\ n \in Nat /\ DOMAIN runs = 1 .. n
      /\ \A k \in 1 .. n : runs[k] \in Seq(Row) /\ Len(runs[k]) \in Nat /\ Len(runs[k]) >= 1
                          /\ runs[k] # <<>>
  BY Typed
<1>1. /\ phase = "open" /\ phase' = "merge"
      /\ UNCHANGED <<input, all_rows, buffered_bytes, overflow_row, runs, owned, freed, sorted_rows, out, done>>
      /\ sorted_rows = <<>> /\ overflow_row = {} /\ input = <<>> /\ all_rows = {} /\ heap = {}
      /\ \A k \in 1 .. n : k \in owned /\ pos[k] = 0
  BY DEF OpenMerge, Inv, Phased
<1>2. \A k \in 1 .. n : pos'[k] = 1
  BY <1>t DEF OpenMerge
<1>3. owned = 1 .. n
  BY <1>1, <1>t DEF Inv, TypeOK
<1>4. Remaining = UNION { Unread(k) : k \in 1 .. n }
  <2>1. ToSet(<<>>) = {}
    BY DEF ToSet
  <2> QED
    BY <1>1, <1>t, <2>1 DEF Remaining
<1>5. Remaining' = UNION { Left(k) : k \in owned }'
  <2>1. Inv' /\ phase' = "merge"
    BY <1>1, OpenMergeInv
  <2>2. (Inv /\ phase = "merge" => Remaining = ToMerge)'
    BY MergeRemaining, PTL
  <2> QED
    BY <2>1, <2>2 DEF ToMerge
<1>6. UNION { Left(k) : k \in owned }' = UNION { Unread(k) : k \in 1 .. n }
  <2> DEFINE After(k) == { runs'[k][i] : i \in pos'[k] .. Len(runs'[k]) }
  <2>1. \A k \in 1 .. n : After(k) = Unread(k)
    BY <1>1, <1>2 DEF Unread
  <2>2. UNION { Left(k) : k \in owned }' = UNION { After(k) : k \in 1 .. n }
    BY <1>1, <1>3 DEF Left
  <2> HIDE DEF After
  <2> QED
    BY <2>1, <2>2
<1> QED
  BY <1>1, <1>4, <1>5, <1>6

LEMMA InMemoryDelivers == ASSUME Inv, NextInMemory PROVE \E r \in Remaining : Stream!Deliver(r)
<1> DEFINE r == Head(sorted_rows)
<1>1. /\ phase = "memory" /\ sorted_rows # <<>> /\ out' = {r} /\ sorted_rows' = Tail(sorted_rows)
      /\ UNCHANGED <<input, all_rows, buffered_bytes, overflow_row, runs, heap, pos, done>>
      /\ input = <<>> /\ all_rows = {} /\ overflow_row = {} /\ runs = <<>> /\ heap = {} /\ ~done
  BY DEF NextInMemory, Inv, Phased
<1>2. Remaining = ToSet(sorted_rows) /\ Remaining' = ToSet(sorted_rows')
  <2>1. ToSet(<<>>) = {} /\ DOMAIN <<>> = {}
    BY DEF ToSet
  <2> QED
    BY <1>1, <2>1 DEF Remaining
<1>3. ToSet(sorted_rows) = {r} \cup ToSet(sorted_rows') /\ r \in Row
  BY <1>1, HeadAndTail, Typed
<1>4. r \notin ToSet(sorted_rows') /\ \A s \in ToSet(sorted_rows') : r.key <= s.key
  BY <1>1, TailOf, Typed DEF Inv, OnePlace, Arranged
<1>5. ASSUME NEW s \in Remaining PROVE <<s, r>> \notin Before
  <2>1. s \in Row /\ s.key \in Int /\ r.key \in Int
    BY <1>3, RowsRemain, Typed
  <2>2. r.key <= s.key
    BY <1>2, <1>3, <1>4, <2>1
  <2> QED
    BY <2>1, <2>2 DEF Before
<1> QED
  BY <1>1, <1>2, <1>3, <1>4, <1>5 DEF Stream!Deliver

(* The top of the heap is the least of all rows that remain, for every run *)
(* is sorted and its current row is in the heap.                           *)
LEMMA MergedDelivers == ASSUME Inv, NextMerged PROVE \E r \in Remaining : Stream!Deliver(r)
<1> DEFINE n == Len(runs)
<1>1. /\ phase = "merge"
      /\ UNCHANGED <<input, phase, all_rows, buffered_bytes, overflow_row, runs, sorted_rows, done>>
  BY MergeStep
<1>2. PICK e \in heap : IsTop(e) /\ out' = {e.row} /\ (Advances(e) \/ Finishes(e))
  BY MergeStep
<1> DEFINE k == e.run
           r == e.row
<1>3. /\ k \in owned /\ k \in 1 .. n /\ r \in Row
      /\ pos[k] \in 1 .. Len(runs[k]) /\ r = runs[k][pos[k]]
  BY <1>1, HeapEntry
<1>t. /\ n \in Nat /\ DOMAIN runs = 1 .. n /\ pos \in [1 .. n -> Nat] /\ owned \subseteq 1 .. n
      /\ \A l \in 1 .. n : /\ runs[l] \in Seq(Row) /\ Len(runs[l]) \in Nat /\ DOMAIN runs[l] = 1 .. Len(runs[l])
                          /\ Distinct(runs[l]) /\ Ascending(runs[l])
      /\ \A s \in Row : s.key \in Int
  BY Typed, Elements DEF Inv, TypeOK, OnePlace, Arranged
<1>4. Remaining = UNION { Left(l) : l \in owned }
  BY <1>1, MergeRemaining DEF ToMerge
<1> DEFINE After(l) == { runs[l][i] : i \in pos'[l] .. Len(runs[l]) }
<1>5. Remaining' = UNION { After(l) : l \in owned' }
  <2>1. Inv' /\ phase' = "merge"
    BY <1>1, NextMergedInv
  <2>2. (Inv /\ phase = "merge" => Remaining = ToMerge)'
    BY MergeRemaining, PTL
  <2> QED
    BY <1>1, <2>1, <2>2 DEF ToMerge, Left
<1>6. r \in Left(k)
  BY <1>3, <1>t DEF Left
<1>7. ASSUME NEW l \in owned, l # k PROVE r \notin Left(l)
  <2>1. r \in ToSet(runs[k])
    BY <1>3, <1>t, ElementOf
  <2>2. Left(l) \subseteq ToSet(runs[l])
    <3>1. l \in 1 .. n /\ pos[l] \in Nat /\ pos[l] >= 1
      BY <1>1, <1>t DEF Inv, Phased
    <3> QED
      BY <1>t, <3>1, ElementOf DEF Left
  <2>3. ToSet(runs[k]) \cap ToSet(runs[l]) = {}
    BY <1>3, <1>7, <1>t DEF Inv, OnePlace
  <2> QED
    BY <2>1, <2>2, <2>3
<1>8. ASSUME NEW i \in pos[k] .. Len(runs[k]) PROVE runs[k][i] = r <=> i = pos[k]
  <2>1. i \in 1 .. Len(runs[k])
    BY <1>3, <1>t
  <2> QED
    BY <1>3, <1>t, <2>1 DEF Distinct
<1>9. Remaining' = Remaining \ {r}
  <2>1. CASE Advances(e)
    <3>1. owned' = owned /\ pos'[k] = pos[k] + 1 /\ \A l \in 1 .. n : l # k => pos'[l] = pos[l]
      BY <1>3, <1>t, <2>1 DEF Advances
    <3>2. After(k) = Left(k) \ {r}
      <4>1. \A i \in pos[k] .. Len(runs[k]) : i # pos[k] <=> i \in pos'[k] .. Len(runs[k])
        BY <1>3, <1>t, <3>1
      <4>2. \A i \in pos'[k] .. Len(runs[k]) : i \in pos[k] .. Len(runs[k])
        BY <1>3, <1>t, <3>1
      <4> QED
        BY <1>8, <4>1, <4>2 DEF Left
    <3>3. \A l \in owned : l # k => After(l) = Left(l)
      BY <1>t, <3>1 DEF Left
    <3> HIDE DEF After
    <3>4. \A l \in owned : After(l) = Left(l) \ {r}
      BY <1>7, <3>2, <3>3
    <3> QED
      BY <1>4, <1>5, <3>1, <3>4
  <2>2. CASE Finishes(e)
    <3>1. owned' = owned \ {k} /\ pos' = pos /\ pos[k] = Len(runs[k])
      BY <2>2 DEF Finishes
    <3>2. Left(k) = {r}
      <4>1. \A i \in pos[k] .. Len(runs[k]) : i = pos[k]
        BY <1>3, <1>t, <3>1
      <4> QED
        BY <1>6, <1>8, <4>1 DEF Left
    <3>3. \A l \in owned : After(l) = Left(l)
      BY <3>1 DEF Left
    <3> HIDE DEF After
    <3>4. Remaining' = UNION { Left(l) : l \in owned \ {k} }
      BY <1>5, <3>1, <3>3
    <3> QED
      BY <1>3, <1>4, <1>7, <3>2, <3>4
  <2> QED
    BY <1>2, <2>1, <2>2
<1>10. ASSUME NEW s \in Remaining PROVE <<s, r>> \notin Before
  <2>1. PICK l \in owned : s \in Left(l)
    BY <1>4
  <2>2. PICK i \in pos[l] .. Len(runs[l]) : s = runs[l][i]
    BY <2>1 DEF Left
  <2>3. l \in 1 .. n /\ pos[l] \in Nat /\ pos[l] >= 1
    BY <1>1, <1>t DEF Inv, Phased
  <2>4. PICK z \in heap : z.row = runs[l][pos[l]]
    BY <1>1, <1>t, <2>3 DEF Inv, HeapCoversRuns
  <2>5. pos[l] \in 1 .. Len(runs[l]) /\ i \in 1 .. Len(runs[l]) /\ (pos[l] < i \/ pos[l] = i)
    BY <1>t, <2>2, <2>3
  <2>6. runs[l][pos[l]] \in Row /\ s \in Row
    BY <1>t, <2>2, <2>3, <2>5, ElementOf
  <2>7. z.row.key <= s.key
    BY <1>t, <2>2, <2>3, <2>4, <2>5, <2>6 DEF Ascending
  <2>8. r.key <= z.row.key
    BY <1>2 DEF IsTop
  <2>9. r.key \in Int /\ z.row.key \in Int /\ s.key \in Int
    BY <1>3, <1>t, <2>4, <2>6
  <2> QED
    BY <2>7, <2>8, <2>9 DEF Before
<1>11. ~done /\ done' = done
  BY <1>1, <1>2 DEF Inv, Phased
<1>12. r \in Remaining
  BY <1>3, <1>4, <1>6
<1> QED
  BY <1>2, <1>9, <1>10, <1>11, <1>12 DEF Stream!Deliver

(* None comes when no row is left, and drop() takes none away.             *)
LEMMA NoneEnds == ASSUME Inv, NextNone PROVE Stream!End
<1>1. Remaining = {}
  <2>1. CASE phase = "memory" /\ sorted_rows = <<>>
    <3>1. input = <<>> /\ all_rows = {} /\ overflow_row = {} /\ runs = <<>> /\ heap = {}
      BY <2>1 DEF Inv, Phased
    <3>2. ToSet(<<>>) = {} /\ DOMAIN <<>> = {}
      BY DEF ToSet
    <3> QED
      BY <2>1, <3>1, <3>2 DEF Remaining
  <2>2. CASE phase = "merge" /\ heap = {}
    <3>1. owned = {}
      BY <2>2 DEF Inv, TypeOK, HeapCoversRuns
    <3> QED
      BY <2>2, <3>1, MergeRemaining DEF ToMerge
  <2> QED
    BY <2>1, <2>2 DEF NextNone
<1>2. done' = TRUE /\ UNCHANGED <<input, all_rows, buffered_bytes, overflow_row, runs, pos, sorted_rows, heap, out>>
  BY DEF NextNone
<1>3. UNCHANGED Remaining
  BY <1>2 DEF Remaining, Unread
<1> QED
  BY <1>1, <1>2, <1>3 DEF Stream!End

LEMMA DropSilent == ASSUME Drop \/ UNCHANGED vars PROVE UNCHANGED <<Remaining, out, done>>
<1>1. UNCHANGED <<input, all_rows, buffered_bytes, overflow_row, runs, pos, sorted_rows, heap, out, done>>
  BY DEF Drop, vars
<1>2. UNCHANGED Remaining
  BY <1>1 DEF Remaining, Unread
<1> QED
  BY <1>1, <1>2

(* The sort delivers the rows of its input, each once and in order.        *)
THEOREM Sorts == Spec => SortsInput
<1>1. Init => Stream!Init
  BY InitInv, RowsRemain DEF Init, Stream!Init
<1>2. Inv /\ [Next]_vars => [Stream!Next]_<<Remaining, out, done>>
  <2> SUFFICES ASSUME Inv, [Next]_vars PROVE [Stream!Next]_<<Remaining, out, done>>
    OBVIOUS
  <2>1. CASE FillRow \/ FillOverflow \/ FillEnd \/ Spill \/ OpenMerge
    BY <2>1, FillSilent, FillEndSilent, SpillSilent, OpenMergeSilent
  <2>2. CASE NextInMemory \/ NextMerged
    BY <2>2, InMemoryDelivers, MergedDelivers DEF Stream!Next
  <2>3. CASE NextNone
    BY <2>3, NoneEnds DEF Stream!Next
  <2>4. CASE Drop \/ UNCHANGED vars
    BY <2>4, DropSilent
  <2> QED
    BY <2>1, <2>2, <2>3, <2>4 DEF Next
<1>3. Spec => []Inv
  BY InitInv, NextInv, PTL DEF Spec
<1> QED
  BY <1>1, <1>2, <1>3, PTL DEF Spec, SortsInput, Stream!Spec

-----------------------------------------------------------------------------
(* Termination, but for fairness.                                          *)

LEMMA RowsOfFinite ==
    ASSUME NEW S, NEW s \in Seq(S) PROVE IsFiniteSet(ToSet(s))
<1>1. DOMAIN s = 1 .. Len(s) /\ Len(s) \in Nat
  BY Elements
<1>f. IsFiniteSet(1 .. Len(s))
  BY <1>1, FS_Interval
<1> DEFINE F == [i \in 1 .. Len(s) |-> s[i]]
<1>2. F \in Surjection(1 .. Len(s), ToSet(s))
  BY <1>1 DEF Surjection, ToSet
<1> QED
  BY <1>f, <1>2, FS_Surjection

(* The rows not yet returned only become fewer.                            *)
RemainFinite == IsFiniteSet(Remaining)

LEMMA InitFinite == Init => RemainFinite
<1> SUFFICES ASSUME Init PROVE RemainFinite
  OBVIOUS
<1>1. IsFiniteSet(ToSet(input))
  BY InitInv, RowsOfFinite DEF Inv, TypeOK
<1>2. Remaining = ToSet(input)
  BY DEF Init, Remaining, ToSet
<1> QED
  BY <1>1, <1>2 DEF RemainFinite

LEMMA FewerRemain ==
    ASSUME Inv, [Next]_vars
    PROVE  Remaining' = Remaining \/ \E r \in Remaining : Remaining' = Remaining \ {r}
<1>1. CASE FillRow \/ FillOverflow \/ FillEnd \/ Spill \/ OpenMerge
  BY <1>1, FillSilent, FillEndSilent, SpillSilent, OpenMergeSilent
<1>2. CASE NextInMemory \/ NextMerged
  BY <1>2, InMemoryDelivers, MergedDelivers DEF Stream!Deliver
<1>3. CASE NextNone
  BY <1>3, NoneEnds DEF Stream!End
<1>4. CASE Drop \/ UNCHANGED vars
  BY <1>4, DropSilent
<1> QED
  BY <1>1, <1>2, <1>3, <1>4 DEF Next

LEMMA NextFinite == Inv /\ RemainFinite /\ [Next]_vars => RemainFinite'
<1> SUFFICES ASSUME Inv, RemainFinite, [Next]_vars PROVE RemainFinite'
  OBVIOUS
<1>1. Remaining' \subseteq Remaining
  BY FewerRemain
<1> QED
  BY <1>1, FS_Subset DEF RemainFinite

Stage == CASE phase \in {"fill", "spill"} -> 3 [] phase = "open" -> 2
           [] phase \in {"memory", "merge"} -> 1 [] phase = "dropped" -> 0

(* What is left to do: stages, rows of the input, the row that overflowed, *)
(* the buffer, filling before spilling, rows to return.  A step may add to *)
(* what comes later in the tuple.                                          *)
Overflow == IF overflow_row = {} THEN 0 ELSE 1
Buffer   == IF all_rows = {} THEN 0 ELSE 1
Filling  == IF phase = "fill" THEN 1 ELSE 0

Work == <<Stage, Len(input), Overflow, Buffer, Filling, Cardinality(Remaining)>>

Order == LexProductOrdering(OpToRel(<, Nat), Nat, 6)

LEMMA OrderWellFounded == IsWellFoundedOn(Order, [1 .. 6 -> Nat])
BY NatLessThanWellFounded, WFLexProductOrdering DEF Order

LEMMA LowerAt ==
    ASSUME NEW v \in [1 .. 6 -> Nat], NEW w \in [1 .. 6 -> Nat], NEW j \in 1 .. 6,
           v[j] < w[j], \A i \in 1 .. (j - 1) : v[i] = w[i]
    PROVE  <<v, w>> \in Order
<1>1. \A k \in 1 .. 6 : v[k] \in Nat /\ w[k] \in Nat
  OBVIOUS
<1> QED
  BY <1>1 DEF Order, LexProductOrdering, OpToRel

WorkIsNat == Work \in [1 .. 6 -> Nat]

LEMMA WorkNat == Inv /\ RemainFinite => WorkIsNat
<1> SUFFICES ASSUME Inv, RemainFinite PROVE WorkIsNat
  OBVIOUS
<1>1. Len(input) \in Nat
  BY Elements DEF Inv, TypeOK
<1>2. Stage \in Nat
  BY DEF Inv, TypeOK, Stage
<1>3. Cardinality(Remaining) \in Nat
  BY FS_CardinalityType DEF RemainFinite
<1>4. Overflow \in Nat /\ Buffer \in Nat /\ Filling \in Nat
  BY DEF Overflow, Buffer, Filling
<1> QED
  BY <1>1, <1>2, <1>3, <1>4 DEF Work, WorkIsNat

LEMMA WorkNatNext == Inv' /\ RemainFinite' => WorkIsNat'
BY WorkNat, PTL

LEMMA InputLowers ==
    ASSUME Inv, FillRow \/ FillOverflow
    PROVE  Stage' = Stage /\ Len(input') < Len(input)
<1>1. input # <<>> /\ input' = Tail(input) /\ input \in Seq(Row)
  BY DEF FillRow, FillOverflow, Inv, TypeOK
<1>2. Len(input') = Len(input) - 1 /\ Len(input) \in Nat
  BY <1>1, HeadAndTail
<1> QED
  BY <1>2 DEF FillRow, FillOverflow, Stage

LEMMA SpillLowers ==
    ASSUME Inv, Spill
    PROVE  /\ Stage' = Stage /\ input' = input
           /\ Overflow' < Overflow \/ (Overflow' = Overflow /\ Buffer' < Buffer)
<1>1. /\ phase = "spill" /\ phase' = "fill" /\ input' = input
      /\ all_rows' = overflow_row /\ overflow_row' = {} /\ all_rows # {}
  BY DEF Spill, Inv, Phased
<1> QED
  BY <1>1 DEF Stage, Overflow, Buffer

LEMMA FillEndLowers ==
    ASSUME Inv, FillEnd
    PROVE  \/ Stage' < Stage
           \/ /\ Stage' = Stage /\ input' = input /\ Overflow' = Overflow /\ Buffer' = Buffer
              /\ Filling' < Filling
<1>1. phase = "fill" /\ UNCHANGED <<input, overflow_row>>
  BY DEF FillEnd
<1>2. \/ phase' = "memory" \/ phase' = "open"
      \/ phase' = "spill" /\ all_rows' = all_rows
  BY DEF FillEnd
<1> QED
  BY <1>1, <1>2 DEF Stage, Overflow, Buffer, Filling

LEMMA StageFalls == ASSUME Inv, OpenMerge \/ Drop PROVE Stage' < Stage
BY DEF OpenMerge, Drop, Stage

LEMMA RowLowers ==
    ASSUME Inv, RemainFinite, NextInMemory \/ NextMerged
    PROVE  /\ Stage' = Stage /\ input' = input /\ Overflow' = Overflow /\ Buffer' = Buffer
           /\ Filling' = Filling /\ Cardinality(Remaining') < Cardinality(Remaining)
<1>1. UNCHANGED <<phase, input, all_rows, overflow_row>>
  BY DEF NextInMemory, NextMerged
<1>2. PICK r \in Remaining : Remaining' = Remaining \ {r}
  BY InMemoryDelivers, MergedDelivers DEF Stream!Deliver
<1>3. Cardinality(Remaining') = Cardinality(Remaining) - 1 /\ Cardinality(Remaining) \in Nat
  BY <1>2, FS_RemoveElement, FS_CardinalityType DEF RemainFinite
<1>4. Cardinality(Remaining') < Cardinality(Remaining)
  BY <1>3
<1> QED
  BY <1>1, <1>4 DEF Stage, Overflow, Buffer, Filling

LEMMA StepLowers ==
    /\ Inv /\ RemainFinite /\ Inv' /\ RemainFinite' /\ Next /\ ~NextNone
    => <<Work', Work>> \in Order
<1> SUFFICES ASSUME Inv, RemainFinite, Inv', RemainFinite', Next, ~NextNone
             PROVE  <<Work', Work>> \in Order
  OBVIOUS
<1>1. Work \in [1 .. 6 -> Nat] /\ Work' \in [1 .. 6 -> Nat]
  BY WorkNat, WorkNatNext DEF WorkIsNat
<1>2. \E j \in 1 .. 6 : Work'[j] < Work[j] /\ \A i \in 1 .. (j - 1) : Work'[i] = Work[i]
  <2>1. CASE Stage' < Stage
    <3>1. Work'[1] < Work[1] /\ 1 .. (1 - 1) = {}
      BY <2>1 DEF Work
    <3> QED
      BY <3>1
  <2>2. CASE FillRow \/ FillOverflow
    <3>1. Work'[2] < Work[2] /\ \A i \in 1 .. (2 - 1) : Work'[i] = Work[i]
      BY <2>2, InputLowers DEF Work
    <3> QED
      BY <3>1
  <2>3. CASE Spill /\ Overflow' < Overflow
    <3>1. Work'[3] < Work[3] /\ \A i \in 1 .. (3 - 1) : Work'[i] = Work[i]
      BY <2>3, SpillLowers DEF Work
    <3> QED
      BY <3>1
  <2>4. CASE Spill /\ Overflow' = Overflow /\ Buffer' < Buffer
    <3>1. Work'[4] < Work[4] /\ \A i \in 1 .. (4 - 1) : Work'[i] = Work[i]
      BY <2>4, SpillLowers DEF Work
    <3> QED
      BY <3>1
  <2>5. CASE FillEnd /\ Filling' < Filling /\ ~(Stage' < Stage)
    <3>1. Work'[5] < Work[5] /\ \A i \in 1 .. (5 - 1) : Work'[i] = Work[i]
      BY <2>5, FillEndLowers DEF Work
    <3> QED
      BY <3>1
  <2>6. CASE NextInMemory \/ NextMerged
    <3>1. Work'[6] < Work[6] /\ \A i \in 1 .. (6 - 1) : Work'[i] = Work[i]
      BY <2>6, RowLowers DEF Work
    <3> QED
      BY <3>1
  <2>7. Spill => \/ Overflow' < Overflow
                 \/ Overflow' = Overflow /\ Buffer' < Buffer
    BY SpillLowers
  <2>8. FillEnd => Stage' < Stage \/ Filling' < Filling
    BY FillEndLowers
  <2> QED
    BY <2>1, <2>2, <2>3, <2>4, <2>5, <2>6, <2>7, <2>8, StageFalls DEF Next
<1> QED
  BY <1>1, <1>2, LowerAt

LEMMA AlwaysFinite == Spec => [](Inv /\ RemainFinite)
<1>1. Spec => []Inv
  BY InitInv, NextInv, PTL DEF Spec
<1> QED
  BY <1>1, InitFinite, NextFinite, PTL DEF Spec

(* Every step of new and every next() that does not return None leaves     *)
(* less to do, in an order in which nothing falls for ever: a spill that   *)
(* leaves the overflow row in the buffer has taken it from the overflow,   *)
(* the last one has emptied the buffer.                                    *)
StepsLeadOn == [][NextNone \/ <<Work', Work>> \in Order]_vars

THEOREM SortEnds == Spec => StepsLeadOn
<1>1. /\ Inv /\ RemainFinite /\ Inv' /\ RemainFinite' /\ [Next]_vars
      => [NextNone \/ <<Work', Work>> \in Order]_vars
  BY StepLowers
<1> QED
  BY <1>1, AlwaysFinite, PTL DEF Spec, StepsLeadOn

-----------------------------------------------------------------------------
(* What sort_unstable_by and BinaryHeap::pop return is there: a finite set *)
(* of rows has a last one in the order of the keys, and an arrangement.    *)
LEMMA Least ==
    ASSUME NEW T, T \subseteq Nat, T # {} PROVE \E x \in T : \A y \in T : ~(y < x)
<1> DEFINE Lt == OpToRel(<, Nat)
<1>1. \A x, y \in Nat : y < x => <<y, x>> \in Lt
  BY DEF OpToRel
<1>2. IsWellFoundedOn(Lt, Nat)
  BY NatLessThanWellFounded
<1> HIDE DEF Lt
<1>3. PICK x \in T : \A y \in T : <<y, x>> \notin Lt
  BY <1>2, WFMin
<1> QED
  BY <1>1, <1>3

HasLast(P, w) == \E r \in P : \A q \in P : w[q] <= w[r]

LEMMA LastOf ==
    ASSUME NEW Q, Q # {}, IsFiniteSet(Q), NEW w \in [Q -> Int] PROVE HasLast(Q, w)
<1> DEFINE T == { n \in Nat : \E P \in SUBSET Q :
                     P # {} /\ Cardinality(P) = n /\ ~HasLast(P, w) }
<1>1. ASSUME T # {} PROVE FALSE
  <2>1. T \subseteq Nat
    OBVIOUS
  <2> HIDE DEF T
  <2>2. PICK n \in T : \A y \in T : ~(y < n)
    BY <1>1, <2>1, Least
  <2> USE DEF T
  <2>3. PICK P \in SUBSET Q : P # {} /\ Cardinality(P) = n /\ ~HasLast(P, w)
    BY <2>2
  <2>4. IsFiniteSet(P) /\ n \in Nat
    BY <2>3, FS_Subset
  <2>5. PICK r \in P : TRUE
    BY <2>3
  <2>6. IsFiniteSet(P \ {r}) /\ Cardinality(P \ {r}) = n - 1
    BY <2>3, <2>4, FS_RemoveElement
  <2>7. n - 1 \in Nat /\ n - 1 < n
    BY <2>4, <2>6, FS_CardinalityType
  <2>8. P \ {r} = {} \/ HasLast(P \ {r}, w)
    <3>1. n - 1 \notin T
      BY <2>2, <2>7
    <3> QED
      BY <2>6, <2>7, <3>1
  <2>9. \A q \in P : w[q] \in Int
    OBVIOUS
  <2>10. CASE P \ {r} = {}
    <3>1. \A q \in P : q = r
      BY <2>10
    <3>2. w[r] <= w[r]
      BY <2>9
    <3>3. HasLast(P, w)
      BY <3>1, <3>2 DEF HasLast
    <3> QED
      BY <2>3, <3>3
  <2>11. CASE HasLast(P \ {r}, w)
    <3>1. PICK l \in P \ {r} : \A q \in P \ {r} : w[q] <= w[l]
      BY <2>11 DEF HasLast
    <3>2. CASE w[r] <= w[l]
      <4>1. \A q \in P : w[q] <= w[l]
        BY <3>1, <3>2
      <4> QED
        BY <2>3, <4>1 DEF HasLast
    <3>3. CASE ~(w[r] <= w[l])
      <4>1. w[l] <= w[r]
        BY <2>9, <3>3
      <4>2. \A q \in P : w[q] <= w[r]
        <5> SUFFICES ASSUME NEW q \in P PROVE w[q] <= w[r]
          OBVIOUS
        <5>1. w[q] \in Int /\ w[r] \in Int /\ w[l] \in Int
          BY <2>9
        <5>2. q = r \/ w[q] <= w[l]
          BY <3>1
        <5> QED
          BY <4>1, <5>1, <5>2
      <4> QED
        BY <2>3, <4>2 DEF HasLast
    <3> QED
      BY <3>2, <3>3
  <2> QED
    BY <2>8, <2>10, <2>11
<1>2. Cardinality(Q) \in Nat
  BY FS_CardinalityType
<1> QED
  BY <1>1, <1>2

LEMMA Extended ==
    ASSUME NEW P, P \subseteq Row, IsFiniteSet(P), NEW r \in P,
           \A q \in P : q.key <= r.key, NEW s \in SortedSeqs(P \ {r})
    PROVE  SortedSeqs(P) # {}
<1> DEFINE n == Cardinality(P)
           f == [i \in 1 .. n |-> IF i < n THEN s[i] ELSE r]
<1>1. n \in Nat /\ Cardinality(P \ {r}) = n - 1 /\ Cardinality(P \ {r}) \in Nat
  BY FS_RemoveElement, FS_CardinalityType
<1> HIDE DEF n
<1>2. /\ DOMAIN s = 1 .. n - 1 /\ \A i \in 1 .. n - 1 : s[i] \in P \ {r}
      /\ \A i, j \in 1 .. n - 1 : i < j => s[i].key <= s[j].key
      /\ ToSet(s) = P \ {r}
  BY <1>1 DEF SortedSeqs
<1>3. n \in 1 .. n
  BY <1>1
<1>4. \A i \in 1 .. n : f[i] = (IF i < n THEN s[i] ELSE r) /\ (i < n \/ i = n)
  BY <1>1
<1>5. f \in [1 .. n -> P] /\ DOMAIN f = 1 .. n
  <2>1. \A i \in 1 .. n : i < n => s[i] \in P
    BY <1>1, <1>2
  <2> QED
    BY <2>1
<1> HIDE DEF f
<1>6. ASSUME NEW i \in 1 .. n, NEW j \in 1 .. n, i < j PROVE f[i].key <= f[j].key
  <2>1. i \in 1 .. n - 1 /\ f[i] = s[i]
    BY <1>1, <1>4, <1>6
  <2>2. CASE j < n
    <3>1. j \in 1 .. n - 1 /\ f[j] = s[j]
      BY <1>1, <1>4, <2>2
    <3> QED
      BY <1>2, <1>6, <2>1, <3>1
  <2>3. CASE j = n
    <3>1. f[j] = r
      BY <1>1, <1>4, <2>3
    <3>2. s[i] \in P
      BY <1>2, <2>1
    <3> QED
      BY <2>1, <3>1, <3>2
  <2> QED
    BY <1>4, <2>2, <2>3
<1>7. ToSet(f) = P
  <2>1. ToSet(f) \subseteq P
    BY <1>5 DEF ToSet
  <2>2. r \in ToSet(f)
    <3>1. f[n] = r
      BY <1>1, <1>3, <1>4
    <3> QED
      BY <1>3, <1>5, <3>1 DEF ToSet
  <2>3. \A q \in P \ {r} : q \in ToSet(f)
    <3> SUFFICES ASSUME NEW q \in P \ {r} PROVE q \in ToSet(f)
      OBVIOUS
    <3>1. PICK i \in 1 .. n - 1 : q = s[i]
      BY <1>2 DEF ToSet
    <3>2. i \in 1 .. n /\ i < n
      BY <1>1
    <3>3. f[i] = q
      BY <1>4, <3>1, <3>2
    <3> QED
      BY <1>5, <3>2, <3>3 DEF ToSet
  <2> QED
    BY <2>1, <2>2, <2>3
<1>8. f \in SortedSeqs(P)
  BY <1>5, <1>6, <1>7 DEF SortedSeqs, n
<1> QED
  BY <1>8

LEMMA Arrangeable ==
    ASSUME NEW Q, Q \subseteq Row, IsFiniteSet(Q) PROVE SortedSeqs(Q) # {}
<1> DEFINE T == { n \in Nat : \E P \in SUBSET Q : Cardinality(P) = n /\ SortedSeqs(P) = {} }
<1>1. ASSUME T # {} PROVE FALSE
  <2>1. T \subseteq Nat
    OBVIOUS
  <2> HIDE DEF T
  <2>2. PICK n \in T : \A y \in T : ~(y < n)
    BY <1>1, <2>1, Least
  <2> USE DEF T
  <2>3. PICK P \in SUBSET Q : Cardinality(P) = n /\ SortedSeqs(P) = {}
    BY <2>2
  <2>4. IsFiniteSet(P) /\ n \in Nat /\ P \subseteq Row
    BY <2>3, FS_Subset
  <2>5. CASE P = {}
    <3>1. n = 0
      BY <2>3, <2>5, FS_EmptySet
    <3> DEFINE f == [i \in 1 .. n |-> 0]
    <3>2. f \in [1 .. n -> P] /\ DOMAIN f = {}
      BY <3>1
    <3> HIDE DEF f
    <3>3. ToSet(f) = P
      BY <2>5, <3>2 DEF ToSet
    <3>4. f \in SortedSeqs(P)
      BY <2>3, <3>2, <3>3 DEF SortedSeqs
    <3> QED
      BY <2>3, <3>4
  <2>6. CASE P # {}
    <3> DEFINE w == [r \in P |-> r.key]
    <3>1. w \in [P -> Int]
      BY <2>4, SortAssumption DEF Row
    <3>w. \A q \in P : w[q] = q.key
      OBVIOUS
    <3> HIDE DEF w
    <3>2. PICK r \in P : \A q \in P : w[q] <= w[r]
      BY <2>4, <2>6, <3>1, LastOf DEF HasLast
    <3>3. \A q \in P : q.key <= r.key
      BY <3>w, <3>2
    <3>4. IsFiniteSet(P \ {r}) /\ Cardinality(P \ {r}) = n - 1
      BY <2>3, <2>4, FS_RemoveElement
    <3>5. n - 1 \in Nat /\ n - 1 < n
      BY <2>4, <3>4, FS_CardinalityType
    <3>6. n - 1 \notin T /\ P \ {r} \in SUBSET Q
      BY <2>2, <3>5
    <3>7. PICK s : s \in SortedSeqs(P \ {r})
      BY <3>4, <3>5, <3>6
    <3> QED
      BY <2>3, <2>4, <3>3, <3>7, Extended
  <2> QED
    BY <2>5, <2>6
<1>2. Cardinality(Q) \in Nat
  BY FS_CardinalityType
<1> QED
  BY <1>1, <1>2

LEMMA TopOf == ASSUME Inv, RemainFinite, heap # {} PROVE \E e \in heap : IsTop(e)
<1> DEFINE P == { e.row : e \in heap }
           w == [r \in P |-> 0 - r.key]
<1>1. IsFiniteSet(P)
  <2>1. P \subseteq Remaining
    BY DEF Remaining
  <2> HIDE DEF P
  <2> QED
    BY <2>1, FS_Subset DEF RemainFinite
<1>2. P # {} /\ P \subseteq Row
  BY DEF Inv, TypeOK
<1> HIDE DEF P
<1>3. \A r \in P : r.key \in Int
  BY <1>2, SortAssumption DEF Row
<1>4. w \in [P -> Int] /\ \A r \in P : w[r] = 0 - r.key
  BY <1>3
<1> HIDE DEF w
<1>5. PICK r \in P : \A q \in P : w[q] <= w[r]
  BY <1>1, <1>2, <1>4, LastOf DEF HasLast
<1>6. \A q \in P : r.key <= q.key
  <2> SUFFICES ASSUME NEW q \in P PROVE r.key <= q.key
    OBVIOUS
  <2>1. 0 - q.key <= 0 - r.key /\ q.key \in Int /\ r.key \in Int
    BY <1>3, <1>4, <1>5
  <2> QED
    BY <2>1
<1>7. PICK e \in heap : e.row = r
  BY DEF P
<1>8. \A x \in heap : x.row \in P
  BY DEF P
<1>9. IsTop(e)
  BY <1>6, <1>7, <1>8 DEF IsTop
<1> QED
  BY <1>9

(* A buffer can be arranged, the last spill has something to write, the    *)
(* heap has a top while it is not empty, and the run of the top has a next *)
(* row or has been read to its end.                                        *)
CanTurn ==
    /\ phase \in {"fill", "spill"} => SortedSeqs(all_rows) # {}
    /\ phase = "spill" => all_rows # {}
    /\ phase = "merge" /\ heap # {} =>
          \E e \in heap : /\ IsTop(e)
                          /\ e.run \in DOMAIN runs
                          /\ \/ pos[e.run] + 1 \in DOMAIN runs[e.run]
                             \/ pos[e.run] = Len(runs[e.run])

LEMMA Goes == Inv /\ RemainFinite => CanTurn
<1> SUFFICES ASSUME Inv, RemainFinite PROVE CanTurn
  OBVIOUS
<1>1. SortedSeqs(all_rows) # {}
  BY Arrangeable DEF Inv, TypeOK, Arranged
<1>2. phase = "spill" => all_rows # {}
  BY DEF Inv, Phased
<1>3. ASSUME phase = "merge", heap # {}
      PROVE  \E e \in heap : /\ IsTop(e)
                             /\ e.run \in DOMAIN runs
                             /\ \/ pos[e.run] + 1 \in DOMAIN runs[e.run]
                                \/ pos[e.run] = Len(runs[e.run])
  <2>1. PICK e \in heap : IsTop(e)
    BY <1>3, TopOf
  <2>2. e.run \in 1 .. Len(runs) /\ pos[e.run] \in 1 .. Len(runs[e.run])
    BY <1>3, HeapEntry
  <2>3. /\ runs[e.run] \in Seq(Row) /\ Len(runs[e.run]) \in Nat
        /\ DOMAIN runs = 1 .. Len(runs) /\ DOMAIN runs[e.run] = 1 .. Len(runs[e.run])
    BY <2>2, Typed, Elements
  <2>4. pos[e.run] + 1 \in 1 .. Len(runs[e.run]) \/ pos[e.run] = Len(runs[e.run])
    BY <2>2, <2>3
  <2> QED
    BY <2>1, <2>2, <2>3, <2>4
<1> QED
  BY <1>1, <1>2, <1>3 DEF CanTurn

(* The sort is never stuck.                                                *)
THEOREM SortGoesOn == Spec => []CanTurn
BY AlwaysFinite, Goes, PTL
=============================================================================
