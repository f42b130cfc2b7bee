---------------------------- MODULE CrossOpProofs ----------------------------
(***************************************************************************)
(* Proofs about CrossOp: for inputs, budgets and chunks of any size it     *)
(* returns every pair of the rows it kept once, and its run goes back when *)
(* the last left row has met it; the loop of next() always goes on to its  *)
(* end.                                                                    *)
(***************************************************************************)
EXTENDS CrossOp, FiniteSetTheorems, WellFoundedInduction, TLAPS

Distinct(s) == \A i, j \in 1 .. Len(s) : s[i] = s[j] => i = j

(* Sequences as the proofs use them.                                       *)
LEMMA Elements ==
    ASSUME NEW S, NEW s \in Seq(S)
    PROVE  /\ ToSet(s) = { s[i] : i \in 1 .. Len(s) } /\ ToSet(s) \subseteq S
           /\ DOMAIN s = 1 .. Len(s) /\ Len(s) \in Nat
           /\ s = <<>> <=> Len(s) = 0
           /\ s = <<>> <=> ToSet(s) = {}
<1>1. DOMAIN s = 1 .. Len(s) /\ Len(s) \in Nat /\ (s = <<>> <=> Len(s) = 0)
  OBVIOUS
<1>2. ToSet(s) = { s[i] : i \in 1 .. Len(s) } /\ ToSet(s) \subseteq S
  BY <1>1 DEF ToSet
<1>3. s # <<>> => s[1] \in ToSet(s)
  BY <1>1, <1>2
<1>4. s = <<>> => ToSet(s) = {}
  BY <1>1, <1>2
<1> QED
  BY <1>1, <1>2, <1>3, <1>4

LEMMA Empty == ToSet(<<>>) = {} /\ Distinct(<<>>) /\ Len(<<>>) = 0 /\ \A S : <<>> \in Seq(S)
BY DEF ToSet, Distinct

(* A stretch of a sequence from the place after k.                         *)
LEMMA Stretch ==
    ASSUME NEW S, NEW s \in Seq(S), NEW k \in 0 .. Len(s)
    PROVE  LET t == SubSeq(s, k + 1, Len(s))
           IN  /\ t \in Seq(S) /\ Len(t) = Len(s) - k
               /\ \A i \in 1 .. Len(t) : t[i] = s[k + i]
               /\ ToSet(t) = { s[i] : i \in k + 1 .. Len(s) }
               /\ Distinct(s) => Distinct(t)
<1> DEFINE t == SubSeq(s, k + 1, Len(s))
<1>1. t \in Seq(S) /\ Len(t) = Len(s) - k /\ Len(s) \in Nat
  OBVIOUS
<1>2. \A i \in 1 .. Len(t) : t[i] = s[k + i] /\ k + i \in k + 1 .. Len(s)
  BY <1>1
<1>3. ToSet(t) = { t[i] : i \in 1 .. Len(t) }
  <2> HIDE DEF t
  <2> QED
    BY <1>1, Elements
<1>4. \A i \in k + 1 .. Len(s) : i - k \in 1 .. Len(t) /\ t[i - k] = s[i]
  <2> TAKE i \in k + 1 .. Len(s)
  <2>1. i - k \in 1 .. Len(t) /\ k + (i - k) = i
    BY <1>1
  <2> QED
    BY <1>2, <2>1
<1>5. ToSet(t) = { s[i] : i \in k + 1 .. Len(s) }
  <2> HIDE DEF t
  <2>1. \A x \in ToSet(t) : x \in { s[i] : i \in k + 1 .. Len(s) }
    BY <1>2, <1>3
  <2>2. \A x \in { s[i] : i \in k + 1 .. Len(s) } : x \in ToSet(t)
    <3> SUFFICES ASSUME NEW i \in k + 1 .. Len(s) PROVE s[i] \in ToSet(t)
      OBVIOUS
    <3> QED
      BY <1>3, <1>4
  <2> QED
    BY <2>1, <2>2
<1>6. Distinct(s) => Distinct(t)
  <2> SUFFICES ASSUME Distinct(s), NEW i \in 1 .. Len(t), NEW j \in 1 .. Len(t), t[i] = t[j]
               PROVE  i = j
    BY DEF Distinct
  <2>1. s[k + i] = s[k + j] /\ k + i \in 1 .. Len(s) /\ k + j \in 1 .. Len(s)
    BY <1>1, <1>2
  <2>2. k + i = k + j
    BY <2>1 DEF Distinct
  <2> QED
    BY <2>2
<1> QED
  BY <1>1, <1>2, <1>5, <1>6

LEMMA Beginning ==
    ASSUME NEW S, NEW s \in Seq(S), NEW n \in 0 .. Len(s)
    PROVE  LET t == SubSeq(s, 1, n)
           IN  /\ t \in Seq(S) /\ Len(t) = n
               /\ \A i \in 1 .. n : t[i] = s[i]
               /\ ToSet(t) = { s[i] : i \in 1 .. n }
               /\ Distinct(s) => Distinct(t)
<1> DEFINE t == SubSeq(s, 1, n)
<1>1. t \in Seq(S) /\ Len(t) = n /\ Len(s) \in Nat
  OBVIOUS
<1>2. \A i \in 1 .. n : t[i] = s[i]
  BY <1>1
<1>3. ToSet(t) = { t[i] : i \in 1 .. n }
  <2> HIDE DEF t
  <2> QED
    BY <1>1, Elements
<1>4. ToSet(t) = { s[i] : i \in 1 .. n }
  <2> HIDE DEF t
  <2> QED
    BY <1>2, <1>3
<1>5. Distinct(s) => Distinct(t)
  <2> HIDE DEF t
  <2> QED
    BY <1>1, <1>2 DEF Distinct
<1> QED
  BY <1>1, <1>2, <1>4, <1>5

(* The rows one to n of a sequence and the rows after them.                *)
LEMMA SplitAt ==
    ASSUME NEW S, NEW s \in Seq(S), NEW n \in 0 .. Len(s)
    PROVE  LET a == SubSeq(s, 1, n)
               b == SubSeq(s, n + 1, Len(s))
           IN  /\ a \in Seq(S) /\ b \in Seq(S) /\ Len(a) = n
               /\ ToSet(s) = ToSet(a) \cup ToSet(b)
               /\ Distinct(s) => Distinct(a) /\ Distinct(b) /\ ToSet(a) \cap ToSet(b) = {}
<1> DEFINE a == SubSeq(s, 1, n)
           b == SubSeq(s, n + 1, Len(s))
<1>1. a \in Seq(S) /\ Len(a) = n /\ ToSet(a) = { s[i] : i \in 1 .. n }
      /\ (Distinct(s) => Distinct(a))
  BY Beginning
<1>2. b \in Seq(S) /\ ToSet(b) = { s[i] : i \in n + 1 .. Len(s) }
      /\ (Distinct(s) => Distinct(b))
  BY Stretch
<1>3. ToSet(s) = { s[i] : i \in 1 .. Len(s) } /\ Len(s) \in Nat
  BY Elements
<1>4. 1 .. Len(s) = (1 .. n) \cup (n + 1 .. Len(s)) /\ (1 .. n) \cap (n + 1 .. Len(s)) = {}
  BY <1>3
<1> HIDE DEF a, b
<1>5. ToSet(s) = ToSet(a) \cup ToSet(b)
  BY <1>1, <1>2, <1>3, <1>4
<1>6. ASSUME Distinct(s) PROVE ToSet(a) \cap ToSet(b) = {}
  <2>1. \A i \in 1 .. n, j \in n + 1 .. Len(s) : s[i] # s[j]
    BY <1>4, <1>6 DEF Distinct
  <2> QED
    BY <1>1, <1>2, <2>1
<1> QED
  BY <1>1, <1>2, <1>5, <1>6 DEF a, b

LEMMA HeadAndTail ==
    ASSUME NEW S, NEW s \in Seq(S), s # <<>>
    PROVE  /\ Head(s) \in S /\ Tail(s) \in Seq(S)
           /\ ToSet(s) = {Head(s)} \cup ToSet(Tail(s))
           /\ Distinct(s) => Head(s) \notin ToSet(Tail(s)) /\ Distinct(Tail(s))
<1>1. /\ Head(s) = s[1] /\ Len(s) \in Nat /\ 0 < Len(s) /\ 1 \in 0 .. Len(s)
      /\ s[1] \in S /\ Tail(s) \in Seq(S)
  OBVIOUS
<1>t. Tail(s) = SubSeq(s, 1 + 1, Len(s))
  OBVIOUS
<1>2. 1 .. 1 = {1} /\ ToSet(SubSeq(s, 1, 1)) = { s[i] : i \in 1 .. 1 }
  BY <1>1, Beginning
<1>3. ToSet(SubSeq(s, 1, 1)) = {Head(s)}
  BY <1>1, <1>2
<1>4. /\ ToSet(s) = ToSet(SubSeq(s, 1, 1)) \cup ToSet(Tail(s))
      /\ Distinct(s) => /\ Distinct(Tail(s))
                        /\ ToSet(SubSeq(s, 1, 1)) \cap ToSet(Tail(s)) = {}
  <2> DEFINE a == SubSeq(s, 1, 1)
             b == SubSeq(s, 1 + 1, Len(s))
  <2>1. /\ ToSet(s) = ToSet(a) \cup ToSet(b)
        /\ Distinct(s) => Distinct(a) /\ Distinct(b) /\ ToSet(a) \cap ToSet(b) = {}
    BY <1>1, SplitAt, Zenon
  <2>2. Tail(s) = b
    BY <1>t
  <2> HIDE DEF a, b
  <2>3. /\ ToSet(s) = ToSet(a) \cup ToSet(Tail(s))
        /\ Distinct(s) => Distinct(Tail(s)) /\ ToSet(a) \cap ToSet(Tail(s)) = {}
    BY <2>1, <2>2
  <2> QED
    BY <2>3 DEF a
<1> QED
  BY <1>1, <1>3, <1>4

LEMMA Appended ==
    ASSUME NEW S, NEW s \in Seq(S), NEW e \in S
    PROVE  /\ Append(s, e) \in Seq(S) /\ ToSet(Append(s, e)) = ToSet(s) \cup {e}
           /\ Len(Append(s, e)) = Len(s) + 1
           /\ Distinct(s) /\ e \notin ToSet(s) => Distinct(Append(s, e))
<1> DEFINE t == Append(s, e)
<1>1. /\ t \in Seq(S) /\ Len(t) = Len(s) + 1 /\ Len(s) \in Nat /\ t[Len(s) + 1] = e
      /\ \A i \in 1 .. Len(s) : t[i] = s[i]
  OBVIOUS
<1>2. 1 .. Len(t) = (1 .. Len(s)) \cup {Len(s) + 1}
  BY <1>1
<1>3. ToSet(t) = { t[i] : i \in 1 .. Len(t) } /\ ToSet(s) = { s[i] : i \in 1 .. Len(s) }
  BY <1>1, Elements
<1> HIDE DEF t
<1>4. ToSet(t) = ToSet(s) \cup {e}
  BY <1>1, <1>2, <1>3
<1>5. Distinct(s) /\ e \notin ToSet(s) => Distinct(t)
  BY <1>1, <1>2, <1>3 DEF Distinct
<1> QED
  BY <1>1, <1>4, <1>5 DEF t

LEMMA Joined ==
    ASSUME NEW S, NEW s \in Seq(S), NEW t \in Seq(S)
    PROVE  /\ s \o t \in Seq(S) /\ ToSet(s \o t) = ToSet(s) \cup ToSet(t)
           /\ Distinct(s) /\ Distinct(t) /\ ToSet(s) \cap ToSet(t) = {} => Distinct(s \o t)
<1> DEFINE u == s \o t
<1>1. /\ u \in Seq(S) /\ Len(u) = Len(s) + Len(t) /\ Len(s) \in Nat /\ Len(t) \in Nat
      /\ \A i \in 1 .. Len(s) : u[i] = s[i]
  OBVIOUS
<1>2. \A i \in Len(s) + 1 .. Len(u) : i - Len(s) \in 1 .. Len(t) /\ u[i] = t[i - Len(s)]
  BY <1>1
<1>3. \A i \in 1 .. Len(t) : Len(s) + i \in 1 .. Len(u) /\ u[Len(s) + i] = t[i]
  BY <1>1
<1>4. /\ ToSet(u) = { u[i] : i \in 1 .. Len(u) } /\ ToSet(s) = { s[i] : i \in 1 .. Len(s) }
      /\ ToSet(t) = { t[i] : i \in 1 .. Len(t) }
  BY <1>1, Elements
<1>5. /\ \A i \in 1 .. Len(s) : i \in 1 .. Len(u)
      /\ \A i \in 1 .. Len(u) : i \in 1 .. Len(s) \/ i \in Len(s) + 1 .. Len(u)
  BY <1>1
<1> HIDE DEF u
<1>6. ToSet(u) = ToSet(s) \cup ToSet(t)
  BY <1>1, <1>2, <1>3, <1>4, <1>5
<1>7. ASSUME Distinct(s), Distinct(t), ToSet(s) \cap ToSet(t) = {} PROVE Distinct(u)
  <2> SUFFICES ASSUME NEW i \in 1 .. Len(u), NEW j \in 1 .. Len(u), u[i] = u[j] PROVE i = j
    BY DEF Distinct
  <2>1. CASE i \in 1 .. Len(s) /\ j \in 1 .. Len(s)
    BY <1>1, <1>7, <2>1 DEF Distinct
  <2>2. CASE i \in Len(s) + 1 .. Len(u) /\ j \in Len(s) + 1 .. Len(u)
    <3>1. i - Len(s) = j - Len(s)
      BY <1>2, <1>7, <2>2 DEF Distinct
    <3> QED
      BY <1>1, <3>1
  <2>3. CASE i \in 1 .. Len(s) /\ j \in Len(s) + 1 .. Len(u)
    BY <1>1, <1>2, <1>4, <1>7, <2>3
  <2>4. CASE j \in 1 .. Len(s) /\ i \in Len(s) + 1 .. Len(u)
    BY <1>1, <1>2, <1>4, <1>7, <2>4
  <2> QED
    BY <1>5, <2>1, <2>2, <2>3, <2>4
<1> QED
  BY <1>1, <1>6, <1>7 DEF u

-----------------------------------------------------------------------------

(* A row is in one place only, and there once.                             *)
OnePlace ==
    /\ Distinct(left) /\ Distinct(right) /\ Distinct(right_rows_mem)
    /\ Distinct(right_run) /\ Distinct(left_chunk)
    /\ ToSet(left) \cap (ToSet(left_chunk) \cup current_left_row) = {}
    /\ ToSet(right) \cap ToSet(right_rows_mem) = {}
    /\ \A l, m \in current_left_row : l = m
    /\ \A a, b \in right_reader : a = b

Filling ==
    /\ current_left_row = {} /\ current_mem_right_idx = 0
    /\ left_chunk = <<>> /\ right_reader = {} /\ chunk_left_idx = 0
    /\ freed = 0 /\ ~done
    /\ phase \in {"fill", "spill"} => right_run = <<>> /\ ~owned
    /\ phase = "fill" => in_memory_mode
    /\ phase = "spill" => ~in_memory_mode

(* In memory the run is empty; on disk the buffer is.                      *)
InMemoryOnly == right_run = <<>> /\ left_chunk = <<>> /\ right_reader = {} /\ ~owned
OnDiskOnly   == right_rows_mem = <<>>

(* The run has its ids while left rows are to come, and gives them back    *)
(* once.                                                                   *)
Owner == \/ owned /\ freed = 0
         \/ ~owned /\ freed >= 1 /\ left = <<>> /\ left_chunk = <<>>

Phased ==
    /\ phase \in {"fill", "spill", "first_left"} => Filling
    /\ phase \in {"first_left", "ready"} =>
          /\ right = <<>>
          /\ IF in_memory_mode THEN InMemoryOnly /\ freed = 0 ELSE OnDiskOnly /\ Owner
    /\ phase = "ready" /\ in_memory_mode => (current_left_row = {} => left = <<>>)
    /\ phase = "ready" /\ in_memory_mode /\ done => current_left_row = {}
    /\ phase = "ready" /\ ~in_memory_mode =>
          /\ left_chunk = <<>> <=> right_reader = {}
          /\ left_chunk = <<>> => chunk_left_idx = 0
          /\ Len(right_run) \in right_reader => chunk_left_idx = 0
          /\ done => left = <<>> /\ left_chunk = <<>>

Inv == TypeOK /\ OnePlace /\ Phased /\ NothingLeaked

-----------------------------------------------------------------------------
LEMMA RestOf ==
    ASSUME NEW S, NEW s \in Seq(S), NEW k \in 0 .. Len(s)
    PROVE  /\ Rest(s, k) = { s[i] : i \in k + 1 .. Len(s) }
           /\ Rest(s, 0) = ToSet(s) /\ Rest(s, Len(s)) = {}
           /\ k < Len(s) => Rest(s, k) = {s[k + 1]} \cup Rest(s, k + 1)
           /\ k < Len(s) /\ Distinct(s) => s[k + 1] \notin Rest(s, k + 1)
<1>1. \A j \in 0 .. Len(s) : Rest(s, j) = { s[i] : i \in j + 1 .. Len(s) }
  BY Stretch DEF Rest
<1>2. Len(s) \in Nat /\ ToSet(s) = { s[i] : i \in 1 .. Len(s) }
  BY Elements
<1>3. Rest(s, 0) = ToSet(s) /\ Rest(s, Len(s)) = {}
  BY <1>1, <1>2
<1>4. ASSUME k < Len(s) PROVE Rest(s, k) = {s[k + 1]} \cup Rest(s, k + 1)
  <2>1. k + 1 \in 0 .. Len(s) /\ k + 1 .. Len(s) = {k + 1} \cup (k + 2 .. Len(s))
    BY <1>2, <1>4
  <2>2. Rest(s, k + 1) = { s[i] : i \in k + 2 .. Len(s) }
    BY <1>1, <1>2, <2>1
  <2> QED
    BY <1>1, <2>1, <2>2
<1>5. ASSUME k < Len(s), Distinct(s) PROVE s[k + 1] \notin Rest(s, k + 1)
  <2>1. k + 1 \in 1 .. Len(s) /\ Rest(s, k + 1) = { s[i] : i \in k + 2 .. Len(s) }
    BY <1>1, <1>2, <1>5
  <2>2. \A i \in k + 2 .. Len(s) : i \in 1 .. Len(s) /\ i # k + 1
    BY <1>2
  <2>3. \A i \in k + 2 .. Len(s) : s[i] # s[k + 1]
    BY <1>5, <2>1, <2>2 DEF Distinct
  <2> QED
    BY <2>1, <2>3
<1> QED
  BY <1>1, <1>3, <1>4, <1>5

-----------------------------------------------------------------------------
LEMMA InitInv == Init => Inv
<1> SUFFICES ASSUME Init PROVE Inv
  OBVIOUS
<1> USE DEF Init
<1>1. PICK n \in 0 .. MaxRows, m \in 0 .. MaxRows :
         left = [i \in 1 .. n |-> i] /\ right = [i \in 1 .. m |-> i]
  OBVIOUS
<1>2. MaxRows \in Nat
  BY CrossAssumption
<1>3. left \in [1 .. n -> Row] /\ right \in [1 .. m -> Row] /\ n \in Nat /\ m \in Nat
  BY <1>1, <1>2 DEF Row
<1>4. left \in Seq(Row) /\ right \in Seq(Row) /\ Len(left) = n /\ Len(right) = m
  BY <1>3
<1>5. Distinct(left) /\ Distinct(right)
  BY <1>1, <1>4 DEF Distinct
<1>6. TypeOK
  <2>1. right_rows_mem \in Seq(Row) /\ right_run \in Seq(Row) /\ left_chunk \in Seq(Row)
        /\ 0 \in 0 .. Len(right_rows_mem)
    BY Empty
  <2> QED
    BY <1>4, <2>1 DEF TypeOK
<1>7. OnePlace
  BY <1>5, Empty DEF OnePlace
<1> QED
  BY <1>6, <1>7 DEF Inv, Phased, Filling, NothingLeaked

LEMMA FillRowInv == ASSUME Inv, FillRow PROVE Inv'
<1> USE DEF Inv, FillRow, inputs, run, chunk
<1>1. right \in Seq(Row) /\ right # <<>> /\ right_rows_mem \in Seq(Row)
  BY DEF TypeOK
<1>2. /\ Head(right) \in Row /\ right' \in Seq(Row)
      /\ ToSet(right) = {Head(right)} \cup ToSet(right')
      /\ Distinct(right) => Head(right) \notin ToSet(right') /\ Distinct(right')
  BY <1>1, HeadAndTail
<1>3. /\ right_rows_mem' \in Seq(Row) /\ Len(right_rows_mem') = Len(right_rows_mem) + 1
      /\ ToSet(right_rows_mem') = ToSet(right_rows_mem) \cup {Head(right)}
      /\ Distinct(right_rows_mem) /\ Head(right) \notin ToSet(right_rows_mem)
            => Distinct(right_rows_mem')
  BY <1>1, <1>2, Appended
<1>4. Len(right_rows_mem) \in Nat /\ current_mem_right_idx = 0
  BY <1>1, Elements DEF Phased, Filling
<1>5. TypeOK'
  BY <1>2, <1>3, <1>4 DEF TypeOK
<1>6. OnePlace'
  BY <1>2, <1>3 DEF OnePlace
<1>7. Phased' /\ NothingLeaked'
  BY DEF Phased, Filling, NothingLeaked
<1> QED
  BY <1>5, <1>6, <1>7

LEMMA FillOverflowInv == ASSUME Inv, FillOverflow PROVE Inv'
<1> USE DEF Inv, FillOverflow, inputs, run, chunk
<1>1. /\ right' \in Seq(Row) /\ ToSet(right') \subseteq ToSet(right)
      /\ Distinct(right) => Distinct(right')
  BY HeadAndTail DEF TypeOK
<1>2. TypeOK' /\ OnePlace'
  BY <1>1 DEF TypeOK, OnePlace
<1>3. Phased' /\ NothingLeaked'
  BY DEF Phased, Filling, NothingLeaked
<1> QED
  BY <1>2, <1>3

LEMMA FillEndInv == ASSUME Inv, FillEnd PROVE Inv'
<1> USE DEF Inv, FillEnd, inputs, memory, run, chunk
<1>1. TypeOK' /\ OnePlace'
  BY DEF TypeOK, OnePlace
<1>2. Phased' /\ NothingLeaked'
  BY DEF Phased, Filling, InMemoryOnly, NothingLeaked
<1> QED
  BY <1>1, <1>2

LEMMA SpillInv == ASSUME Inv, Spill PROVE Inv'
<1> USE DEF Inv, Spill, inputs, memory, run, chunk
<1>1. /\ right_run' \in Seq(Row)
      /\ Distinct(right_run')
  BY Joined DEF TypeOK, OnePlace
<1>2. right_reader = {} /\ current_mem_right_idx = 0 /\ freed = 0 /\ left_chunk = <<>>
  BY DEF Phased, Filling
<1>3. TypeOK'
  BY <1>1, <1>2, Empty DEF TypeOK
<1>4. OnePlace'
  BY <1>1, Empty DEF OnePlace
<1>5. Phased' /\ NothingLeaked'
  BY DEF Phased, Filling, OnDiskOnly, Owner, NothingLeaked
<1> QED
  BY <1>3, <1>4, <1>5

(* The row the left input delivers next is no longer in the input.         *)
LEMMA NextLeftTakes ==
    ASSUME TypeOK, OnePlace, NextLeft, UNCHANGED left_chunk
    PROVE  /\ left' \in Seq(Row) /\ Distinct(left') /\ ToSet(left') \subseteq ToSet(left)
           /\ current_left_row' \subseteq Row
           /\ ToSet(left) = ToSet(left') \cup current_left_row'
           /\ ToSet(left') \cap current_left_row' = {}
           /\ \A l, m \in current_left_row' : l = m
           /\ current_left_row' = {} => left = <<>> /\ left' = <<>>
<1>1. CASE left = <<>>
  BY <1>1, Empty DEF NextLeft, OnePlace
<1>2. CASE left # <<>>
  <2>1. left \in Seq(Row) /\ left' = Tail(left) /\ current_left_row' = {Head(left)}
    BY <1>2 DEF TypeOK, NextLeft
  <2> QED
    BY <1>2, <2>1, HeadAndTail DEF OnePlace
<1> QED
  BY <1>1, <1>2

LEMMA FirstLeftInv == ASSUME Inv, FirstLeft PROVE Inv'
<1> USE DEF Inv, FirstLeft, run, chunk
<1>1. /\ left' \in Seq(Row) /\ Distinct(left') /\ ToSet(left') \subseteq ToSet(left)
      /\ current_left_row' \subseteq Row /\ ToSet(left') \cap current_left_row' = {}
      /\ \A l, m \in current_left_row' : l = m
      /\ current_left_row' = {} => left' = <<>>
  BY NextLeftTakes
<1>2. TypeOK' /\ OnePlace'
  BY <1>1 DEF TypeOK, OnePlace
<1>3. left_chunk = <<>> /\ chunk_left_idx = 0 /\ right_reader = {} /\ ~done /\ freed = 0
  BY DEF Phased, Filling
<1>4. Phased' /\ NothingLeaked'
  BY <1>1, <1>3 DEF Phased, Filling, InMemoryOnly, OnDiskOnly, Owner, NothingLeaked
<1> QED
  BY <1>2, <1>4

-----------------------------------------------------------------------------
LEMMA NextInMemoryInv == ASSUME Inv, NextInMemory PROVE Inv'
<1> USE DEF Inv, NextInMemory, Memory, inputs, run, chunk
<1>1. Len(right_rows_mem) \in Nat /\ DOMAIN right_rows_mem = 1 .. Len(right_rows_mem)
  BY Elements DEF TypeOK
<1>2. current_mem_right_idx' \in 0 .. Len(right_rows_mem)
      /\ current_mem_right_idx + 1 \in 1 .. Len(right_rows_mem)
  BY <1>1 DEF TypeOK
<1>3. right_rows_mem[current_mem_right_idx + 1] \in Row
  BY <1>2 DEF TypeOK
<1>4. TypeOK'
  BY <1>2, <1>3 DEF TypeOK
<1>5. OnePlace'
  BY DEF OnePlace
<1>6. Phased' /\ NothingLeaked'
  BY DEF Phased, InMemoryOnly, OnDiskOnly, NothingLeaked
<1> QED
  BY <1>4, <1>5, <1>6

LEMMA NextLeftRowInv == ASSUME Inv, NextLeftRow PROVE Inv'
<1> USE DEF Inv, NextLeftRow, Memory, run, chunk
<1>1. /\ left' \in Seq(Row) /\ Distinct(left') /\ ToSet(left') \subseteq ToSet(left)
      /\ current_left_row' \subseteq Row /\ ToSet(left') \cap current_left_row' = {}
      /\ \A l, m \in current_left_row' : l = m
      /\ current_left_row' = {} => left' = <<>>
  BY NextLeftTakes
<1>2. 0 \in 0 .. Len(right_rows_mem)
  BY Elements DEF TypeOK
<1>3. TypeOK' /\ OnePlace'
  BY <1>1, <1>2 DEF TypeOK, OnePlace
<1>4. Phased' /\ NothingLeaked'
  BY <1>1 DEF Phased, InMemoryOnly, OnDiskOnly, NothingLeaked
<1> QED
  BY <1>3, <1>4

(* The next chunk is a beginning of what is left of the input, and not     *)
(* empty.                                                                  *)
LEMMA ChunkTaken ==
    ASSUME Inv, OpenChunk
    PROVE  /\ left_chunk' \in Seq(Row) /\ left' \in Seq(Row)
           /\ Len(left_chunk') \in Nat \ {0}
           /\ Distinct(left_chunk') /\ Distinct(left')
           /\ ToSet(left) = ToSet(left_chunk') \cup ToSet(left')
           /\ ToSet(left_chunk') \cap ToSet(left') = {}
           /\ right_reader = {} /\ right_reader' = {0} /\ chunk_left_idx = 0
<1> DEFINE n == Min({ChunkRows, Len(left)})
<1>1. left \in Seq(Row) /\ Len(left) \in Nat \ {0} /\ ChunkRows \in Nat \ {0}
  BY CrossAssumption, Elements DEF Inv, TypeOK, OpenChunk
<1>2. n \in {ChunkRows, Len(left)} /\ n <= ChunkRows /\ n <= Len(left)
  <2>1. \E x \in {ChunkRows, Len(left)} : \A y \in {ChunkRows, Len(left)} : x <= y
    BY <1>1
  <2> QED
    BY <2>1 DEF Min
<1>3. n \in 0 .. Len(left) /\ n # 0
  BY <1>1, <1>2
<1>4. left_chunk' = SubSeq(left, 1, n) /\ left' = SubSeq(left, n + 1, Len(left))
  BY DEF OpenChunk
<1> HIDE DEF n
<1>5. right_reader = {} /\ right_reader' = {0} /\ chunk_left_idx = 0
  BY DEF Inv, Phased, OpenChunk, OnDisk
<1>6. Distinct(left)
  BY DEF Inv, OnePlace
<1> QED
  BY <1>1, <1>3, <1>4, <1>5, <1>6, SplitAt

LEMMA OpenChunkInv == ASSUME Inv, OpenChunk PROVE Inv'
<1> USE DEF Inv, OpenChunk, OnDisk, memory, run
<1>1. /\ left_chunk' \in Seq(Row) /\ left' \in Seq(Row)
      /\ Len(left_chunk') \in Nat \ {0}
      /\ Distinct(left_chunk') /\ Distinct(left')
      /\ ToSet(left) = ToSet(left_chunk') \cup ToSet(left')
      /\ ToSet(left_chunk') \cap ToSet(left') = {}
      /\ right_reader = {} /\ right_reader' = {0} /\ chunk_left_idx = 0
  BY ChunkTaken
<1>2. Len(right_run) \in Nat /\ left_chunk' # <<>> /\ {0} \subseteq 0 .. Len(right_run)
  BY <1>1, Elements, Empty DEF TypeOK
<1>3. TypeOK'
  BY <1>1, <1>2 DEF TypeOK
<1>4. OnePlace'
  BY <1>1 DEF OnePlace
<1>5. owned /\ freed = 0
  BY DEF Phased, Owner
<1>6. ~done
  BY DEF Phased
<1>7. Phased' /\ NothingLeaked'
  BY <1>1, <1>2, <1>5, <1>6 DEF Phased, InMemoryOnly, OnDiskOnly, Owner, NothingLeaked
<1> QED
  BY <1>3, <1>4, <1>7

(* Where the cursors of the chunk are before and after a pair.             *)
LEMMA OnDiskStep ==
    ASSUME Inv, NextOnDisk
    PROVE  \E p \in 0 .. Len(right_run) - 1 :
              /\ right_reader = {p}
              /\ Len(right_run) \in Nat /\ Len(left_chunk) \in Nat
              /\ chunk_left_idx \in 0 .. Len(left_chunk) - 1
              /\ out' = {<<left_chunk[chunk_left_idx + 1], right_run[p + 1]>>}
              /\ \/ /\ chunk_left_idx + 1 < Len(left_chunk)
                    /\ chunk_left_idx' = chunk_left_idx + 1 /\ right_reader' = {p}
                 \/ /\ chunk_left_idx + 1 = Len(left_chunk)
                    /\ chunk_left_idx' = 0 /\ right_reader' = {p + 1}
<1>1. PICK p \in right_reader :
         /\ p < Len(right_run)
         /\ out' = {<<left_chunk[chunk_left_idx + 1], right_run[p + 1]>>}
         /\ right_reader' = {IF NextIdx = 0 THEN p + 1 ELSE p}
  BY DEF NextOnDisk
<1>2. Len(right_run) \in Nat /\ Len(left_chunk) \in Nat \ {0}
  BY Elements DEF Inv, TypeOK, NextOnDisk
<1>3. right_reader = {p} /\ p \in 0 .. Len(right_run) - 1
  <2>1. right_reader = {p}
    BY <1>1 DEF Inv, OnePlace
  <2>2. p \in 0 .. Len(right_run)
    BY <1>1 DEF Inv, TypeOK
  <2> QED
    BY <1>1, <1>2, <2>1, <2>2
<1>4. chunk_left_idx \in 0 .. Len(left_chunk) - 1
  BY <1>2 DEF Inv, TypeOK
<1>5. chunk_left_idx + 1 < Len(left_chunk) => NextIdx = chunk_left_idx + 1
  BY <1>2, <1>4 DEF NextIdx
<1>6. chunk_left_idx + 1 = Len(left_chunk) => NextIdx = 0
  BY <1>2, <1>4 DEF NextIdx
<1>7. chunk_left_idx + 1 < Len(left_chunk) \/ chunk_left_idx + 1 = Len(left_chunk)
  BY <1>2, <1>4
<1>8. chunk_left_idx' = NextIdx /\ (chunk_left_idx + 1 < Len(left_chunk) => NextIdx # 0)
  BY <1>2, <1>4, <1>5 DEF NextOnDisk
<1> QED
  BY <1>1, <1>2, <1>3, <1>4, <1>5, <1>6, <1>7, <1>8

LEMMA NextOnDiskInv == ASSUME Inv, NextOnDisk PROVE Inv'
<1> USE DEF Inv
<1>1. PICK p \in 0 .. Len(right_run) - 1 :
         /\ right_reader = {p}
         /\ Len(right_run) \in Nat /\ Len(left_chunk) \in Nat
         /\ chunk_left_idx \in 0 .. Len(left_chunk) - 1
         /\ out' = {<<left_chunk[chunk_left_idx + 1], right_run[p + 1]>>}
         /\ \/ /\ chunk_left_idx + 1 < Len(left_chunk)
               /\ chunk_left_idx' = chunk_left_idx + 1 /\ right_reader' = {p}
            \/ /\ chunk_left_idx + 1 = Len(left_chunk)
               /\ chunk_left_idx' = 0 /\ right_reader' = {p + 1}
  BY OnDiskStep
<1> USE DEF NextOnDisk, OnDisk, inputs, memory, run
<1>2. left_chunk[chunk_left_idx + 1] \in Row /\ right_run[p + 1] \in Row
  BY <1>1 DEF TypeOK
<1>3. right_reader' \subseteq 0 .. Len(right_run) /\ right_reader' # {}
  BY <1>1
<1>4. chunk_left_idx' \in Nat /\ (chunk_left_idx' = 0 \/ chunk_left_idx' < Len(left_chunk))
  BY <1>1
<1>5. TypeOK'
  BY <1>1, <1>2, <1>3, <1>4 DEF TypeOK
<1>6. OnePlace'
  BY <1>1 DEF OnePlace
<1>7. Len(right_run) \in right_reader' => chunk_left_idx' = 0
  BY <1>1
<1>8. Phased' /\ NothingLeaked'
  BY <1>3, <1>7 DEF Phased, InMemoryOnly, OnDiskOnly, Owner, NothingLeaked
<1> QED
  BY <1>5, <1>6, <1>8

LEMMA ChunkDoneInv == ASSUME Inv, ChunkDone PROVE Inv'
<1> USE DEF Inv, ChunkDone, OnDisk, inputs, memory, run
<1>1. chunk_left_idx = 0
  BY DEF Phased
<1>2. TypeOK'
  BY <1>1, Empty DEF TypeOK
<1>3. OnePlace'
  BY Empty DEF OnePlace
<1>4. Phased' /\ NothingLeaked'
  BY <1>1 DEF Phased, InMemoryOnly, OnDiskOnly, Owner, NothingLeaked
<1> QED
  BY <1>2, <1>3, <1>4

LEMMA NextNoneInMemoryInv == ASSUME Inv, NextNoneInMemory PROVE Inv'
<1> USE DEF Inv, NextNoneInMemory, Memory, inputs, memory, run, chunk
<1>1. TypeOK' /\ OnePlace'
  BY DEF TypeOK, OnePlace
<1>2. Phased' /\ NothingLeaked'
  BY DEF Phased, InMemoryOnly, OnDiskOnly, NothingLeaked
<1> QED
  BY <1>1, <1>2

LEMMA NextNoneOnDiskInv == ASSUME Inv, NextNoneOnDisk PROVE Inv'
<1> USE DEF Inv, NextNoneOnDisk, OnDisk, inputs, memory, run, chunk
<1>2. freed' \in Nat /\ ~owned' /\ freed' >= 1
  BY DEF Phased, Owner, TypeOK
<1>t. TypeOK'
  BY <1>2 DEF TypeOK
<1>1. TypeOK' /\ OnePlace'
  BY <1>t DEF OnePlace
<1>3. Phased' /\ NothingLeaked'
  BY <1>2 DEF Phased, InMemoryOnly, OnDiskOnly, Owner, NothingLeaked
<1> QED
  BY <1>1, <1>3

LEMMA DropInv == ASSUME Inv, Drop PROVE Inv'
<1> USE DEF Inv, Drop, inputs, memory, run, chunk
<1>1. Cardinality(right_reader) \in Nat
  <2>1. right_reader = {} \/ \E a \in right_reader : right_reader = {a}
    BY DEF OnePlace
  <2>2. CASE right_reader = {}
    BY <2>2, FS_EmptySet
  <2>3. ASSUME NEW a \in right_reader, right_reader = {a} PROVE Cardinality(right_reader) = 1
    BY <2>3, FS_Singleton
  <2> QED
    BY <2>1, <2>2, <2>3
<1>f. freed' \in Nat /\ owned' \in BOOLEAN
  <2>1. freed \in Nat /\ (IF owned THEN 1 ELSE 0) \in Nat
    BY DEF TypeOK
  <2>2. freed' = freed + (IF owned THEN 1 ELSE 0) + Cardinality(right_reader) /\ owned' = FALSE
    OBVIOUS
  <2>3. \A a, b, c \in Nat : a + b + c \in Nat
    OBVIOUS
  <2> QED
    BY <1>1, <2>1, <2>2, <2>3
<1>t. TypeOK'
  BY <1>f DEF TypeOK
<1>2. TypeOK' /\ OnePlace'
  BY <1>t DEF OnePlace
<1>3. right_run # <<>> => owned \/ freed >= 1
  BY DEF Phased, InMemoryOnly, Owner
<1>4. right_run # <<>> => freed' >= 1
  <2>1. freed \in Nat
    BY DEF TypeOK
  <2> QED
    BY <1>1, <1>3, <2>1
<1>5. Phased' /\ NothingLeaked'
  BY <1>4 DEF Phased, NothingLeaked
<1> QED
  BY <1>2, <1>5

LEMMA NextInv == Inv /\ [Next]_vars => Inv'
<1> SUFFICES ASSUME Inv, [Next]_vars PROVE Inv'
  OBVIOUS
<1>1. CASE UNCHANGED vars
  <2>1. TypeOK' /\ OnePlace'
    BY <1>1 DEF Inv, vars, inputs, memory, run, chunk, TypeOK, OnePlace
  <2>2. Phased' /\ NothingLeaked'
    BY <1>1 DEF Inv, vars, inputs, memory, run, chunk, Phased, Filling, InMemoryOnly,
                OnDiskOnly, Owner, NothingLeaked
  <2> QED
    BY <2>1, <2>2 DEF Inv
<1> QED
  BY <1>1, FillRowInv, FillOverflowInv, FillEndInv, SpillInv, FirstLeftInv, NextInMemoryInv,
     NextLeftRowInv, OpenChunkInv, NextOnDiskInv, ChunkDoneInv, NextNoneInMemoryInv,
     NextNoneOnDiskInv, DropInv DEF Next

(* Everything is of its type: no index leaves its buffer, chunk or run.    *)
THEOREM Types == Spec => []TypeOK
<1>1. Inv => TypeOK
  BY DEF Inv
<1> QED
  BY <1>1, InitInv, NextInv, PTL DEF Spec

(* The run does not go back while left rows have still to meet it.         *)
THEOREM Holds == Spec => []HeldWhileRead
<1>1. Inv => HeldWhileRead
  BY DEF Inv, Phased, InMemoryOnly, Owner, HeldWhileRead
<1> QED
  BY <1>1, InitInv, NextInv, PTL DEF Spec

(* After the drop the run has been given back.                             *)
THEOREM Leaks == Spec => []NothingLeaked
<1>1. Inv => NothingLeaked
  BY DEF Inv
<1> QED
  BY <1>1, InitInv, NextInv, PTL DEF Spec

-----------------------------------------------------------------------------
(* What is pending, in either mode.                                        *)
InMemoryPending ==
    (ToSet(left) \X ToSet(right_rows_mem))
    \cup (current_left_row \X Rest(right_rows_mem, current_mem_right_idx))

OnDiskPending ==
    (ToSet(left) \X ToSet(right_run)) \cup (UNION { ToMeet(p) : p \in right_reader })

LEMMA PendingIs ==
    /\ Inv /\ Memory => Pending = InMemoryPending
    /\ Inv /\ OnDisk => Pending = OnDiskPending
<1>1. ASSUME Inv, Memory PROVE Pending = InMemoryPending
  <2>1. right = <<>> /\ right_run = <<>> /\ in_memory_mode
    BY <1>1 DEF Inv, Phased, InMemoryOnly, Memory
  <2>2. ToSet(right_rows_mem) \cup ToSet(right_run) \cup ToSet(right) = ToSet(right_rows_mem)
    BY <2>1, Empty
  <2> QED
    BY <2>1, <2>2 DEF Pending, InMemoryPending
<1>2. ASSUME Inv, OnDisk PROVE Pending = OnDiskPending
  <2>1. right = <<>> /\ right_rows_mem = <<>> /\ ~in_memory_mode
    BY <1>2 DEF Inv, Phased, OnDiskOnly, OnDisk
  <2>2. ToSet(right_rows_mem) \cup ToSet(right_run) \cup ToSet(right) = ToSet(right_run)
    BY <2>1, Empty
  <2> QED
    BY <2>1, <2>2 DEF Pending, OnDiskPending
<1> QED
  BY <1>1, <1>2

LEMMA PendingIsNext ==
    /\ Inv' /\ Memory' => Pending' = InMemoryPending'
    /\ Inv' /\ OnDisk' => Pending' = OnDiskPending'
<1>1. (/\ Inv /\ Memory => Pending = InMemoryPending
       /\ Inv /\ OnDisk => Pending = OnDiskPending)'
  BY PendingIs, PTL
<1> QED
  BY <1>1

(* Left row i of the chunk under the row after q of the run.               *)
Meet(q, i) ==
    (ToSet(left_chunk) \X Rest(right_run, q + 1))
    \cup (Rest(left_chunk, i) \X { right_run[k] : k \in {q + 1} \cap DOMAIN right_run })

LEMMA MeetIs ==
    ASSUME Inv, NEW q \in 0 .. Len(right_run), NEW i
    PROVE  /\ q = Len(right_run) => Meet(q, i) = {}
           /\ q < Len(right_run) =>
                 Meet(q, i) = (ToSet(left_chunk) \X Rest(right_run, q + 1))
                              \cup (Rest(left_chunk, i) \X {right_run[q + 1]})
<1>1. right_run \in Seq(Row) /\ DOMAIN right_run = 1 .. Len(right_run) /\ Len(right_run) \in Nat
  BY Elements DEF Inv, TypeOK
<1>2. ASSUME q = Len(right_run) PROVE Meet(q, i) = {}
  <2>1. SubSeq(right_run, q + 1 + 1, Len(right_run)) = <<>>
    BY <1>1, <1>2
  <2>2. Rest(right_run, q + 1) = {}
    BY <2>1, Empty DEF Rest
  <2>3. { right_run[k] : k \in {q + 1} \cap DOMAIN right_run } = {}
    BY <1>1, <1>2
  <2> QED
    BY <2>2, <2>3 DEF Meet
<1>3. ASSUME q < Len(right_run)
      PROVE  { right_run[k] : k \in {q + 1} \cap DOMAIN right_run } = {right_run[q + 1]}
  <2>1. {q + 1} \cap DOMAIN right_run = {q + 1}
    BY <1>1, <1>3
  <2> QED
    BY <2>1
<1> QED
  BY <1>2, <1>3 DEF Meet

LEMMA OnDiskPendingIs ==
    /\ OnDiskPending = (ToSet(left) \X ToSet(right_run))
                       \cup (UNION { Meet(q, chunk_left_idx) : q \in right_reader })
    /\ UNCHANGED <<left, left_chunk, right_run>> =>
          OnDiskPending' = (ToSet(left) \X ToSet(right_run))
                           \cup (UNION { Meet(q, chunk_left_idx') : q \in right_reader' })
BY DEF OnDiskPending, ToMeet, Meet

-----------------------------------------------------------------------------
LEMMA InMemoryDelivers ==
    ASSUME Inv, NextInMemory PROVE \E r \in Pending : Stream!Deliver(r)
<1> DEFINE k == current_mem_right_idx
           m == right_rows_mem
<1>1. PICK l \in current_left_row : out' = {<<l, m[k + 1]>>}
  BY DEF NextInMemory
<1>2. current_left_row = {l} /\ l \notin ToSet(left)
  BY DEF Inv, OnePlace
<1>3. m \in Seq(Row) /\ k \in 0 .. Len(m) /\ k < Len(m) /\ Distinct(m)
  BY DEF Inv, TypeOK, OnePlace, NextInMemory
<1>4. Rest(m, k) = {m[k + 1]} \cup Rest(m, k + 1) /\ m[k + 1] \notin Rest(m, k + 1)
  BY <1>3, RestOf
<1>5. Pending = (ToSet(left) \X ToSet(m)) \cup ({l} \X Rest(m, k))
  BY <1>2, PendingIs DEF NextInMemory, InMemoryPending
<1>6. Pending' = (ToSet(left) \X ToSet(m)) \cup ({l} \X Rest(m, k + 1))
  <2>1. Inv' /\ Memory'
    BY NextInMemoryInv DEF NextInMemory, Memory
  <2>2. /\ left' = left /\ right_rows_mem' = right_rows_mem
        /\ current_left_row' = current_left_row /\ current_mem_right_idx' = k + 1
    BY DEF NextInMemory, inputs
  <2> QED
    BY <1>2, <2>1, <2>2, PendingIsNext DEF Rest, InMemoryPending
<1> HIDE DEF k, m
<1>7. <<l, m[k + 1]>> \in Pending /\ Pending' = Pending \ {<<l, m[k + 1]>>}
  BY <1>2, <1>4, <1>5, <1>6
<1>8. ~done /\ done' = done
  BY <1>1 DEF Inv, Phased, NextInMemory, Memory
<1> QED
  BY <1>1, <1>7, <1>8 DEF Stream!Deliver

LEMMA OnDiskDelivers ==
    ASSUME Inv, NextOnDisk PROVE \E r \in Pending : Stream!Deliver(r)
<1> DEFINE k   == chunk_left_idx
           c   == left_chunk
           all == ToSet(left) \X ToSet(right_run)
<1>1. PICK p \in 0 .. Len(right_run) - 1 :
         /\ right_reader = {p}
         /\ Len(right_run) \in Nat /\ Len(left_chunk) \in Nat
         /\ k \in 0 .. Len(c) - 1
         /\ out' = {<<c[k + 1], right_run[p + 1]>>}
         /\ \/ k + 1 < Len(c) /\ chunk_left_idx' = k + 1 /\ right_reader' = {p}
            \/ k + 1 = Len(c) /\ chunk_left_idx' = 0 /\ right_reader' = {p + 1}
  BY OnDiskStep
<1>2. c \in Seq(Row) /\ right_run \in Seq(Row) /\ Distinct(c) /\ Distinct(right_run)
      /\ ToSet(left) \cap ToSet(c) = {}
  BY DEF Inv, TypeOK, OnePlace
<1>3. c[k + 1] \in ToSet(c) /\ right_run[p + 1] \in ToSet(right_run)
  BY <1>1, <1>2, Elements
<1>4. /\ Rest(c, k) = {c[k + 1]} \cup Rest(c, k + 1) /\ c[k + 1] \notin Rest(c, k + 1)
      /\ Rest(c, 0) = ToSet(c) /\ Rest(c, Len(c)) = {}
  <2>1. k \in 0 .. Len(c) /\ k < Len(c)
    BY <1>1
  <2> QED
    BY <1>2, <2>1, RestOf
<1>5. /\ right_run[p + 1] \notin Rest(right_run, p + 1)
      /\ p + 1 < Len(right_run) =>
            Rest(right_run, p + 1) = {right_run[p + 2]} \cup Rest(right_run, p + 2)
      /\ p + 1 = Len(right_run) => Rest(right_run, p + 1) = {}
  <2>1. p \in 0 .. Len(right_run) /\ p + 1 \in 0 .. Len(right_run) /\ p < Len(right_run)
        /\ (p + 1) + 1 = p + 2
    BY <1>1
  <2> QED
    BY <1>2, <2>1, RestOf
<1>6. Pending = all \cup ((ToSet(c) \X Rest(right_run, p + 1))
                          \cup (Rest(c, k) \X {right_run[p + 1]}))
  <2>1. Pending = all \cup Meet(p, k)
    BY <1>1, PendingIs, OnDiskPendingIs DEF NextOnDisk
  <2>2. p \in 0 .. Len(right_run) /\ p < Len(right_run)
    BY <1>1
  <2> QED
    BY <2>1, <2>2, MeetIs
<1>7. Inv' /\ OnDisk' /\ UNCHANGED <<left, right_run, left_chunk>>
  BY NextOnDiskInv DEF NextOnDisk, OnDisk, inputs, memory, run
<1>8. Pending' = all \cup ((ToSet(c) \X Rest(right_run, p + 1))
                           \cup (Rest(c, k + 1) \X {right_run[p + 1]}))
  <2>1. Pending' = all \cup (UNION { Meet(q, chunk_left_idx') : q \in right_reader' })
    BY <1>7, PendingIsNext, OnDiskPendingIs
  <2>2. CASE k + 1 < Len(c)
    <3>1. Pending' = all \cup Meet(p, k + 1)
      BY <1>1, <2>1, <2>2
    <3>2. p \in 0 .. Len(right_run) /\ p < Len(right_run)
      BY <1>1
    <3> QED
      BY <3>1, <3>2, MeetIs
  <2>3. CASE k + 1 = Len(c)
    <3>1. Pending' = all \cup Meet(p + 1, 0)
      BY <1>1, <2>1, <2>3
    <3>2. p + 1 \in 0 .. Len(right_run)
      BY <1>1
    <3>3. Rest(c, k + 1) = {}
      BY <1>4, <2>3
    <3>4. CASE p + 1 = Len(right_run)
      <4>1. Meet(p + 1, 0) = {} /\ Rest(right_run, p + 1) = {}
        BY <1>5, <3>2, <3>4, MeetIs
      <4> QED
        BY <3>1, <3>3, <4>1
    <3>5. CASE p + 1 < Len(right_run)
      <4>1. Meet(p + 1, 0) = (ToSet(c) \X Rest(right_run, (p + 1) + 1))
                             \cup (Rest(c, 0) \X {right_run[(p + 1) + 1]})
        BY <3>2, <3>5, MeetIs
      <4>2. (p + 1) + 1 = p + 2
        BY <1>1
      <4>3. Meet(p + 1, 0) = ToSet(c) \X Rest(right_run, p + 1)
        <5> HIDE DEF c
        <5> QED
          BY <1>4, <1>5, <3>5, <4>1, <4>2
      <4> QED
        BY <3>1, <3>3, <4>3
    <3> QED
      BY <1>1, <3>4, <3>5
  <2> QED
    BY <1>1, <2>2, <2>3
<1> DEFINE r == <<c[k + 1], right_run[p + 1]>>
<1>9. r \in Pending /\ Pending' = Pending \ {r}
  <2>1. r \notin all
    BY <1>2, <1>3
  <2> HIDE DEF k, c, all
  <2>2. Pending = Pending' \cup {r}
    BY <1>3, <1>4, <1>5, <1>6, <1>8
  <2>3. r \notin Pending'
    BY <1>4, <1>5, <1>8, <2>1
  <2> QED
    BY <2>2, <2>3
<1>10. ~done /\ done' = done
  BY <1>1 DEF Inv, Phased, NextOnDisk, OnDisk
<1> QED
  BY <1>1, <1>9, <1>10 DEF Stream!Deliver

-----------------------------------------------------------------------------
(* A new left row, and a new or a finished chunk, promise what was promised. *)
LEMMA NextLeftRowSilent == ASSUME Inv, NextLeftRow PROVE UNCHANGED <<Pending, out, done>>
<1> DEFINE m == right_rows_mem
<1>1. ToSet(left) = ToSet(left') \cup current_left_row'
  BY NextLeftTakes DEF Inv, NextLeftRow, chunk
<1>2. m \in Seq(Row) /\ current_mem_right_idx = Len(m) /\ current_mem_right_idx' = 0
      /\ right_rows_mem' = m
  BY DEF Inv, TypeOK, NextLeftRow
<1>3. Rest(m, 0) = ToSet(m) /\ Rest(m, Len(m)) = {}
  BY <1>2, RestOf, Elements
<1>4. Pending = (ToSet(left) \X ToSet(m)) \cup (current_left_row \X Rest(m, Len(m)))
  BY <1>2, PendingIs DEF NextLeftRow, InMemoryPending
<1>5. Pending' = (ToSet(left') \X ToSet(m)) \cup (current_left_row' \X Rest(m, 0))
  <2>1. Inv' /\ Memory'
    BY NextLeftRowInv DEF NextLeftRow, Memory
  <2> QED
    BY <1>2, <2>1, PendingIsNext DEF InMemoryPending, Rest
<1>6. Pending' = Pending
  <2> HIDE DEF m
  <2> QED
    BY <1>1, <1>3, <1>4, <1>5
<1> QED
  BY <1>6 DEF NextLeftRow

LEMMA OpenChunkSilent == ASSUME Inv, OpenChunk PROVE UNCHANGED <<Pending, out, done>>
<1> DEFINE run_rows == ToSet(right_run)
<1>1. /\ left_chunk' \in Seq(Row)
      /\ ToSet(left) = ToSet(left_chunk') \cup ToSet(left')
      /\ right_reader = {} /\ right_reader' = {0} /\ chunk_left_idx = 0
  BY ChunkTaken
<1>2. UNCHANGED <<right_run, chunk_left_idx, right_rows_mem, right, out, done>>
  BY DEF OpenChunk, memory, run
<1>3. Pending = ToSet(left) \X run_rows
  BY <1>1, PendingIs DEF OpenChunk, OnDiskPending
<1>4. Pending' = (ToSet(left') \X run_rows) \cup (ToSet(left_chunk') \X run_rows)
  <2>1. Inv' /\ OnDisk'
    BY OpenChunkInv DEF OpenChunk, OnDisk, memory
  <2>2. Pending' = (ToSet(left') \X run_rows)
                   \cup ((ToSet(left_chunk') \X Rest(right_run, 0 + 1))
                         \cup (Rest(left_chunk', 0)
                                 \X { right_run[k] : k \in {0 + 1} \cap DOMAIN right_run }))
    BY <1>1, <1>2, <2>1, PendingIsNext DEF OnDiskPending, ToMeet, Rest
  <2>3. right_run \in Seq(Row) /\ Len(right_run) \in Nat
        /\ DOMAIN right_run = 1 .. Len(right_run)
    BY Elements DEF Inv, TypeOK
  <2>4. Rest(left_chunk', 0) = ToSet(left_chunk')
    BY <1>1, RestOf, Elements
  <2>5. run_rows = Rest(right_run, 0 + 1)
                   \cup { right_run[k] : k \in {0 + 1} \cap DOMAIN right_run }
    <3>1. CASE Len(right_run) = 0
      <4>1. right_run = <<>>
        BY <2>3, <3>1
      <4>s. SubSeq(right_run, (0 + 1) + 1, Len(right_run)) = <<>>
        BY <2>3, <3>1
      <4>2. Rest(right_run, 0 + 1) = {}
        BY <4>s, Empty DEF Rest
      <4>3. { right_run[k] : k \in {0 + 1} \cap DOMAIN right_run } = {}
        BY <2>3, <3>1
      <4> QED
        BY <4>1, <4>2, <4>3, Empty
    <3>2. CASE Len(right_run) > 0
      <4>1. Rest(right_run, 0) = run_rows
            /\ Rest(right_run, 0) = {right_run[0 + 1]} \cup Rest(right_run, 0 + 1)
        BY <2>3, <3>2, RestOf
      <4>2. {0 + 1} \cap DOMAIN right_run = {0 + 1}
        BY <2>3, <3>2
      <4> QED
        BY <4>1, <4>2
    <3> QED
      BY <2>3, <3>1, <3>2
  <2> HIDE DEF run_rows
  <2> QED
    BY <2>2, <2>4, <2>5
<1> HIDE DEF run_rows
<1> QED
  BY <1>1, <1>2, <1>3, <1>4

LEMMA ChunkDoneSilent == ASSUME Inv, ChunkDone PROVE UNCHANGED <<Pending, out, done>>
<1>1. /\ right_reader = {Len(right_run)} /\ right_reader' = {}
      /\ UNCHANGED <<left, right, right_run, right_rows_mem, in_memory_mode, out, done>>
  BY DEF ChunkDone, inputs, memory, run
<1>2. Len(right_run) \in 0 .. Len(right_run)
  BY Elements DEF Inv, TypeOK
<1>3. Meet(Len(right_run), chunk_left_idx) = {}
  BY <1>2, MeetIs
<1>4. Pending = ToSet(left) \X ToSet(right_run)
  BY <1>1, <1>3, PendingIs, OnDiskPendingIs DEF ChunkDone
<1>5. Pending' = ToSet(left) \X ToSet(right_run)
  <2>1. Inv' /\ OnDisk'
    BY ChunkDoneInv DEF ChunkDone, OnDisk, memory
  <2> QED
    BY <1>1, <2>1, PendingIsNext DEF OnDiskPending
<1> QED
  BY <1>1, <1>4, <1>5

(* None comes when no pair is left.                                        *)
LEMMA NoneEnds == ASSUME Inv, NextNoneInMemory \/ NextNoneOnDisk PROVE Stream!End
<1>1. Pending = {}
  <2>1. CASE NextNoneInMemory
    <3>1. left = <<>> /\ current_left_row = {}
      BY <2>1 DEF NextNoneInMemory, Memory, Inv, Phased
    <3> QED
      BY <2>1, <3>1, PendingIs, Empty DEF NextNoneInMemory, InMemoryPending
  <2>2. CASE NextNoneOnDisk
    <3>1. left = <<>> /\ right_reader = {}
      BY <2>2 DEF NextNoneOnDisk, OnDisk, Inv, Phased
    <3> QED
      BY <2>2, <3>1, PendingIs, Empty DEF NextNoneOnDisk, OnDiskPending
  <2> QED
    BY <2>1, <2>2
<1>2. UNCHANGED <<inputs, memory, right_run, chunk, out>> /\ done' = TRUE
  BY DEF NextNoneInMemory, NextNoneOnDisk, run
<1>3. UNCHANGED Pending
  BY <1>2 DEF inputs, memory, chunk, Pending, ToMeet, Rest
<1> QED
  BY <1>1, <1>2, <1>3 DEF Stream!End

LEMMA DropSilent == ASSUME Drop \/ UNCHANGED vars PROVE UNCHANGED <<Pending, out, done>>
<1>1. UNCHANGED <<inputs, memory, right_run, chunk, out, done>>
  BY DEF Drop, vars, run
<1> QED
  BY <1>1 DEF inputs, memory, chunk, Pending, ToMeet, Rest

(* Every pair of the rows that new has kept comes once, in memory or on    *)
(* disk, wherever the left input ends in its chunks; None after the last.  *)
THEOREM Crosses == Spec => CrossesKept
<1>1. Inv /\ [Next]_vars => (phase = "ready" => [Stream!Next]_<<Pending, out, done>>)
  <2> SUFFICES ASSUME Inv, [Next]_vars, phase = "ready"
               PROVE  [Stream!Next]_<<Pending, out, done>>
    OBVIOUS
  <2>1. CASE FillRow \/ FillOverflow \/ FillEnd \/ Spill \/ FirstLeft
    BY <2>1 DEF FillRow, FillOverflow, FillEnd, Spill, FirstLeft
  <2>2. CASE NextInMemory \/ NextOnDisk
    BY <2>2, InMemoryDelivers, OnDiskDelivers DEF Stream!Next
  <2>3. CASE NextLeftRow \/ OpenChunk \/ ChunkDone
    BY <2>3, NextLeftRowSilent, OpenChunkSilent, ChunkDoneSilent
  <2>4. CASE NextNoneInMemory \/ NextNoneOnDisk
    BY <2>4, NoneEnds DEF Stream!Next
  <2>5. CASE Drop \/ UNCHANGED vars
    BY <2>5, DropSilent
  <2> QED
    BY <2>1, <2>2, <2>3, <2>4, <2>5 DEF Next
<1>2. Spec => []Inv
  BY InitInv, NextInv, PTL DEF Spec
<1> QED
  BY <1>1, <1>2, PTL DEF Spec, CrossesKept

-----------------------------------------------------------------------------
(* Termination, but for fairness.                                          *)

Stage == CASE phase = "fill" -> 4 [] phase = "spill" -> 3 [] phase = "first_left" -> 2
           [] phase = "ready" -> 1 [] phase = "dropped" -> 0

(* Rows of the run the reader has not passed.                              *)
Unread == IF right_reader = {} THEN 0
          ELSE Len(right_run) - (CHOOSE pos \in right_reader : TRUE)

(* What is left to do: stages, rows of the inputs, the chunk, right rows   *)
(* to meet, left rows of the chunk to meet the right row.  A step may add  *)
(* to what comes later in the tuple.                                       *)
RowsLeft  == Len(right) + Len(left) + (IF current_left_row = {} THEN 0 ELSE 1)
Chunk     == IF left_chunk = <<>> THEN 0 ELSE 1
RightToMeet == Len(right_rows_mem) - current_mem_right_idx + Unread
LeftToMeet  == Len(left_chunk) - chunk_left_idx

Work == <<Stage, RowsLeft, Chunk, RightToMeet, LeftToMeet>>

Order == LexProductOrdering(OpToRel(<, Nat), Nat, 5)

LEMMA OrderWellFounded == IsWellFoundedOn(Order, [1 .. 5 -> Nat])
BY NatLessThanWellFounded, WFLexProductOrdering DEF Order

LEMMA LowerAt ==
    ASSUME NEW v \in [1 .. 5 -> Nat], NEW w \in [1 .. 5 -> Nat], NEW j \in 1 .. 5,
           v[j] < w[j], \A i \in 1 .. (j - 1) : v[i] = w[i]
    PROVE  <<v, w>> \in Order
<1>1. \A k \in 1 .. 5 : v[k] \in Nat /\ w[k] \in Nat
  OBVIOUS
<1> QED
  BY <1>1 DEF Order, LexProductOrdering, OpToRel

(* The parts of the measure are natural numbers.                           *)
Parts == Stage \in Nat /\ RowsLeft \in Nat /\ Chunk \in Nat /\ RightToMeet \in Nat /\ LeftToMeet \in Nat

LEMMA PartsNat == Inv => Parts
<1> SUFFICES ASSUME Inv PROVE Parts
  OBVIOUS
<1>1. /\ Len(right) \in Nat /\ Len(left) \in Nat /\ Len(right_rows_mem) \in Nat
      /\ Len(left_chunk) \in Nat /\ Len(right_run) \in Nat
  BY Elements DEF Inv, TypeOK
<1>2. Stage \in Nat
  BY DEF Inv, TypeOK, Stage
<1>3. Unread \in Nat
  <2>1. CASE right_reader = {}
    BY <2>1 DEF Unread
  <2>2. CASE right_reader # {}
    <3>1. PICK p \in right_reader : p = CHOOSE pos \in right_reader : TRUE
      BY <2>2
    <3>2. p \in 0 .. Len(right_run)
      BY DEF Inv, TypeOK
    <3> QED
      BY <1>1, <2>2, <3>1, <3>2 DEF Unread
  <2> QED
    BY <2>1, <2>2
<1>4. /\ current_mem_right_idx \in 0 .. Len(right_rows_mem)
      /\ chunk_left_idx \in Nat /\ (chunk_left_idx = 0 \/ chunk_left_idx < Len(left_chunk))
  BY DEF Inv, TypeOK
<1> QED
  BY <1>1, <1>2, <1>3, <1>4 DEF Parts, RowsLeft, Chunk, RightToMeet, LeftToMeet

LEMMA PartsNatNext == Inv' => Parts'
BY PartsNat, PTL

LEMMA Shorter ==
    ASSUME NEW S, NEW s \in Seq(S), s # <<>>
    PROVE  Len(Tail(s)) = Len(s) - 1 /\ Len(s) \in Nat
OBVIOUS

None == NextNoneInMemory \/ NextNoneOnDisk

LEMMA StageFalls ==
    ASSUME Inv, FillOverflow \/ FillEnd \/ Spill \/ FirstLeft \/ Drop
    PROVE  Stage' < Stage
BY DEF FillOverflow, FillEnd, Spill, FirstLeft, Drop, Stage

LEMMA RowsFall ==
    ASSUME Inv, FillRow \/ NextLeftRow \/ OpenChunk
    PROVE  Stage' = Stage /\ RowsLeft' < RowsLeft
<1>t. left \in Seq(Row) /\ right \in Seq(Row)
  BY DEF Inv, TypeOK
<1>i. Len(right) \in Nat /\ Len(left) \in Nat
  BY <1>t
<1>1. CASE FillRow
  <2>1. Len(right') = Len(right) - 1
    BY <1>t, <1>1, Shorter DEF FillRow
  <2> QED
    BY <1>i, <1>1, <2>1 DEF FillRow, Stage, RowsLeft
<1>2. CASE NextLeftRow
  <2>1. CASE left = <<>>
    BY <1>i, <1>2, <2>1 DEF NextLeftRow, NextLeft, Stage, RowsLeft
  <2>2. CASE left # <<>>
    <3>1. Len(left') = Len(left) - 1
      BY <1>t, <1>2, <2>2, Shorter DEF NextLeftRow, NextLeft
    <3> QED
      BY <1>i, <1>2, <2>2, <3>1 DEF NextLeftRow, NextLeft, Stage, RowsLeft
  <2> QED
    BY <2>1, <2>2
<1>3. CASE OpenChunk
  <2>1. Len(left') < Len(left) /\ Len(left') \in Nat
    <3> DEFINE n == Min({ChunkRows, Len(left)})
    <3>1. ChunkRows \in Nat \ {0} /\ Len(left) \in Nat \ {0}
      BY <1>t, <1>3, CrossAssumption DEF OpenChunk
    <3>2. n \in {ChunkRows, Len(left)} /\ n <= Len(left)
      <4>1. \E x \in {ChunkRows, Len(left)} : \A y \in {ChunkRows, Len(left)} : x <= y
        BY <3>1
      <4> QED
        BY <4>1 DEF Min
    <3>3. left' = SubSeq(left, n + 1, Len(left))
      BY <1>3 DEF OpenChunk
    <3> HIDE DEF n
    <3>4. n \in 0 .. Len(left)
      BY <3>1, <3>2
    <3>5. Len(left') = Len(left) - n
      BY <1>t, <3>3, <3>4, Stretch
    <3> QED
      BY <3>1, <3>2, <3>5
  <2> QED
    <3>1. right' = right /\ phase' = phase /\ current_left_row' = current_left_row
      BY <1>3 DEF OpenChunk, memory
    <3> QED
      BY <1>i, <2>1, <3>1 DEF Stage, RowsLeft
<1> QED
  BY <1>1, <1>2, <1>3

LEMMA ChunkFalls ==
    ASSUME Inv, ChunkDone
    PROVE  Stage' = Stage /\ RowsLeft' = RowsLeft /\ Chunk' < Chunk
BY DEF ChunkDone, inputs, memory, Stage, RowsLeft, Chunk

LEMMA PairFalls ==
    ASSUME Inv, NextInMemory \/ NextOnDisk
    PROVE  /\ Stage' = Stage /\ RowsLeft' = RowsLeft /\ Chunk' = Chunk
           /\ RightToMeet' < RightToMeet \/ (RightToMeet' = RightToMeet /\ LeftToMeet' < LeftToMeet)
<1>1. Stage' = Stage /\ RowsLeft' = RowsLeft /\ Chunk' = Chunk
  BY DEF NextInMemory, NextOnDisk, inputs, memory, chunk, Stage, RowsLeft, Chunk
<1>2. Len(right_rows_mem) \in Nat /\ current_mem_right_idx \in Nat
  BY Elements DEF Inv, TypeOK
<1>3. CASE NextInMemory
  <2>1. Unread \in Nat
    BY <1>3 DEF Inv, Phased, InMemoryOnly, NextInMemory, Memory, Unread
  <2>2. Unread' = Unread
    BY <1>3 DEF NextInMemory, run, chunk, Unread
  <2> QED
    BY <1>1, <1>2, <1>3, <2>1, <2>2 DEF NextInMemory, RightToMeet
<1>4. CASE NextOnDisk
  <2>1. PICK p \in 0 .. Len(right_run) - 1 :
           /\ right_reader = {p}
           /\ Len(right_run) \in Nat /\ Len(left_chunk) \in Nat
           /\ chunk_left_idx \in 0 .. Len(left_chunk) - 1
           /\ \/ /\ chunk_left_idx + 1 < Len(left_chunk)
                 /\ chunk_left_idx' = chunk_left_idx + 1 /\ right_reader' = {p}
              \/ /\ chunk_left_idx + 1 = Len(left_chunk)
                 /\ chunk_left_idx' = 0 /\ right_reader' = {p + 1}
    BY <1>4, OnDiskStep
  <2>2. /\ right_run' = right_run /\ right_rows_mem' = right_rows_mem
        /\ current_mem_right_idx' = current_mem_right_idx /\ left_chunk' = left_chunk
    BY <1>4 DEF NextOnDisk, run, memory
  <2>3. Unread = Len(right_run) - p
    BY <2>1 DEF Unread
  <2>4. CASE right_reader' = {p} /\ chunk_left_idx' = chunk_left_idx + 1
    <3>1. Unread' = Unread
      BY <2>1, <2>2, <2>4 DEF Unread
    <3> QED
      BY <1>1, <2>1, <2>2, <2>4, <3>1 DEF RightToMeet, LeftToMeet
  <2>5. CASE right_reader' = {p + 1}
    <3>1. Unread' = Len(right_run) - (p + 1)
      BY <2>1, <2>2, <2>5 DEF Unread
    <3> QED
      BY <1>1, <1>2, <2>1, <2>2, <2>3, <3>1 DEF RightToMeet
  <2> QED
    BY <2>1, <2>4, <2>5
<1> QED
  BY <1>3, <1>4

LEMMA StepLowers == Inv /\ Inv' /\ Next /\ ~None => <<Work', Work>> \in Order
<1> SUFFICES ASSUME Inv, Inv', Next, ~None PROVE <<Work', Work>> \in Order
  OBVIOUS
<1>1. Work \in [1 .. 5 -> Nat]
  BY PartsNat DEF Parts, Work
<1>2. Work' \in [1 .. 5 -> Nat]
  BY PartsNatNext DEF Parts, Work
<1>3. \E j \in 1 .. 5 : Work'[j] < Work[j] /\ \A i \in 1 .. (j - 1) : Work'[i] = Work[i]
  <2>1. CASE Stage' < Stage
    <3>1. Work'[1] < Work[1] /\ 1 .. (1 - 1) = {}
      BY <2>1 DEF Work
    <3> QED
      BY <3>1
  <2>2. CASE Stage' = Stage /\ RowsLeft' < RowsLeft
    <3>1. Work'[2] < Work[2] /\ \A i \in 1 .. (2 - 1) : Work'[i] = Work[i]
      BY <2>2 DEF Work
    <3> QED
      BY <3>1
  <2>3. CASE Stage' = Stage /\ RowsLeft' = RowsLeft /\ Chunk' < Chunk
    <3>1. Work'[3] < Work[3] /\ \A i \in 1 .. (3 - 1) : Work'[i] = Work[i]
      BY <2>3 DEF Work
    <3> QED
      BY <3>1
  <2>4. CASE Stage' = Stage /\ RowsLeft' = RowsLeft /\ Chunk' = Chunk /\ RightToMeet' < RightToMeet
    <3>1. Work'[4] < Work[4] /\ \A i \in 1 .. (4 - 1) : Work'[i] = Work[i]
      BY <2>4 DEF Work
    <3> QED
      BY <3>1
  <2>5. CASE /\ Stage' = Stage /\ RowsLeft' = RowsLeft /\ Chunk' = Chunk
             /\ RightToMeet' = RightToMeet /\ LeftToMeet' < LeftToMeet
    <3>1. Work'[5] < Work[5] /\ \A i \in 1 .. (5 - 1) : Work'[i] = Work[i]
      BY <2>5 DEF Work
    <3> QED
      BY <3>1
  <2> QED
    BY <2>1, <2>2, <2>3, <2>4, <2>5, StageFalls, RowsFall, ChunkFalls, PairFalls DEF Next, None
<1> QED
  BY <1>1, <1>2, <1>3, LowerAt

(* Every step of new and every turn of the loop of next() (169-233) that   *)
(* does not return None leaves less to do, in an order in which nothing    *)
(* falls for ever: reading the run over again for a chunk is paid for by   *)
(* the left rows the chunk took.                                           *)
TurnsLeadOn == [][None \/ <<Work', Work>> \in Order]_vars

THEOREM LoopEnds == Spec => TurnsLeadOn
<1>1. Spec => []Inv
  BY InitInv, NextInv, PTL DEF Spec
<1>2. Inv /\ Inv' /\ [Next]_vars => [None \/ <<Work', Work>> \in Order]_vars
  BY StepLowers
<1> QED
  BY <1>1, <1>2, PTL DEF Spec, TurnsLeadOn

(* Both readings of the loop find what they index: in a chunk there is one *)
(* reader, right_reader.as_mut().unwrap() (214) finds it, and the left     *)
(* index (217) is inside the chunk; in memory the left row is gone only    *)
(* after the last one.                                                     *)
CanTurn ==
    /\ OnDisk /\ left_chunk # <<>> =>
          /\ chunk_left_idx < Len(left_chunk)
          /\ \E pos \in 0 .. Len(right_run) : right_reader = {pos}
    /\ OnDisk /\ left_chunk = <<>> => right_reader = {} /\ chunk_left_idx = 0
    /\ Memory => /\ current_left_row = {} => left = <<>>
                 /\ current_mem_right_idx <= Len(right_rows_mem)

(* The product is never stuck and does not panic on its reader.            *)
THEOREM LoopGoesOn == Spec => []CanTurn
<1>1. Inv => CanTurn
  <2> SUFFICES ASSUME Inv PROVE CanTurn
    OBVIOUS
  <2>1. ASSUME OnDisk, left_chunk # <<>>
        PROVE  /\ chunk_left_idx < Len(left_chunk)
               /\ \E pos \in 0 .. Len(right_run) : right_reader = {pos}
    <3>1. Len(left_chunk) \in Nat /\ Len(left_chunk) # 0
      BY <2>1, Elements DEF Inv, TypeOK
    <3>2. chunk_left_idx = 0 \/ chunk_left_idx < Len(left_chunk)
      BY DEF Inv, TypeOK
    <3>3. right_reader # {} /\ \A a, b \in right_reader : a = b
      BY <2>1 DEF Inv, OnePlace, Phased, OnDisk
    <3>4. right_reader \subseteq 0 .. Len(right_run)
      BY DEF Inv, TypeOK
    <3>5. PICK p \in right_reader : right_reader = {p}
      BY <3>3
    <3> QED
      BY <3>1, <3>2, <3>4, <3>5
  <2>2. OnDisk /\ left_chunk = <<>> => right_reader = {} /\ chunk_left_idx = 0
    BY DEF Inv, Phased, OnDisk
  <2>3. Memory => /\ current_left_row = {} => left = <<>>
                  /\ current_mem_right_idx <= Len(right_rows_mem)
    <3>1. Len(right_rows_mem) \in Nat /\ current_mem_right_idx \in 0 .. Len(right_rows_mem)
      BY Elements DEF Inv, TypeOK
    <3> QED
      BY <3>1 DEF Inv, Phased, Memory
  <2> QED
    BY <2>1, <2>2, <2>3 DEF CanTurn
<1>2. Spec => []Inv
  BY InitInv, NextInv, PTL DEF Spec
<1> QED
  BY <1>1, <1>2, PTL
=============================================================================
