-------------------------- MODULE MergeJoinProofs --------------------------
(***************************************************************************)
(* Proofs about MergeJoin: it keeps its group whole, and it implements     *)
(* OperatorStream, for every pair of mergeable inputs; the loop of next()  *)
(* always goes on to its end, for every pair of inputs.                    *)
(***************************************************************************)
EXTENDS MergeJoin, WellFoundedInduction, TLAPS

(* next() has returned None only once nothing more could be joined.       *)
NoneIsFinal == done => pending_left_row = {} /\ ~(HasLeft /\ HasRight)

Inv == TypeOK /\ GroupIsWhole /\ NoneIsFinal

(* The parts of GroupIsWhole.                                              *)
Idle     == right_group = <<>> /\ right_group_idx = 0 /\ active_key = {}
Passed   == \A i \in left_row .. Len(lkey), j \in 1 .. right_row - 1 : rkey[j] < lkey[i]
Group(l) == /\ pending_left_row = {l} /\ l = left_row - 1
            /\ active_key = {lkey[l]} /\ Len(right_group) > 0
            /\ \A k \in 1 .. Len(right_group) :
                  /\ right_group[k] = FirstInGroup + k - 1
                  /\ Alike(lkey[l], rkey[right_group[k]])
Whole(l) == \A j \in 1 .. Len(rkey) : j < right_row /\ j >= FirstInGroup <=> rkey[j] = lkey[l]

LEMMA Parts ==
    GroupIsWhole <=> /\ pending_left_row = {} => Idle /\ (Mergeable => Passed)
                     /\ \A l \in pending_left_row : Group(l) /\ (Mergeable => Whole(l))
BY DEF GroupIsWhole, Idle, Passed, Group, Whole

LEMMA PartsNext ==
    GroupIsWhole' <=> /\ pending_left_row' = {} => Idle' /\ (Mergeable' => Passed')
                      /\ \A l \in pending_left_row' : Group(l)' /\ (Mergeable' => Whole(l)')
BY DEF GroupIsWhole, Idle, Passed, Group, Whole

(* What an input is to the provers, and what a mergeable pair of them.     *)
LEMMA InputIsSeq ==
    ASSUME NEW s \in Inputs
    PROVE  /\ s \in Seq(Keys) /\ Len(s) \in 0 .. MaxRows /\ DOMAIN s = 1 .. Len(s)
           /\ \A i \in 1 .. Len(s) : s[i] \in Int /\ s[i] \in Keys
<1>1. PICK n \in 0 .. MaxRows : s \in [1 .. n -> Keys]
  BY DEF Inputs
<1>2. n \in Nat /\ s \in Seq(Keys) /\ Len(s) = n
  BY <1>1, MergeAssumption
<1> QED
  BY <1>1, <1>2, MergeAssumption

LEMMA MergeableFacts ==
    ASSUME lkey \in Inputs, rkey \in Inputs, Mergeable
    PROVE  /\ same_type
           /\ \A i, j \in 1 .. Len(lkey) : i <= j => lkey[i] <= lkey[j]
           /\ \A i, j \in 1 .. Len(rkey) : i <= j => rkey[i] <= rkey[j]
BY InputIsSeq DEF Mergeable, Sorted

LEMMA FunctionIsSeq ==
    ASSUME NEW n \in Nat, NEW S, NEW f \in [1 .. n -> S]
    PROVE  f \in Seq(S) /\ Len(f) = n
OBVIOUS

LEMMA ElementOfSeq ==
    ASSUME NEW S, NEW s \in Seq(S), NEW i \in 1 .. Len(s)
    PROVE  s[i] \in S
OBVIOUS

LEMMA InitInv == Init => Inv
<1> SUFFICES ASSUME Init PROVE Inv
  OBVIOUS
<1>1. Len(lkey) \in Nat /\ Len(rkey) \in Nat
  BY InputIsSeq DEF Init
<1>2. <<>> \in Seq(1 .. MaxRows) /\ Len(<<>>) = 0
  OBVIOUS
<1>3. TypeOK
  <2>1. 1 \in 1 .. Len(lkey) + 1 /\ 1 \in 1 .. Len(rkey) + 1 /\ 0 \in 0 .. 0
    BY <1>1
  <2>2. right_group \in Seq(1 .. MaxRows) /\ right_group_idx \in 0 .. Len(right_group)
    BY <1>2, <2>1 DEF Init
  <2> QED
    BY <2>1, <2>2 DEF Init, TypeOK
<1>4. GroupIsWhole
  BY <1>1 DEF Init, GroupIsWhole, FirstInGroup
<1> QED
  BY <1>3, <1>4 DEF Inv, Init, NoneIsFinal

(* A new group is whole because the right input is sorted.                 *)
LEMMA OpenGroupInv == Inv /\ OpenGroup => Inv'
<1> SUFFICES ASSUME Inv, OpenGroup PROVE Inv'
  OBVIOUS
<1>i. /\ lkey \in Inputs /\ rkey \in Inputs
      /\ left_row \in 1 .. Len(lkey) /\ right_row \in 1 .. Len(rkey)
      /\ Alike(lkey[left_row], rkey[right_row])
  BY InputIsSeq DEF Inv, TypeOK, OpenGroup, HasLeft, HasRight
<1>l. /\ Len(lkey) \in 0 .. MaxRows /\ Len(rkey) \in 0 .. MaxRows /\ MaxRows \in Nat
      /\ \A i \in 1 .. Len(lkey) : lkey[i] \in Int /\ lkey[i] \in Keys
      /\ \A i \in 1 .. Len(rkey) : rkey[i] \in Int /\ rkey[i] \in Keys
  BY <1>i, InputIsSeq, MergeAssumption
<1>1. PICK j \in 1 .. Len(rkey) + 1 :
         /\ IsGroup(right_row, j)
         /\ right_group' = [k \in 1 .. (j - right_row) |-> right_row + k - 1]
         /\ right_row' = j
  BY DEF OpenGroup
<1>2. /\ right_row < j
      /\ \A k \in right_row .. (j - 1) : Alike(lkey[left_row], rkey[k])
      /\ j <= Len(rkey) => ~Alike(lkey[left_row], rkey[j])
  BY <1>1 DEF IsGroup
<1>3. /\ right_group' \in Seq(1 .. MaxRows) /\ Len(right_group') = j - right_row
      /\ \A k \in 1 .. Len(right_group') : right_group'[k] = right_row + k - 1
  <2>1. j - right_row \in Nat /\ \A k \in 1 .. (j - right_row) : right_row + k - 1 \in 1 .. MaxRows
    BY <1>1, <1>2, <1>i, <1>l
  <2>2. right_group' \in [1 .. (j - right_row) -> 1 .. MaxRows]
    BY <1>1, <2>1
  <2>3. right_group' \in Seq(1 .. MaxRows) /\ Len(right_group') = j - right_row
    BY <2>1, <2>2, FunctionIsSeq
  <2> QED
    BY <1>1, <2>1, <2>3
<1>4. TypeOK'
  <2>1. /\ left_row' = left_row + 1 /\ right_row' = j /\ right_group_idx' = 0
        /\ pending_left_row' = {left_row} /\ active_key' = {lkey[left_row]}
        /\ same_type' = same_type /\ lkey' = lkey /\ rkey' = rkey /\ out' = out /\ done' = done
    BY <1>1 DEF OpenGroup, input
  <2>2. left_row + 1 \in 1 .. Len(lkey) + 1 /\ left_row \in 1 .. MaxRows
    BY <1>i, <1>l
  <2>3. lkey[left_row] \in Keys /\ 0 \in 0 .. Len(right_group')
    BY <1>1, <1>2, <1>3, <1>i, <1>l
  <2> QED
    BY <1>3, <2>1, <2>2, <2>3 DEF Inv, TypeOK
<1>5. /\ pending_left_row' = {left_row} /\ active_key' = {lkey[left_row]}
      /\ left_row' = left_row + 1 /\ lkey' = lkey /\ rkey' = rkey /\ same_type' = same_type
  BY DEF OpenGroup, input
<1>6. ASSUME Mergeable, NEW k \in 1 .. Len(rkey)
      PROVE  k < j /\ k >= right_row <=> rkey[k] = lkey[left_row]
  <2>s. same_type /\ \A a, b \in 1 .. Len(rkey) : a <= b => rkey[a] <= rkey[b]
    BY <1>6, <1>i, MergeableFacts
  <2>1. k < right_row => rkey[k] < lkey[left_row]
    BY <1>6, <1>i DEF Inv, GroupIsWhole, FirstInGroup, OpenGroup, HasLeft
  <2>2. lkey[left_row] = rkey[right_row] /\ \A m \in right_row .. (j - 1) : rkey[m] = lkey[left_row]
    BY <1>2, <1>i, <2>s DEF Alike
  <2>3. k >= j => rkey[k] # lkey[left_row]
    <3>1. j <= Len(rkey) => rkey[j] # lkey[left_row]
      BY <1>2, <2>s DEF Alike
    <3> QED
      BY <1>1, <1>2, <1>i, <1>l, <2>s, <2>2, <3>1
  <2> QED
    BY <1>1, <1>2, <1>i, <1>l, <2>1, <2>2, <2>3
<1>7. right_row' - Len(right_group') = right_row
  <2>1. right_row' = j /\ Len(right_group') = j - right_row
    BY <1>1, <1>3
  <2>2. j \in Int /\ right_row \in Int
    BY <1>i, <1>l
  <2> QED
    BY <2>1, <2>2
<1>8. GroupIsWhole'
  <2>m. Mergeable' <=> Mergeable
    BY <1>5 DEF Mergeable
  <2>1. FirstInGroup' = right_row
    BY <1>7 DEF FirstInGroup
  <2>2. Len(right_group') > 0
    <3>1. right_row \in Int /\ j \in Int
      BY <1>i, <1>l
    <3> QED
      BY <1>2, <1>3, <3>1
  <2>3. ASSUME NEW k \in 1 .. Len(right_group')
        PROVE  /\ right_group'[k] = right_row + k - 1
               /\ same_type' => lkey'[left_row] = rkey'[right_group'[k]]
    <3>1. right_group'[k] \in right_row .. (j - 1)
      BY <1>1, <1>2, <1>3, <1>i, <1>l
    <3>2. Alike(lkey[left_row], rkey[right_group'[k]])
      BY <1>2, <3>1
    <3> QED
      BY <1>3, <1>5, <3>2 DEF Alike
  <2>4. ASSUME NEW l, l = left_row PROVE Group(l)'
    BY <1>5, <1>i, <1>l, <2>1, <2>2, <2>3, <2>4 DEF Group, Alike
  <2>5. ASSUME NEW l, l = left_row, Mergeable PROVE Whole(l)'
    BY <1>1, <1>5, <1>6, <2>1, <2>5 DEF Whole
  <2> QED
    BY <1>5, <2>m, <2>4, <2>5, PartsNext
<1> QED
  BY <1>4, <1>8, <1>5 DEF Inv, NoneIsFinal, OpenGroup

LEMMA NextInv == Inv /\ [Next]_vars => Inv'
<1> SUFFICES ASSUME Inv, [Next]_vars PROVE Inv'
  OBVIOUS
<1>i. /\ lkey \in Inputs /\ rkey \in Inputs
      /\ Len(lkey) \in 0 .. MaxRows /\ Len(rkey) \in 0 .. MaxRows /\ MaxRows \in Nat
      /\ \A i \in 1 .. Len(lkey) : lkey[i] \in Int /\ lkey[i] \in Keys
      /\ \A i \in 1 .. Len(rkey) : rkey[i] \in Int /\ rkey[i] \in Keys
  BY InputIsSeq, MergeAssumption DEF Inv, TypeOK
<1>m. /\ Mergeable' <=> Mergeable
      /\ \A l, r : Alike(l, r)' <=> Alike(l, r)
  <2>1. lkey' = lkey /\ rkey' = rkey /\ same_type' = same_type
    BY DEF Next, vars, input, NextPair, NextLeftInGroup, GroupDone, SkipLeft, SkipRight,
           OpenGroup, NextNone
  <2> QED
    BY <2>1 DEF Mergeable, Alike
<1>s. Mergeable => /\ same_type
                   /\ \A i, j \in 1 .. Len(lkey) : i <= j => lkey[i] <= lkey[j]
                   /\ \A i, j \in 1 .. Len(rkey) : i <= j => rkey[i] <= rkey[j]
  BY <1>i, MergeableFacts
<1>1. CASE NextPair
  <2>1. TypeOK'
    <3>1. PICK l \in pending_left_row : out' = {<<l, right_group[right_group_idx + 1]>>}
      BY <1>1 DEF NextPair
    <3>2. right_group_idx + 1 \in 1 .. Len(right_group) /\ right_group \in Seq(1 .. MaxRows)
      BY <1>1 DEF NextPair, Inv, TypeOK
    <3>3. right_group[right_group_idx + 1] \in 1 .. MaxRows
      BY <3>2, ElementOfSeq
    <3>4. out' \subseteq (1 .. MaxRows) \X (1 .. MaxRows)
      BY <3>1, <3>3 DEF Inv, TypeOK
    <3>5. right_group_idx' \in 0 .. Len(right_group')
      BY <1>1, <3>2 DEF NextPair, Inv, TypeOK
    <3> QED
      BY <1>1, <3>4, <3>5 DEF NextPair, Inv, TypeOK, input
  <2>2. GroupIsWhole'
    <3>1. /\ lkey' = lkey /\ rkey' = rkey /\ same_type' = same_type /\ left_row' = left_row
          /\ right_row' = right_row /\ pending_left_row' = pending_left_row
          /\ active_key' = active_key /\ right_group' = right_group /\ pending_left_row # {}
      BY <1>1 DEF NextPair, input
    <3>2. ASSUME NEW l \in pending_left_row
          PROVE  Group(l)' /\ (Mergeable => Whole(l)')
      <4>1. Group(l) /\ (Mergeable => Whole(l))
        BY Parts DEF Inv
      <4> QED
        BY <3>1, <4>1 DEF Group, Whole, FirstInGroup, Alike
    <3> QED
      BY <3>1, <3>2, <1>m, PartsNext
  <2> QED
    BY <1>1, <2>1, <2>2 DEF Inv, NoneIsFinal, NextPair
<1>2. CASE NextLeftInGroup
  <2>1. TypeOK'
    BY <1>2, <1>i DEF NextLeftInGroup, SameKey, HasLeft, Inv, TypeOK, input
  <2>2. PICK l \in pending_left_row :
           pending_left_row = {l} /\ l = left_row - 1 /\ active_key = {lkey[l]}
    BY <1>2 DEF NextLeftInGroup, GroupAtEnd, Inv, GroupIsWhole
  <2>3. lkey[left_row] = lkey[l]
    BY <1>2, <2>2 DEF NextLeftInGroup, SameKey
  <2>4. GroupIsWhole'
    <3>1. /\ lkey' = lkey /\ rkey' = rkey /\ same_type' = same_type /\ left_row' = left_row + 1
          /\ right_row' = right_row /\ pending_left_row' = {left_row}
          /\ active_key' = active_key /\ right_group' = right_group
          /\ left_row \in Int /\ left_row = left_row + 1 - 1
      BY <1>2 DEF NextLeftInGroup, input, Inv, TypeOK
    <3>2. Group(l) /\ (Mergeable => Whole(l))
      BY <2>2, Parts DEF Inv
    <3>3. ASSUME NEW m, m = left_row PROVE Group(m)'
      <4>1. /\ pending_left_row' = {m} /\ m = left_row' - 1 /\ active_key' = {lkey'[m]}
            /\ Len(right_group') > 0
        <5>1. m = left_row' - 1 /\ pending_left_row' = {m}
          <6>1. m = left_row /\ left_row' = left_row + 1 /\ left_row \in Int
            BY <3>1, <3>3
          <6>2. pending_left_row' = {m}
            BY <3>1, <3>3
          <6> QED
            BY <6>1, <6>2
        <5>2. active_key' = {lkey'[m]}
          BY <2>2, <2>3, <3>1, <3>3
        <5>3. Len(right_group') > 0
          BY <3>1, <3>2 DEF Group
        <5> QED
          BY <5>1, <5>2, <5>3
      <4>2. ASSUME NEW k \in 1 .. Len(right_group')
            PROVE  /\ right_group'[k] = FirstInGroup' + k - 1
                   /\ same_type' => lkey'[m] = rkey'[right_group'[k]]
        BY <2>3, <3>1, <3>2, <3>3 DEF Group, FirstInGroup, Alike
      <4> QED
        BY <4>1, <4>2 DEF Group, Alike
    <3>4. ASSUME NEW m, m = left_row, Mergeable PROVE Whole(m)'
      BY <2>3, <3>1, <3>2, <3>4 DEF Whole, FirstInGroup
    <3> QED
      BY <3>1, <3>3, <3>4, <1>m, PartsNext
  <2> QED
    BY <1>2, <2>1, <2>4 DEF Inv, NoneIsFinal, NextLeftInGroup, GroupAtEnd
<1>3. CASE GroupDone
  <2>1. TypeOK'
    BY <1>3, <1>i DEF GroupDone, Inv, TypeOK, input
  <2>2. PICK l \in pending_left_row :
           pending_left_row = {l} /\ l = left_row - 1 /\ active_key = {lkey[l]}
    BY <1>3 DEF GroupDone, GroupAtEnd, Inv, GroupIsWhole
  <2>w. Group(l) /\ (Mergeable => Whole(l))
    BY <2>2, Parts DEF Inv
  <2>3. ASSUME Mergeable, NEW i \in left_row .. Len(lkey), NEW j \in 1 .. right_row - 1
        PROVE  rkey[j] < lkey[i]
    <3>1. l \in 1 .. Len(lkey) /\ left_row \in 1 .. Len(lkey) /\ j \in 1 .. Len(rkey)
      BY <2>2, <1>i DEF Inv, TypeOK
    <3>2. lkey[left_row] # lkey[l]
      BY <1>3, <2>2, <3>1 DEF GroupDone, SameKey, HasLeft
    <3>3. rkey[j] <= lkey[l]
      <4>1. CASE j >= right_row - Len(right_group)
        <5>1. j < right_row /\ rkey[j] \in Int
          BY <3>1, <1>i DEF Inv, TypeOK
        <5>2. rkey[j] = lkey[l]
          BY <4>1, <5>1, <3>1, <2>3, <2>w DEF Whole, FirstInGroup
        <5> QED
          BY <5>1, <5>2
      <4>2. CASE j < right_row - Len(right_group)
        <5>1. /\ Len(right_group) \in Nat \ {0} /\ right_row \in 1 .. Len(rkey) + 1
              /\ right_group \in Seq(1 .. MaxRows) /\ 1 \in 1 .. Len(right_group)
          BY <2>w DEF Inv, TypeOK, Group
        <5>2. right_group[1] \in 1 .. MaxRows
          BY <5>1, ElementOfSeq
        <5>3. right_group[1] = right_row - Len(right_group) + 1 - 1
          BY <5>1, <2>w DEF Group, FirstInGroup
        <5>4. /\ right_row - Len(right_group) \in 1 .. Len(rkey)
              /\ right_row - Len(right_group) < right_row
          BY <5>1, <5>2, <5>3, <1>i
        <5>5. rkey[right_row - Len(right_group)] = lkey[l]
          BY <5>4, <2>3, <2>w DEF Whole, FirstInGroup
        <5>6. j \in 1 .. Len(rkey) /\ j <= right_row - Len(right_group)
          BY <4>2, <5>4, <3>1, <1>i
        <5>7. rkey[j] <= rkey[right_row - Len(right_group)]
          BY <5>4, <5>6, <2>3, <1>s
        <5> QED
          BY <5>5, <5>7
      <4>3. right_row \in Int /\ Len(right_group) \in Int /\ j \in Int
        BY <2>2 DEF Inv, TypeOK
      <4> QED
        BY <4>1, <4>2, <4>3
    <3>4. rkey[j] \in Int /\ lkey[l] \in Int /\ lkey[i] \in Int
      BY <3>1, <2>2, <1>i
    <3>5. lkey[left_row] \in Int /\ lkey[l] <= lkey[left_row] /\ lkey[left_row] <= lkey[i]
      <4>1. l \in Int /\ l <= left_row /\ i \in 1 .. Len(lkey) /\ left_row <= i
        BY <2>2, <3>1, <1>i
      <4> QED
        BY <4>1, <3>1, <1>i, <2>3, <1>s
    <3>6. lkey[l] < lkey[i]
      BY <3>2, <3>4, <3>5
    <3> QED
      BY <3>3, <3>4, <3>6
  <2>4. GroupIsWhole'
    <3>1. /\ lkey' = lkey /\ rkey' = rkey /\ left_row' = left_row /\ right_row' = right_row
          /\ pending_left_row' = {} /\ Idle'
      BY <1>3 DEF GroupDone, input, Idle
    <3>2. Mergeable => Passed'
      BY <2>3, <3>1 DEF Passed
    <3> QED
      BY <3>1, <3>2, <1>m, PartsNext
  <2> QED
    BY <1>3, <2>1, <2>4 DEF Inv, NoneIsFinal, GroupDone, GroupAtEnd
<1>4. CASE SkipLeft
  <2>1. TypeOK'
    BY <1>4, <1>i DEF SkipLeft, HasLeft, HasRight, Inv, TypeOK, input, group
  <2>2. GroupIsWhole'
    <3>1. /\ pending_left_row = {} /\ pending_left_row' = {} /\ UNCHANGED group
          /\ lkey' = lkey /\ rkey' = rkey /\ right_row' = right_row
          /\ left_row' = left_row + 1
      BY <1>4 DEF SkipLeft, input, group
    <3>2. Idle /\ (Mergeable => Passed)
      BY <3>1, Parts DEF Inv
    <3>3. Mergeable => Passed'
      BY <3>1, <3>2, <1>i DEF Passed, Inv, TypeOK
    <3> QED
      BY <3>1, <3>2, <3>3, <1>m, PartsNext DEF Idle, group
  <2> QED
    BY <1>4, <2>1, <2>2 DEF Inv, NoneIsFinal, SkipLeft
<1>5. CASE SkipRight
  <2>1. TypeOK'
    BY <1>5, <1>i DEF SkipRight, HasLeft, HasRight, Inv, TypeOK, input, group
  <2>2. GroupIsWhole'
    <3>1. /\ pending_left_row = {} /\ pending_left_row' = {}
          /\ right_group' = right_group /\ right_group_idx' = right_group_idx
          /\ active_key' = active_key /\ lkey' = lkey /\ rkey' = rkey
          /\ left_row' = left_row /\ right_row' = right_row + 1
          /\ left_row <= Len(lkey) /\ right_row \in 1 .. Len(rkey)
          /\ same_type /\ rkey[right_row] < lkey[left_row]
      <4>1. left_row \in 1 .. Len(lkey) /\ right_row \in 1 .. Len(rkey)
        BY <1>5, <1>i DEF SkipRight, HasLeft, HasRight, Inv, TypeOK
      <4>2. lkey[left_row] \in Int /\ rkey[right_row] \in Int
        BY <1>i, <4>1
      <4>3. same_type /\ lkey[left_row] > rkey[right_row]
        BY <1>5 DEF SkipRight, Above
      <4> QED
        BY <1>5, <4>1, <4>2, <4>3 DEF SkipRight, HasLeft, input, group
    <3>2. Idle /\ (Mergeable => Passed)
      BY <3>1, Parts DEF Inv
    <3>3. ASSUME Mergeable, NEW i \in left_row .. Len(lkey), NEW j \in 1 .. right_row
          PROVE  rkey[j] < lkey[i]
      <4>1. left_row \in Nat /\ left_row >= 1 /\ right_row \in Nat /\ Len(lkey) \in Nat
        BY DEF Inv, TypeOK
      <4>2. CASE j \in 1 .. right_row - 1
        BY <3>2, <3>3, <4>2 DEF Passed
      <4>3. CASE j = right_row
        <5>1. lkey[left_row] <= lkey[i] /\ lkey[i] \in Int /\ lkey[left_row] \in Int
          BY <1>i, <3>1, <3>3, <4>1, <1>s
        <5>2. rkey[right_row] \in Int
          BY <1>5, <1>i, <4>1 DEF SkipRight, HasRight, Inv, TypeOK
        <5> QED
          BY <3>1, <4>3, <5>1, <5>2
      <4> QED
        BY <4>1, <4>2, <4>3
    <3>4. Mergeable => Passed'
      BY <3>1, <3>3 DEF Passed, Inv, TypeOK
    <3> QED
      BY <3>1, <3>2, <3>4, <1>m, PartsNext DEF Idle
  <2> QED
    BY <1>5, <2>1, <2>2 DEF Inv, NoneIsFinal, SkipRight
<1>6. CASE OpenGroup
  BY <1>6, OpenGroupInv
<1>7. ASSUME UNCHANGED <<input, left_row, right_row, group>> PROVE GroupIsWhole'
  <2>1. Idle' <=> Idle
    BY <1>7 DEF Idle, group
  <2>2. Passed' <=> Passed
    BY <1>7 DEF Passed, input
  <2>3. \A l : (Group(l)' <=> Group(l)) /\ (Whole(l)' <=> Whole(l))
    BY <1>7 DEF Group, Whole, FirstInGroup, Alike, input, group
  <2>4. pending_left_row' = pending_left_row
    BY <1>7 DEF group
  <2> QED
    BY <1>m, <2>1, <2>2, <2>3, <2>4, Parts, PartsNext DEF Inv
<1>8. CASE NextNone
  <2>1. UNCHANGED <<input, left_row, right_row, group>>
    BY <1>8 DEF NextNone
  <2>2. TypeOK' /\ NoneIsFinal'
    BY <1>8 DEF NextNone, Inv, TypeOK, NoneIsFinal, HasLeft, HasRight, input, group
  <2> QED
    BY <1>7, <2>1, <2>2 DEF Inv
<1>9. CASE UNCHANGED vars
  <2>1. UNCHANGED <<input, left_row, right_row, group>>
    BY <1>9 DEF vars
  <2>2. TypeOK' /\ NoneIsFinal'
    BY <1>9 DEF vars, Inv, TypeOK, NoneIsFinal, HasLeft, HasRight, input, group
  <2> QED
    BY <1>7, <2>1, <2>2 DEF Inv
<1> QED
  BY <1>1, <1>2, <1>3, <1>4, <1>5, <1>6, <1>8, <1>9 DEF Next

(* Rows are compared only inside the inputs.                               *)
LEMMA InputFacts ==
    Inv => /\ Len(lkey) \in 0 .. MaxRows /\ Len(rkey) \in 0 .. MaxRows /\ MaxRows \in Nat
           /\ \A i \in 1 .. Len(lkey) : lkey[i] \in Int
           /\ \A i \in 1 .. Len(rkey) : rkey[i] \in Int
           /\ left_row \in 1 .. Len(lkey) + 1 /\ right_row \in 1 .. Len(rkey) + 1
           /\ Len(right_group) \in Nat /\ right_group_idx \in 0 .. Len(right_group)
BY InputIsSeq, MergeAssumption DEF Inv, TypeOK

LEMMA SortedFacts ==
    Inv /\ Mergeable =>
        /\ same_type
        /\ \A i, j \in 1 .. Len(lkey) : i <= j => lkey[i] <= lkey[j]
        /\ \A i, j \in 1 .. Len(rkey) : i <= j => rkey[i] <= rkey[j]
BY MergeableFacts DEF Inv, TypeOK

(* A turn of the loop that returns nothing loses no pair and adds none.    *)
LEMMA SilentStep ==
    ASSUME UNCHANGED <<out, done>>,
           \A a, b \in 1 .. MaxRows : ToCome(a, b)' <=> ToCome(a, b)
    PROVE  UNCHANGED <<Pending, out, done>>
<1>1. Pairs' = Pairs
  BY DEF Pairs
<1>2. \A p \in Pairs : p[1] \in 1 .. MaxRows /\ p[2] \in 1 .. MaxRows
  BY DEF Pairs
<1> QED
  BY <1>1, <1>2 DEF Pending

LEMMA NextLeftInGroupSilent ==
    Inv /\ Mergeable /\ NextLeftInGroup => UNCHANGED <<Pending, out, done>>
<1> SUFFICES ASSUME Inv, Mergeable, NextLeftInGroup PROVE UNCHANGED <<Pending, out, done>>
  OBVIOUS
<1>1. PICK l \in pending_left_row :
         /\ pending_left_row = {l} /\ l = left_row - 1 /\ active_key = {lkey[l]}
         /\ \A j \in 1 .. Len(rkey) : j < right_row /\ j >= FirstInGroup <=> rkey[j] = lkey[l]
  <2>1. PICK l \in pending_left_row : TRUE
    BY DEF NextLeftInGroup, GroupAtEnd
  <2> QED
    BY <2>1, Parts DEF Inv, Group, Whole
<1>2. /\ left_row \in 1 .. Len(lkey) /\ lkey[left_row] = lkey[l]
      /\ right_group_idx = Len(right_group)
  <2>1. Len(lkey) \in Nat /\ left_row \in 1 .. Len(lkey) + 1
    BY InputFacts
  <2>2. left_row <= Len(lkey) /\ lkey[left_row] \in active_key
    BY DEF NextLeftInGroup, SameKey, HasLeft
  <2>3. right_group_idx = Len(right_group)
    BY DEF NextLeftInGroup, GroupAtEnd
  <2>4. left_row \in 1 .. Len(lkey)
    BY <2>1, <2>2
  <2>5. lkey[left_row] = lkey[l]
    BY <1>1, <2>2
  <2> QED
    BY <2>3, <2>4, <2>5
<1>3. ASSUME NEW a \in 1 .. MaxRows, NEW b \in 1 .. MaxRows
      PROVE  ToCome(a, b)' <=> ToCome(a, b)
  <2>1. a \in Nat /\ b \in Nat /\ a >= 1 /\ b >= 1
    BY InputFacts
  <2>2. a = left_row /\ b <= Len(rkey) /\ lkey[left_row] = rkey[b]
           => b < right_row /\ b >= FirstInGroup
    BY <1>1, <1>2, <2>1, InputFacts
  <2> QED
    BY SMTT(30), <1>1, <1>2, <2>1, <2>2, InputFacts DEF NextLeftInGroup, ToCome, FirstInGroup, input
<1> QED
  BY <1>3, SilentStep DEF NextLeftInGroup

LEMMA GroupDoneSilent == Inv /\ Mergeable /\ GroupDone => UNCHANGED <<Pending, out, done>>
<1> SUFFICES ASSUME Inv, Mergeable, GroupDone PROVE UNCHANGED <<Pending, out, done>>
  OBVIOUS
<1>1. PICK l \in pending_left_row :
         /\ pending_left_row = {l} /\ l = left_row - 1 /\ active_key = {lkey[l]}
         /\ \A j \in 1 .. Len(rkey) : j < right_row /\ j >= FirstInGroup <=> rkey[j] = lkey[l]
  <2>1. PICK l \in pending_left_row : TRUE
    BY DEF GroupDone, GroupAtEnd
  <2> QED
    BY <2>1, Parts DEF Inv, Group, Whole
<1>2. /\ left_row \in 1 .. Len(lkey) => lkey[left_row] # lkey[l]
      /\ right_group_idx = Len(right_group) /\ l \in 1 .. MaxRows
  BY <1>1, InputFacts DEF GroupDone, GroupAtEnd, SameKey, HasLeft, Inv, TypeOK
<1>3. ASSUME NEW a \in 1 .. MaxRows, NEW b \in 1 .. MaxRows
      PROVE  ToCome(a, b)' <=> ToCome(a, b)
  <2>1. a \in Nat /\ b \in Nat /\ a >= 1 /\ b >= 1
    BY InputFacts
  <2>2. ASSUME a >= left_row, a <= Len(lkey), b <= Len(rkey),
               lkey[a] = rkey[b], b >= FirstInGroup, b < right_row
        PROVE  FALSE
    <3>1. rkey[b] = lkey[l]
      BY <1>1, <2>1, <2>2, InputFacts
    <3>2. /\ left_row \in 1 .. Len(lkey) /\ l \in 1 .. Len(lkey) /\ a \in 1 .. Len(lkey)
          /\ l <= left_row /\ left_row <= a
      BY SMTT(30), <1>1, <1>2, <2>1, <2>2, InputFacts
    <3>3. lkey[l] <= lkey[left_row] /\ lkey[left_row] <= lkey[a]
      BY <3>2, SortedFacts
    <3>4. lkey[l] \in Int /\ lkey[left_row] \in Int /\ lkey[l] = lkey[a]
      BY <3>1, <3>2, <2>2, InputFacts
    <3>5. lkey[left_row] # lkey[l]
      BY <1>2, <3>2
    <3> QED
      BY <3>3, <3>4, <3>5
  <2>3. /\ FirstInGroup \in Int /\ FirstInGroup <= right_row /\ right_row \in Int
        /\ FirstInGroup + Len(right_group) = right_row
    BY InputFacts DEF FirstInGroup
  <2> QED
    BY SMTT(30), <1>1, <1>2, <2>1, <2>2, <2>3, InputFacts DEF GroupDone, ToCome, FirstInGroup, input
<1> QED
  BY <1>3, SilentStep DEF GroupDone

(* A row is skipped only if its key is below every key to come.            *)
LEMMA SkipSilent ==
    Inv /\ Mergeable /\ (SkipLeft \/ SkipRight) => UNCHANGED <<Pending, out, done>>
<1> SUFFICES ASSUME Inv, Mergeable, SkipLeft \/ SkipRight PROVE UNCHANGED <<Pending, out, done>>
  OBVIOUS
<1>1. /\ pending_left_row = {} /\ right_group = <<>> /\ right_group_idx = 0
      /\ pending_left_row' = {} /\ right_group' = <<>> /\ right_group_idx' = 0
      /\ left_row \in 1 .. Len(lkey) /\ right_row \in 1 .. Len(rkey)
      /\ lkey' = lkey /\ rkey' = rkey
  BY InputFacts DEF SkipLeft, SkipRight, HasLeft, HasRight, Inv, GroupIsWhole, input, group
<1>2. FirstInGroup = right_row /\ FirstInGroup' = right_row'
  BY <1>1, InputFacts DEF FirstInGroup, SkipLeft, SkipRight
<1>3. ASSUME NEW a \in 1 .. MaxRows, NEW b \in 1 .. MaxRows
      PROVE  ToCome(a, b)' <=> ToCome(a, b)
  <2>1. a \in Nat /\ b \in Nat /\ a >= 1 /\ b >= 1
    BY InputFacts
  <2>2. CASE SkipLeft
    <3>1. a = left_row /\ b >= right_row /\ b <= Len(rkey) => lkey[a] # rkey[b]
      BY <1>1, <2>1, <2>2, InputFacts, SortedFacts DEF SkipLeft, Below
    <3> QED
      BY <1>1, <1>2, <2>1, <2>2, <3>1, InputFacts DEF SkipLeft, ToCome
  <2>3. CASE SkipRight
    <3>1. b = right_row /\ a >= left_row /\ a <= Len(lkey) => lkey[a] # rkey[b]
      BY <1>1, <2>1, <2>3, InputFacts, SortedFacts DEF SkipRight, Above
    <3> QED
      BY <1>1, <1>2, <2>1, <2>3, <3>1, InputFacts DEF SkipRight, ToCome
  <2> QED
    BY <2>2, <2>3
<1> QED
  BY <1>3, SilentStep DEF SkipLeft, SkipRight

LEMMA OpenGroupSilent == Inv /\ Mergeable /\ OpenGroup => UNCHANGED <<Pending, out, done>>
<1> SUFFICES ASSUME Inv, Mergeable, OpenGroup PROVE UNCHANGED <<Pending, out, done>>
  OBVIOUS
<1>1. /\ pending_left_row = {} /\ right_group = <<>>
      /\ left_row \in 1 .. Len(lkey) /\ right_row \in 1 .. Len(rkey)
      /\ lkey[left_row] = rkey[right_row]
      /\ pending_left_row' = {left_row} /\ left_row' = left_row + 1
      /\ right_group_idx' = 0 /\ lkey' = lkey /\ rkey' = rkey
  <2>1. /\ left_row \in 1 .. Len(lkey) /\ right_row \in 1 .. Len(rkey)
        /\ pending_left_row = {}
    BY InputFacts DEF OpenGroup, HasLeft, HasRight
  <2>2. lkey[left_row] = rkey[right_row]
    BY SortedFacts DEF OpenGroup, Alike
  <2>3. right_group = <<>>
    BY <2>1, Parts DEF Inv, Idle
  <2> QED
    BY <2>1, <2>2, <2>3 DEF OpenGroup, input
<1>2. PICK j \in 1 .. Len(rkey) + 1 :
         /\ IsGroup(right_row, j)
         /\ right_group' = [k \in 1 .. (j - right_row) |-> right_row + k - 1]
         /\ right_row' = j
  BY DEF OpenGroup
<1>3. /\ right_row < j
      /\ \A k \in right_row .. (j - 1) : rkey[k] = lkey[left_row]
      /\ j <= Len(rkey) => rkey[j] # lkey[left_row]
  BY <1>2, SortedFacts DEF IsGroup, Alike
<1>4. FirstInGroup = right_row /\ FirstInGroup' = right_row
  <2>1. j - right_row \in Nat /\ j \in Int /\ right_row \in Int
    BY <1>1, <1>3, InputFacts
  <2>2. right_group' \in [1 .. (j - right_row) -> Int]
    BY <1>2, <2>1
  <2>3. Len(right_group') = j - right_row
    BY <2>1, <2>2, FunctionIsSeq
  <2> QED
    BY <1>1, <1>2, <2>1, <2>3 DEF FirstInGroup
<1>5. ASSUME NEW a \in 1 .. MaxRows, NEW b \in 1 .. MaxRows
      PROVE  ToCome(a, b)' <=> ToCome(a, b)
  <2>1. a \in Nat /\ b \in Nat /\ a >= 1 /\ b >= 1
    BY InputFacts
  <2>2. a = left_row /\ b >= j /\ b <= Len(rkey) => lkey[a] # rkey[b]
    <3> SUFFICES ASSUME a = left_row, b >= j, b <= Len(rkey), lkey[a] = rkey[b] PROVE FALSE
      OBVIOUS
    <3>1. /\ j \in 1 .. Len(rkey) /\ b \in 1 .. Len(rkey) /\ right_row \in 1 .. Len(rkey)
          /\ right_row <= j /\ j <= b
      BY <1>1, <1>3, <2>1, InputFacts
    <3>2. rkey[right_row] <= rkey[j] /\ rkey[j] <= rkey[b]
      BY <3>1, SortedFacts
    <3>3. rkey[j] = rkey[b]
      BY <1>1, <3>1, <3>2, InputFacts
    <3> QED
      BY <1>3, <3>1, <3>3
  <2> DEFINE m == a <= Len(lkey) /\ b <= Len(rkey) /\ lkey[a] = rkey[b]
  <2>3. ToCome(a, b) <=> m /\ a >= left_row /\ b >= right_row
    BY <1>1, <1>4 DEF ToCome
  <2>4. ToCome(a, b)' <=>
             \/ m /\ a = left_row /\ b >= right_row + 0 /\ b < j
             \/ m /\ a >= left_row + 1 /\ b >= right_row
    BY <1>1, <1>2, <1>4 DEF ToCome
  <2>5. left_row \in Int /\ right_row \in Int /\ j \in Int
    BY InputFacts
  <2>6. /\ a >= left_row <=> a = left_row \/ a >= left_row + 1
        /\ right_row + 0 = right_row /\ (b >= j \/ b < j)
    BY <2>1, <2>5
  <2>7. m /\ a = left_row /\ b >= j => FALSE
    BY <2>2
  <2> HIDE DEF m
  <2> QED
    BY <2>3, <2>4, <2>6, <2>7
<1> QED
  BY <1>5, SilentStep DEF OpenGroup

(* The pair returned is the least of those to come.                        *)
LEMMA NextPairDelivers == Inv /\ Mergeable /\ NextPair => \E p \in Pending : Stream!Deliver(p)
<1> SUFFICES ASSUME Inv, Mergeable, NextPair PROVE \E p \in Pending : Stream!Deliver(p)
  OBVIOUS
<1>1. PICK l \in pending_left_row : out' = {<<l, right_group[right_group_idx + 1]>>}
  BY DEF NextPair
<1>2. /\ pending_left_row = {l} /\ l = left_row - 1 /\ l \in 1 .. MaxRows
      /\ \A k \in 1 .. Len(right_group) : right_group[k] = FirstInGroup + k - 1
      /\ \A j \in 1 .. Len(rkey) : j < right_row /\ j >= FirstInGroup <=> rkey[j] = lkey[l]
  BY Parts DEF Inv, TypeOK, Group, Whole
<1> DEFINE r == FirstInGroup + right_group_idx
<1>3. /\ r = right_group[right_group_idx + 1] /\ r \in 1 .. MaxRows
      /\ FirstInGroup \in Int /\ FirstInGroup <= r /\ r < right_row
  <2>1. right_group_idx + 1 \in 1 .. Len(right_group) /\ right_group \in Seq(1 .. MaxRows)
    BY InputFacts DEF NextPair, Inv, TypeOK
  <2>2. right_group[right_group_idx + 1] \in 1 .. MaxRows
    BY <2>1, ElementOfSeq
  <2>3. FirstInGroup \in Int /\ right_row \in Int /\ right_row = FirstInGroup + Len(right_group)
    BY InputFacts DEF FirstInGroup
  <2>4. right_group[right_group_idx + 1] = FirstInGroup + (right_group_idx + 1) - 1
    BY <2>1, <1>2
  <2>5. right_group_idx \in Nat /\ Len(right_group) \in Nat
    BY InputFacts
  <2> QED
    BY <2>1, <2>2, <2>3, <2>4, <2>5
<1>4. /\ left_row' = left_row /\ right_row' = right_row /\ lkey' = lkey /\ rkey' = rkey
      /\ pending_left_row' = {l} /\ FirstInGroup' = FirstInGroup
      /\ right_group_idx' = right_group_idx + 1
  BY <1>2 DEF NextPair, FirstInGroup, input
<1>5. ToCome(l, r)
  <2>1. l \in 1 .. Len(lkey) /\ r \in 1 .. Len(rkey)
    BY SMTT(30), <1>2, <1>3, InputFacts
  <2>2. rkey[r] = lkey[l]
    BY <1>2, <1>3, <2>1
  <2> QED
    BY <1>2, <1>3, <2>1, <2>2 DEF ToCome
<1>6. ASSUME NEW a \in 1 .. MaxRows, NEW b \in 1 .. MaxRows
      PROVE  ToCome(a, b)' <=> ToCome(a, b) /\ ~(a = l /\ b = r)
  <2> DEFINE m == a <= Len(lkey) /\ b <= Len(rkey) /\ lkey[a] = rkey[b]
  <2>1. ToCome(a, b) <=>
             \/ m /\ a = l /\ b >= r /\ b < right_row
             \/ m /\ a >= left_row /\ b >= FirstInGroup
    BY <1>2 DEF ToCome
  <2>2. ToCome(a, b)' <=>
             \/ m /\ a = l /\ b >= FirstInGroup + (right_group_idx + 1) /\ b < right_row
             \/ m /\ a >= left_row /\ b >= FirstInGroup
    BY <1>4 DEF ToCome
  <2>3. /\ a \in Int /\ b \in Int /\ l \in Int /\ left_row \in Int /\ l = left_row - 1
        /\ right_group_idx \in Int /\ FirstInGroup \in Int
    BY <1>2, <1>3, InputFacts
  <2>4. (b >= FirstInGroup + (right_group_idx + 1)) <=> (b >= r /\ b # r)
    BY <2>3
  <2>5. ~(l >= left_row)
    BY <2>3
  <2> HIDE DEF m, r
  <2> QED
    BY <2>1, <2>2, <2>4, <2>5
<1>7. ASSUME NEW a \in 1 .. MaxRows, NEW b \in 1 .. MaxRows, ToCome(a, b)
      PROVE  l < a \/ (l = a /\ r <= b)
  <2>1. (a = l /\ b >= r) \/ a >= left_row
    BY <1>2, <1>7 DEF ToCome
  <2>2. /\ a \in Int /\ b \in Int /\ l \in Int /\ left_row \in Int /\ l = left_row - 1
        /\ r \in Int
    BY <1>2, <1>3, InputFacts
  <2> QED
    BY <2>1, <2>2
<1>8. \A p \in Pairs : /\ p[1] \in 1 .. MaxRows /\ p[2] \in 1 .. MaxRows
                       /\ p = <<p[1], p[2]>>
  BY DEF Pairs
<1>9. <<l, r>> \in Pending
  BY <1>2, <1>3, <1>5 DEF Pending, Pairs
<1>10. Pending' = Pending \ {<<l, r>>}
  <2>1. Pairs' = Pairs
    BY DEF Pairs
  <2> QED
    BY <1>6, <1>8, <2>1 DEF Pending
<1>11. ASSUME NEW s \in Pending PROVE <<s, <<l, r>>>> \notin InOrder
  <2>1. s \in Pairs /\ ToCome(s[1], s[2])
    BY DEF Pending
  <2>2. l < s[1] \/ (l = s[1] /\ r <= s[2])
    BY <1>7, <1>8, <2>1
  <2>3. s[1] \in Nat /\ s[2] \in Nat /\ l \in Nat /\ r \in Nat
    BY <1>2, <1>3, <1>8, <2>1
  <2> QED
    BY <2>1, <2>2, <2>3 DEF InOrder
<1>12. ~done /\ UNCHANGED done
  BY <1>1 DEF Inv, NoneIsFinal, NextPair
<1> QED
  BY <1>1, <1>3, <1>9, <1>10, <1>11, <1>12 DEF Stream!Deliver

(* The group kept for equal keys is whole, at every step.                  *)
THEOREM Grouped == Spec => []GroupIsWhole
<1>1. Spec => []Inv
  BY InitInv, NextInv, PTL DEF Spec
<1>2. Inv => GroupIsWhole
  BY DEF Inv
<1> QED
  BY <1>1, <1>2, PTL

(* Of mergeable inputs the merge join makes the stream of the pairs with   *)
(* equal keys.                                                             *)
THEOREM Merges == Spec => MergesAll
<1>1. Init => Stream!Init
  BY DEF Init, Stream!Init, Pending
<1>2. Inv /\ [Next]_vars => [Mergeable => Stream!Next]_<<Pending, out, done>>
  <2> SUFFICES ASSUME Inv, [Next]_vars, Mergeable PROVE [Stream!Next]_<<Pending, out, done>>
    OBVIOUS
  <2>1. CASE NextPair
    BY <2>1, NextPairDelivers DEF Stream!Next
  <2>2. CASE NextNone
    <3>1. UNCHANGED Pending
      BY <2>2 DEF NextNone, Pending, ToCome, FirstInGroup, Pairs, input, group
    <3>2. ASSUME NEW a \in 1 .. MaxRows, NEW b \in 1 .. MaxRows PROVE ~ToCome(a, b)
      <4>1. pending_left_row = {} /\ FirstInGroup = right_row /\ ~(HasLeft /\ HasRight)
        BY <2>2, InputFacts DEF NextNone, Inv, GroupIsWhole, FirstInGroup
      <4>2. /\ a \in Nat /\ b \in Nat /\ Len(lkey) \in Nat /\ Len(rkey) \in Nat
            /\ left_row \in Nat /\ right_row \in Nat
        BY InputFacts
      <4>3. ~(a >= left_row /\ a <= Len(lkey) /\ b >= right_row /\ b <= Len(rkey))
        BY <4>1, <4>2 DEF HasLeft, HasRight
      <4> QED
        BY <4>1, <4>3 DEF ToCome
    <3>3. \A p \in Pairs : p[1] \in 1 .. MaxRows /\ p[2] \in 1 .. MaxRows
      BY DEF Pairs
    <3>4. Pending = {}
      BY <3>2, <3>3 DEF Pending
    <3> QED
      BY <2>2, <3>1, <3>4 DEF NextNone, Stream!Next, Stream!End
  <2>3. CASE UNCHANGED vars
    BY <2>3 DEF vars, input, group, Pending, ToCome, FirstInGroup, Pairs
  <2> QED
    BY <2>1, <2>2, <2>3, NextLeftInGroupSilent, GroupDoneSilent, SkipSilent, OpenGroupSilent
    DEF Next
<1>3. Spec => []Inv
  BY InitInv, NextInv, PTL DEF Spec
<1> QED
  BY <1>1, <1>2, <1>3, PTL DEF Spec, MergesAll

-----------------------------------------------------------------------------
(* Termination, but for fairness: the turns of the loop of next() lead on, *)
(* and there is a next one.                                                *)

(* What is left to do: left rows, right rows, pairs of the group.  A turn  *)
(* may add to what comes later in the tuple.                               *)
Work == <<Len(lkey) + 1 - left_row,
          Len(rkey) + 1 - right_row + (IF pending_left_row = {} THEN 0 ELSE 1),
          Len(right_group) - right_group_idx>>

Order == LexProductOrdering(OpToRel(<, Nat), Nat, 3)

LEMMA OrderWellFounded == IsWellFoundedOn(Order, [1 .. 3 -> Nat])
BY NatLessThanWellFounded, WFLexProductOrdering DEF Order

LEMMA Lower ==
    ASSUME NEW a \in Nat, NEW b \in Nat, NEW c \in Nat,
           NEW x \in Nat, NEW y \in Nat, NEW z \in Nat,
           a < x \/ (a = x /\ (b < y \/ (b = y /\ c < z)))
    PROVE  <<<<a, b, c>>, <<x, y, z>>>> \in Order
<1> DEFINE v == <<a, b, c>>
           w == <<x, y, z>>
<1>1. v \in [1 .. 3 -> Nat] /\ w \in [1 .. 3 -> Nat]
  OBVIOUS
<1>2. \E j \in 1 .. 3 : v[j] < w[j] /\ \A i \in 1 .. (j - 1) : v[i] = w[i]
  <2>1. CASE a < x
    BY <2>1
  <2>2. CASE a = x /\ b < y
    <3>1. \A i \in 1 .. (2 - 1) : v[i] = w[i]
      BY <2>2
    <3> QED
      BY <2>2, <3>1
  <2>3. CASE a = x /\ b = y /\ c < z
    <3>1. \A i \in 1 .. (3 - 1) : v[i] = w[i]
      BY <2>3
    <3> QED
      BY <2>3, <3>1
  <2> QED
    BY <2>1, <2>2, <2>3
<1>3. \A j \in 1 .. 3 : v[j] \in Nat /\ w[j] \in Nat
  BY <1>1
<1> HIDE DEF v, w
<1> QED
  BY <1>1, <1>2, <1>3 DEF Order, LexProductOrdering, OpToRel

LEMMA TurnLowers ==
    Inv /\ Inv' /\ Next /\ ~NextNone => <<Work', Work>> \in Order
<1> SUFFICES ASSUME Inv, Inv', Next, ~NextNone PROVE <<Work', Work>> \in Order
  OBVIOUS
<1> DEFINE a == Len(lkey) + 1 - left_row
           b == Len(rkey) + 1 - right_row + (IF pending_left_row = {} THEN 0 ELSE 1)
           c == Len(right_group) - right_group_idx
<1>1. a \in Nat /\ b \in Nat /\ c \in Nat
  <2>1. Len(lkey) \in Nat /\ left_row \in 1 .. Len(lkey) + 1
    BY InputFacts
  <2>2. Len(rkey) \in Nat /\ right_row \in 1 .. Len(rkey) + 1
    BY InputFacts
  <2>3. Len(right_group) \in Nat /\ right_group_idx \in 0 .. Len(right_group)
    BY InputFacts
  <2>4. a \in Nat
    BY <2>1
  <2>5. b \in Nat
    BY <2>2
  <2>6. c \in Nat
    BY <2>3
  <2> QED
    BY <2>4, <2>5, <2>6
<1>2. a' \in Nat /\ b' \in Nat /\ c' \in Nat
  <2>1. lkey' \in Inputs /\ rkey' \in Inputs
    BY DEF Inv, TypeOK
  <2>2. Len(lkey') \in Nat /\ Len(rkey') \in Nat
    BY <2>1, InputIsSeq
  <2>3. /\ left_row' \in 1 .. Len(lkey') + 1 /\ right_row' \in 1 .. Len(rkey') + 1
        /\ right_group' \in Seq(1 .. MaxRows) /\ right_group_idx' \in 0 .. Len(right_group')
    BY DEF Inv, TypeOK
  <2>4. Len(right_group') \in Nat
    BY <2>3
  <2>5. a' \in Nat
    BY <2>2, <2>3
  <2>6. b' \in Nat
    BY <2>2, <2>3
  <2>7. c' \in Nat
    BY <2>3, <2>4
  <2> QED
    BY <2>5, <2>6, <2>7
<1>3. a' < a \/ (a' = a /\ (b' < b \/ (b' = b /\ c' < c)))
  <2>i. /\ Len(lkey) \in Nat /\ Len(rkey) \in Nat /\ Len(right_group) \in Nat
        /\ left_row \in Nat /\ right_row \in Nat /\ right_group_idx \in Nat
    BY InputFacts
  <2>1. CASE NextPair
    BY <2>1, <2>i DEF NextPair, input
  <2>2. CASE NextLeftInGroup
    BY <2>2, <2>i DEF NextLeftInGroup, input
  <2>3. CASE GroupDone
    BY <2>3, <2>i DEF GroupDone, GroupAtEnd, input
  <2>4. CASE SkipLeft
    BY <2>4, <2>i DEF SkipLeft, input
  <2>5. CASE SkipRight
    BY <2>5, <2>i DEF SkipRight, input, group
  <2>6. CASE OpenGroup
    BY <2>6, <2>i DEF OpenGroup, input
  <2> QED
    BY <2>1, <2>2, <2>3, <2>4, <2>5, <2>6 DEF Next
<1>4. Work = <<a, b, c>> /\ Work' = <<a', b', c'>>
  BY DEF Work
<1> HIDE DEF a, b, c
<1> QED
  BY <1>1, <1>2, <1>3, <1>4, Lower

(* Every turn of the loop (99-193) that does not return None leaves less   *)
(* to do, in an order in which nothing falls for ever: rows left on the    *)
(* left, rows left on the right, pairs left of the group.  Reading the     *)
(* group again for an equal left key is paid for by that left row.         *)
TurnsLeadOn == [][NextNone \/ <<Work', Work>> \in Order]_vars

THEOREM LoopEnds == Spec => TurnsLeadOn
<1>1. Spec => []Inv
  BY InitInv, NextInv, PTL DEF Spec
<1>2. Inv /\ Inv' /\ [Next]_vars => [NextNone \/ <<Work', Work>> \in Order]_vars
  BY TurnLowers
<1> QED
  BY <1>1, <1>2, PTL DEF Spec, TurnsLeadOn

(* The least number of a set; here, the first right row after the group.   *)
LEMMA Least ==
    ASSUME NEW T, T \subseteq Nat, T # {} PROVE \E x \in T : \A y \in T : ~(y < x)
<1> DEFINE Lt == OpToRel(<, Nat)
<1>1. \A x, y \in Nat : y < x => <<y, x>> \in Lt
  BY DEF OpToRel
<1>2. IsWellFoundedOn(Lt, Nat)
  BY NatLessThanWellFounded
<1> HIDE DEF Lt
<1>3. PICK x \in T : \A y \in T : <<y, x>> \notin Lt
  BY <1>2, WFMin
<1> QED
  BY <1>1, <1>3

LEMMA GroupEnds ==
    ASSUME Inv, HasLeft, HasRight, Alike(lkey[left_row], rkey[right_row])
    PROVE  \E j \in 1 .. Len(rkey) + 1 : IsGroup(right_row, j)
<1> DEFINE T == { k \in right_row .. Len(rkey) : ~Alike(lkey[left_row], rkey[k]) }
<1>1. right_row \in 1 .. Len(rkey) /\ Len(rkey) \in Nat
  BY InputFacts DEF HasRight
<1>2. CASE T = {}
  <2>1. IsGroup(right_row, Len(rkey) + 1)
    BY <1>1, <1>2 DEF IsGroup
  <2> QED
    BY <1>1, <2>1
<1>3. CASE T # {}
  <2> HIDE DEF T
  <2>1. PICK j \in T : \A y \in T : ~(y < j)
    <3>1. T \subseteq Nat
      BY <1>1 DEF T
    <3> QED
      BY <1>3, <3>1, Least
  <2> USE DEF T
  <2>2. j # right_row
    BY <2>1
  <2>3. \A k \in right_row .. (j - 1) : Alike(lkey[left_row], rkey[k])
    BY <1>1, <2>1
  <2>4. IsGroup(right_row, j)
    BY <1>1, <2>1, <2>2, <2>3 DEF IsGroup
  <2> QED
    BY <1>1, <2>1, <2>4
<1> QED
  BY <1>2, <1>3

(* A turn is always possible: one of the branches applies, the key of the  *)
(* group that active_key.as_ref().unwrap() asks for (109) is there, and    *)
(* the collecting of a group comes to an end.                              *)
CanTurn ==
    \/ pending_left_row # {} /\ right_group_idx < Len(right_group)
    \/ GroupAtEnd /\ active_key # {}
    \/ pending_left_row = {} /\ ~(HasLeft /\ HasRight)
    \/ /\ pending_left_row = {} /\ HasLeft /\ HasRight
       /\ \/ Below(lkey[left_row], rkey[right_row]) \/ Above(lkey[left_row], rkey[right_row])
          \/ /\ Alike(lkey[left_row], rkey[right_row])
             /\ \E j \in 1 .. Len(rkey) + 1 : IsGroup(right_row, j)

(* The merge join is never stuck and does not panic on its key.            *)
THEOREM LoopGoesOn == Spec => []CanTurn
<1>1. Inv => CanTurn
  <2> SUFFICES ASSUME Inv PROVE CanTurn
    OBVIOUS
  <2>1. CASE pending_left_row # {}
    <3>1. active_key # {}
      BY <2>1 DEF Inv, GroupIsWhole
    <3>2. right_group_idx < Len(right_group) \/ right_group_idx = Len(right_group)
      BY InputFacts
    <3> QED
      BY <2>1, <3>1, <3>2 DEF CanTurn, GroupAtEnd
  <2>2. CASE pending_left_row = {} /\ HasLeft /\ HasRight
    <3>1. lkey[left_row] \in Int /\ rkey[right_row] \in Int
      BY <2>2, InputFacts DEF HasLeft, HasRight
    <3>2. \/ Below(lkey[left_row], rkey[right_row]) \/ Above(lkey[left_row], rkey[right_row])
          \/ Alike(lkey[left_row], rkey[right_row])
      BY <3>1 DEF Below, Above, Alike
    <3> QED
      BY <2>2, <3>2, GroupEnds DEF CanTurn
  <2> QED
    BY <2>1, <2>2 DEF CanTurn
<1>2. Spec => []Inv
  BY InitInv, NextInv, PTL DEF Spec
<1> QED
  BY <1>1, <1>2, PTL
=============================================================================
