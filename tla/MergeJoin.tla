----------------------------- MODULE MergeJoin -----------------------------
(***************************************************************************)
(* database/src/sort_merge.rs, SortMergeJoinOp: the join of two inputs     *)
(* that should both arrive in the order of the join column, with keys of   *)
(* one type.  The planner looks at the ordered flag of any column of that  *)
(* name and at no type (query_executor.rs 799-834), so here the inputs are *)
(* any, and the properties say which ones they need.                       *)
(*                                                                         *)
(* A row is its place in its input and the model keeps the keys of both    *)
(* inputs.  left_row and right_row are the places of the rows held, one    *)
(* past the end for None: an input is polled as soon as its row is taken,  *)
(* so what it has still to deliver is everything after the row held.       *)
(***************************************************************************)
EXTENDS Integers, Sequences

CONSTANTS
    Keys,      \* values of a join column, in the order of total_cmp or cmp
    MaxRows    \* bound: rows of either input

ASSUME MergeAssumption == Keys \subseteq Int /\ MaxRows \in Nat

VARIABLES
    same_type,          \* the keys of both inputs are of join_key_type
    lkey, rkey,         \* join column of the inputs
    left_row, right_row,
    pending_left_row, active_key,   \* {} for None
    right_group, right_group_idx,
    out, done           \* the pair the last next() returned; it returned None

input == <<same_type, lkey, rkey>>
group == <<pending_left_row, active_key, right_group, right_group_idx>>
vars  == <<input, left_row, right_row, group, out, done>>

Inputs == UNION { [1 .. n -> Keys] : n \in 0 .. MaxRows }

(* new: one row of either input is fetched.                                *)
Init ==
    /\ same_type \in BOOLEAN /\ lkey \in Inputs /\ rkey \in Inputs
    /\ left_row = 1 /\ right_row = 1
    /\ pending_left_row = {} /\ active_key = {}
    /\ right_group = <<>> /\ right_group_idx = 0
    /\ out = {} /\ done = FALSE

(* compare_key_data of a left and a right key: whatever has not the type   *)
(* of the left column is equal to everything.  (Two left keys always have  *)
(* it.)                                                                    *)
Below(l, r) == same_type /\ l < r
Above(l, r) == same_type /\ l > r
Alike(l, r) == same_type => l = r

HasLeft  == left_row <= Len(lkey)
HasRight == right_row <= Len(rkey)

-----------------------------------------------------------------------------
(* next(), one action per branch of its loop.                              *)
GroupAtEnd == pending_left_row # {} /\ right_group_idx = Len(right_group)
SameKey    == HasLeft /\ lkey[left_row] \in active_key

NextPair ==
    /\ right_group_idx < Len(right_group)
    /\ \E l \in pending_left_row : out' = {<<l, right_group[right_group_idx + 1]>>}
    /\ right_group_idx' = right_group_idx + 1
    /\ UNCHANGED <<input, left_row, right_row, pending_left_row, active_key, right_group, done>>

(* Mutant: the next left row finds the group read to its end.              *)
NextLeftInGroupKeepsIdx ==
    /\ GroupAtEnd /\ SameKey
    /\ pending_left_row' = {left_row}
    /\ left_row' = left_row + 1
    /\ UNCHANGED <<input, right_row, active_key, right_group, right_group_idx, out, done>>

(* Another left row with the key of the group: the group is used again.    *)
NextLeftInGroup ==
    /\ GroupAtEnd /\ SameKey
    /\ pending_left_row' = {left_row}
    /\ left_row' = left_row + 1
    /\ right_group_idx' = 0
    /\ UNCHANGED <<input, right_row, active_key, right_group, out, done>>

GroupDone ==
    /\ GroupAtEnd /\ ~SameKey
    /\ pending_left_row' = {} /\ active_key' = {}
    /\ right_group' = <<>> /\ right_group_idx' = 0
    /\ UNCHANGED <<input, left_row, right_row, out, done>>

(* Mutant: the row stays where it is.                                      *)
SkipLeftStays ==
    /\ pending_left_row = {} /\ HasLeft /\ HasRight
    /\ Below(lkey[left_row], rkey[right_row])
    /\ UNCHANGED vars

SkipLeft ==
    /\ pending_left_row = {} /\ HasLeft /\ HasRight
    /\ Below(lkey[left_row], rkey[right_row])
    /\ left_row' = left_row + 1
    /\ UNCHANGED <<input, right_row, group, out, done>>

SkipRight ==
    /\ pending_left_row = {} /\ HasLeft /\ HasRight
    /\ Above(lkey[left_row], rkey[right_row])
    /\ right_row' = right_row + 1
    /\ UNCHANGED <<input, left_row, group, out, done>>

(* The right rows from i up to j - 1 are what the loop of lines 155-166    *)
(* collects.  Mutant: only one row is taken.                               *)
IsGroupOfOne(i, j) == j = i + 1

IsGroup(i, j) ==
    /\ i < j /\ j <= Len(rkey) + 1
    /\ \A k \in i .. (j - 1) : Alike(lkey[left_row], rkey[k])
    /\ j <= Len(rkey) => ~Alike(lkey[left_row], rkey[j])

OpenGroup ==
    /\ pending_left_row = {} /\ HasLeft /\ HasRight
    /\ Alike(lkey[left_row], rkey[right_row])
    /\ \E j \in 1 .. Len(rkey) + 1 :
          /\ IsGroup(right_row, j)
          /\ right_group' = [k \in 1 .. (j - right_row) |-> right_row + k - 1]
          /\ right_row' = j
    /\ right_group_idx' = 0
    /\ active_key' = {lkey[left_row]}
    /\ pending_left_row' = {left_row}
    /\ left_row' = left_row + 1
    /\ UNCHANGED <<input, out, done>>

NextNone ==
    /\ pending_left_row = {} /\ ~(HasLeft /\ HasRight)
    /\ done' = TRUE
    /\ UNCHANGED <<input, left_row, right_row, group, out>>

Next == \/ NextPair \/ NextLeftInGroup \/ GroupDone
        \/ SkipLeft \/ SkipRight \/ OpenGroup \/ NextNone

Spec == Init /\ [][Next]_vars

(* The caller is one thread that polls until it is given None.             *)
FairSpec == Spec /\ WF_vars(Next)

-----------------------------------------------------------------------------
(* The state is well formed: places of rows, and an index into the group.  *)
TypeOK ==
    /\ same_type \in BOOLEAN /\ lkey \in Inputs /\ rkey \in Inputs
    /\ left_row \in 1 .. Len(lkey) + 1 /\ right_row \in 1 .. Len(rkey) + 1
    /\ right_group \in Seq(1 .. MaxRows) /\ right_group_idx \in 0 .. Len(right_group)
    /\ pending_left_row \subseteq 1 .. MaxRows /\ active_key \subseteq Keys
    /\ out \subseteq (1 .. MaxRows) \X (1 .. MaxRows) /\ done \in BOOLEAN

(* What the planner counts on when it chooses this join.                   *)
Sorted(s) == \A i, j \in DOMAIN s : i <= j => s[i] <= s[j]
Mergeable == same_type /\ Sorted(lkey) /\ Sorted(rkey)

FirstInGroup == right_row - Len(right_group)

(* While a left row is pending its key is the active one, and the group is *)
(* the right rows just before the one held, all like it, at least one: so  *)
(* the group may be used again for a run of equal left keys, and unwrap of *)
(* active_key (109) finds one.  If the inputs are mergeable the group is   *)
(* every right row with the key, and between groups no right row passed    *)
(* could match a left row to come.                                         *)
GroupIsWhole ==
    /\ pending_left_row = {} =>
          /\ right_group = <<>> /\ right_group_idx = 0 /\ active_key = {}
          /\ Mergeable =>
                \A i \in left_row .. Len(lkey), j \in 1 .. right_row - 1 : rkey[j] < lkey[i]
    /\ \A l \in pending_left_row :
          /\ pending_left_row = {l} /\ l = left_row - 1
          /\ active_key = {lkey[l]} /\ Len(right_group) > 0
          /\ \A k \in 1 .. Len(right_group) :
                /\ right_group[k] = FirstInGroup + k - 1
                /\ Alike(lkey[l], rkey[right_group[k]])
          /\ Mergeable =>
                \A j \in 1 .. Len(rkey) :
                   j < right_row /\ j >= FirstInGroup <=> rkey[j] = lkey[l]

Pairs == (1 .. MaxRows) \X (1 .. MaxRows)

(* Pairs that next() has still to return: the rest of the group with the   *)
(* pending row; rows from the group on with left rows from left_row on.    *)
ToCome(i, j) ==
    /\ i <= Len(lkey) /\ j <= Len(rkey) /\ lkey[i] = rkey[j]
    /\ \/ i \in pending_left_row /\ j >= FirstInGroup + right_group_idx /\ j < right_row
       \/ i >= left_row /\ j >= FirstInGroup

Pending == { p \in Pairs : ToCome(p[1], p[2]) }

(* By the left row, then by the right row.                                 *)
InOrder ==
    { x \in Pairs \X Pairs : \/ x[1][1] < x[2][1]
                             \/ x[1][1] = x[2][1] /\ x[1][2] < x[2][2] }

Stream == INSTANCE OperatorStream WITH Row <- Pairs, Before <- InOrder, todo <- Pending

(* Of mergeable inputs next() returns every pair of rows with equal keys   *)
(* exactly once, in the order of the left input (the planner tells the     *)
(* operators above that the result is ordered by the left column), and     *)
(* None only after the last.  Of inputs that are not, nothing is said: a   *)
(* first left key of another type than the right ones takes them all.      *)
MergesAll == Stream!Init /\ [][Mergeable => Stream!Next]_<<Pending, out, done>>

(* Every call returns, whatever the inputs: none of the loop's turns       *)
(* leaves the state as it is while rows are left on both sides.            *)
Ends == <>done
=============================================================================
