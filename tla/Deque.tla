------------------------------- MODULE Deque -------------------------------
(***************************************************************************)
(* What mylib/vector.h promises: a double-ended queue without a size       *)
(* limit.  call is the last operation with its argument, out what it       *)
(* returned.                                                               *)
(***************************************************************************)
EXTENDS Naturals, Sequences

CONSTANTS Entries, Null, MaxIndex

VARIABLES items, call, out

\* The operation op, called with x, returns v.
Ret(op, x, v) == call' = <<op, x>> /\ out' = v

DInit == items = <<>> /\ call = <<"alloc", Null>> /\ out = Null

DPushBack(e) == items' = Append(items, e) /\ Ret("push_back", e, "RET_SUCCEED")

DUnshift(e) == items' = <<e>> \o items /\ Ret("unshift", e, "RET_SUCCEED")

DPop ==
    IF items = <<>>
    THEN Ret("pop", Null, Null) /\ UNCHANGED items
    ELSE /\ Ret("pop", Null, items[Len(items)])
         /\ items' = SubSeq(items, 1, Len(items) - 1)

DShift ==
    IF items = <<>>
    THEN Ret("shift", Null, Null) /\ UNCHANGED items
    ELSE Ret("shift", Null, Head(items)) /\ items' = Tail(items)

\* An index beyond the last item promises nothing, unless there is no item.
DGet(i) ==
    /\ call' = <<"get", i>>
    /\ items = <<>> => out' = Null
    /\ i < Len(items) => out' = items[i + 1]
    /\ UNCHANGED items

DSize == Ret("size", Null, Len(items)) /\ UNCHANGED items

DIsEmpty == Ret("isempty", Null, items = <<>>) /\ UNCHANGED items

DEmpty == items' = <<>> /\ Ret("empty", Null, "RET_SUCCEED")

DDestroy == items' = <<>> /\ Ret("destroy", Null, Null)

\* vector_insert and vector_remove are stubs.
DInsert == Ret("insert", Null, "RET_FAILED") /\ UNCHANGED items
DRemove == Ret("remove", Null, Null) /\ UNCHANGED items

DNext ==
    \/ \E e \in Entries : DPushBack(e) \/ DUnshift(e)
    \/ DPop \/ DShift \/ DSize \/ DIsEmpty \/ DEmpty \/ DDestroy
    \/ DInsert \/ DRemove
    \/ \E i \in 0..MaxIndex : DGet(i)

DSpec == DInit /\ [][DNext]_<<items, call, out>>
=============================================================================
