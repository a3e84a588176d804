--------------------------- MODULE AttributeList ---------------------------
(***************************************************************************)
(* The attribute list helpers (helper/attribute) and the updater's own     *)
(* merge, on lists as Go has them: a slice is a window on an array, and    *)
(* whoever shares the array sees what is written to it.                    *)
(*                                                                         *)
(* A heap maps the name of an array to a sequence as long as the array's   *)
(* capacity; a slice is [array, len].  An operation that may allocate gets *)
(* the name `new` of an array nobody holds, and returns [heap, list], the  *)
(* heap it leaves and the slice it returns.  An attribute is [name,        *)
(* value]; the name "" is Go's zero value, and so is 0.                    *)
(***************************************************************************)
EXTENDS Integers, Sequences, FiniteSets, SequencesExt

AttributeInfo == [name : STRING \cup {""}, value : Nat]

Contents(heap, slice) == SubSeq(heap[slice.array], 1, slice.len)

Returned(heap, list) == [heap |-> heap, list |-> list]

Names(attributes) == {attributes[i].name : i \in DOMAIN attributes}

\* Go's zero value for a name.
Nameless(attr) == attr.name = ""

\* The index of the first attribute of that name; 0 for nil.
FindAttrByName(attributes, name) ==
  SelectInSeq(attributes, LAMBDA attr : attr.name = name)

\* The attributes Get finds: one, or none.
Get(attributes, name) ==
  LET found == FindAttrByName(attributes, name)
  IN  IF found = 0 THEN {} ELSE {attributes[found]}

\* An array that holds the attributes, with room for `spare` more.
Allocated(attributes, spare) ==
  attributes \o [i \in 1..spare |-> [name |-> "", value |-> 0]]

\* The heap with an array made, or written to.
Stored(heap, array, attributes) ==
  [a \in DOMAIN heap \cup {array} |-> IF a = array THEN attributes ELSE heap[a]]

DeepCopy(heap, slice, new) ==
  Returned(Stored(heap, new, Contents(heap, slice)), [slice EXCEPT !.array = new])

\* Go's append: in the array while there is room, else in a new one, which has
\* some to spare.
AppendAll(heap, slice, attributes, new) ==
  LET len == slice.len + Len(attributes)
      written == Contents(heap, slice) \o attributes
      old == heap[slice.array]
  IN  IF len <= Len(old)
        THEN Returned(Stored(heap, slice.array, written \o SubSeq(old, len + 1, Len(old))),
                      [slice EXCEPT !.len = len])
        ELSE Returned(Stored(heap, new, Allocated(written, 1)), [array |-> new, len |-> len])

\* The first attribute of that name gets the value, in place.
SetValue(heap, slice, attr) ==
  [heap EXCEPT ![slice.array][FindAttrByName(Contents(heap, slice), attr.name)].value =
     attr.value]

-----------------------------------------------------------------------------
(* helper/attribute                                                        *)

\* Fault: the list is appended to and written to without a copy.
InsertInPlace(heap, slice, attr, new) ==
  IF Nameless(attr)
    THEN Returned(heap, slice)
    ELSE IF attr.name \in Names(Contents(heap, slice))
      THEN Returned(SetValue(heap, slice, attr), slice)
      ELSE AppendAll(heap, slice, <<attr>>, new)

Insert(heap, slice, attr, new) ==
  LET attrs == DeepCopy(heap, slice, new)
  IN  IF Nameless(attr)
        THEN Returned(heap, slice)
        ELSE IF attr.name \in Names(Contents(heap, slice))
          THEN Returned(SetValue(attrs.heap, attrs.list, attr), attrs.list)
          ELSE AppendAll(attrs.heap, attrs.list, <<attr>>, new)

\* Fault: what is new is appended while the loop runs, so that a name twice in
\* `updated` finds its first occurrence.
MergeAtOnce(heap, existing, updated, new) ==
  LET Join(merged, attr) ==
        IF attr.name \in Names(Contents(merged.heap, merged.list))
          THEN Returned(SetValue(merged.heap, merged.list, attr), merged.list)
          ELSE AppendAll(merged.heap, merged.list, <<attr>>, new)
  IN  FoldLeft(Join, DeepCopy(heap, existing, new), updated)

\* The heap after n turns of Merge's loop, and what is new so far.
MergeLoop(ret, updated) ==
  LET after[n \in 0..Len(updated)] ==
        IF n = 0
          THEN [heap |-> ret.heap, delta |-> <<>>]
          ELSE LET before == after[n - 1]
                   attr == updated[n]
               IN  IF attr.name \in Names(Contents(before.heap, ret.list))
                     THEN [before EXCEPT !.heap = SetValue(@, ret.list, attr)]
                     ELSE [before EXCEPT !.delta = Append(@, attr)]
  IN  after

\* What is new is appended after the loop.
Merge(heap, existing, updated, new) ==
  LET ret == DeepCopy(heap, existing, new)
      end == MergeLoop(ret, updated)[Len(updated)]
  IN  AppendAll(end.heap, ret.list, end.delta, new)

\* The attributes that have none of the names: the loop of DeleteAll.
Without(attributes, names) ==
  LET kept[n \in 0..Len(attributes)] ==
        IF n = 0 THEN <<>>
        ELSE IF attributes[n].name \in names THEN kept[n - 1]
        ELSE Append(kept[n - 1], attributes[n])
  IN  kept[Len(attributes)]

\* Fault: only the first attribute of that name is removed.
DeleteFirst(heap, slice, name, new) ==
  LET attributes == Contents(heap, slice)
      found == FindAttrByName(attributes, name)
      kept == IF found = 0 THEN attributes ELSE RemoveAt(attributes, found)
  IN  Returned(Stored(heap, new, Allocated(kept, slice.len - Len(kept))),
               [array |-> new, len |-> Len(kept)])

DeleteAll(heap, slice, name, new) ==
  LET kept == Without(Contents(heap, slice), {name})
  IN  Returned(Stored(heap, new, Allocated(kept, slice.len - Len(kept))),
               [array |-> new, len |-> Len(kept)])

-----------------------------------------------------------------------------
(* The updater's merge into the list of an object.                         *)

UpdateAttribute(heap, slice, attr, new) ==
  IF attr.name \in Names(Contents(heap, slice))
    THEN Returned(SetValue(heap, slice, attr), slice)
    ELSE AppendAll(heap, slice, <<attr>>, new)

\* The heap and the list after n turns of the loop of updateAttributes.
UpdateLoop(copy, attributes, new) ==
  LET after[n \in 0..Len(attributes)] ==
        IF n = 0 THEN copy
                 ELSE UpdateAttribute(after[n - 1].heap, after[n - 1].list, attributes[n], new)
  IN  after

\* On the list of a deep copy of the object, as updateNodeResourceTopology calls it.
UpdateAttributes(heap, slice, attributes, new) ==
  UpdateLoop(DeepCopy(heap, slice, new), attributes, new)[Len(attributes)]

-----------------------------------------------------------------------------
(* What is said of a list and the one a helper returns.                    *)

ValuesOf(attributes, name) ==
  {attributes[i].value : i \in {j \in DOMAIN attributes : attributes[j].name = name}}

NamesOf(attributes) == [i \in DOMAIN attributes |-> attributes[i].name]

\* `after` is `before` with the attributes of `updated` joined in: the order is
\* kept, what is new comes behind, the value Get finds is one of `updated`, and
\* other attributes are as they were.
Joined(before, updated, after, new) ==
  /\ NamesOf(after) = NamesOf(before) \o new
  /\ Without(after, Names(updated)) = Without(before, Names(updated))
  /\ \A name \in Names(updated) :
       \A attr \in Get(after, name) : attr.value \in ValuesOf(updated, name)

\* `after` has the attributes of `before` whose name is another, each behind as many
\* of them as in `before`.
Deleted(before, name, after) ==
  LET kept == {i \in DOMAIN before : before[i].name # name}
      Place(i) == Cardinality({j \in kept : j <= i})
  IN  /\ Len(after) = Cardinality(kept)
      /\ \A i \in kept : after[Place(i)] = before[i]

\* The first occurrences of the members of a sequence.
Distinct(names) ==
  LET kept[n \in 0..Len(names)] ==
        IF n = 0 THEN <<>>
        ELSE IF names[n] \in Range(kept[n - 1]) THEN kept[n - 1]
        ELSE Append(kept[n - 1], names[n])
  IN  kept[Len(names)]

=============================================================================
