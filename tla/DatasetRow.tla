----------------------------- MODULE DatasetRow ------------------------------
(***************************************************************************)
(* The row zfs_list_callback() builds for one dataset (zfs_list.c:17-95).  *)
(*                                                                         *)
(* The name and the type come first; then six properties are read, one     *)
(* after the other, into one buffer, property_buf, and copied from there   *)
(* into the row.  A read that fails leaves in the buffer whatever is there *)
(* by then: a piece of the failed answer, the property read before, or, in *)
(* a fresh frame of the C stack, something of an earlier dataset.          *)
(*                                                                         *)
(* A property's value is the pair of its dataset and its key: the pair     *)
(* tells every confusion of values apart, and their wording does not       *)
(* matter.  DatasetList puts the rows into the walk, DatasetWalk.           *)
(***************************************************************************)
EXTENDS Naturals, Sequences

CONSTANTS
  Datasets,   \* the datasets the walk can visit
  TypeOf,     \* their zfs_type_t, as the library has it
  Unreadable, \* bound: the properties whose reads may fail
  Nobody,     \* the owner of a text that is no property's value
  Absent      \* in the place of a value: the row does not have the key

\* zfs_type_t: the four the callback knows, and the pool type it does not.
Types == {"FILESYSTEM", "VOLUME", "SNAPSHOT", "BOOKMARK", "POOL"}

\* The keys that are read through property_buf, in the order of the code.
Keys ==
  <<"used", "available", "referenced", "mountpoint", "creation", "compressratio">>

KeySet == {Keys[i] : i \in 1 .. Len(Keys)}

Value(d, key) == [of |-> d, key |-> key]
Values        == [of : Datasets \cup {Nobody}, key : KeySet]
Garbage       == Value(Nobody, "used")

ASSUME DatasetAssumption ==
  /\ TypeOf \in [Datasets -> Types]
  /\ Unreadable \subseteq KeySet
  /\ Nobody \notin Datasets
  /\ Absent \notin Values

VARIABLES
  table,   \* the rows of return_value, in order
  pc,      \* "outside" zfs_list_callback(), or building a row "inside" it
  ds,      \* the dataset zfs_list_callback() is called with
  next,    \* the next key to read
  buf,     \* property_buf
  row,     \* dataset_info
  got      \* history: the keys read with success, of each row of the array
           \* and, in the last place, of the row being built

vars == <<table, pc, ds, next, buf, row, got>>

TypeNames == {"filesystem", "volume", "snapshot", "bookmark", "unknown"}

Rows ==
  [name  : Datasets,
   type  : TypeNames,
   props : [KeySet -> Values \cup {Absent}]]

\* The switch over dataset_type.
TypeName(type) ==
  CASE type = "FILESYSTEM" -> "filesystem"
    [] type = "VOLUME"     -> "volume"
    [] type = "SNAPSHOT"   -> "snapshot"
    [] type = "BOOKMARK"   -> "bookmark"
    [] OTHER               -> "unknown"

\* add_assoc_string(): the key is added, or given the new value.
With(r, key, value) == [r EXCEPT !.props[key] = value]

\* dataset_info with the first two of its keys.
NewRow(d) ==
  [name  |-> d,
   type  |-> TypeName(TypeOf[d]),
   props |-> [key \in KeySet |-> Absent]]

Current == got[Len(got)]

TypeOK ==
  /\ table \in Seq(Rows)
  /\ pc \in {"outside", "inside"}
  /\ ds \in Datasets
  /\ next \in 1 .. Len(Keys) + 1
  /\ buf \in Values
  /\ row \in Rows
  /\ got \in Seq(SUBSET KeySet)
  /\ Len(got) = IF pc = "inside" THEN Len(table) + 1 ELSE Len(table)

Init ==
  /\ table = <<>>
  /\ pc = "outside"
  /\ ds \in Datasets
  /\ next = 1
  /\ buf = Garbage
  /\ row = NewRow(ds)
  /\ got = <<>>
-----------------------------------------------------------------------------
\* A new call of zfs_list(): array_init(return_value).
Begin ==
  /\ pc = "outside"
  /\ table' = <<>>
  /\ got' = <<>>
  /\ UNCHANGED <<pc, ds, next, buf, row>>

\* The array goes: a call that failed drops it, and one that is aborted takes
\* the row being built with it.
Discard ==
  /\ table' = <<>>
  /\ got' = <<>>
  /\ pc' = "outside"
  /\ UNCHANGED <<ds, next, buf, row>>

\* The callback is entered: the locals are what the stack holds, the row is
\* a new array with the dataset's name and type.
Visit(d) ==
  /\ pc = "outside"
  /\ ds' = d
  /\ next' = 1
  /\ buf' \in {buf, Garbage}
  /\ row' = NewRow(d)
  /\ got' = Append(got, {})
  /\ pc' = "inside"
  /\ UNCHANGED table

\* No dataset is visited that is in the array; DatasetList shows why.
Enter(d) ==
  /\ \A i \in 1 .. Len(table) : table[i].name # d
  /\ Visit(d)

Reading == pc = "inside" /\ next <= Len(Keys)

\* zfs_prop_get() returns 0 and the text in property_buf is copied.
Get ==
  /\ Reading
  /\ buf' = Value(ds, Keys[next])
  /\ row' = With(row, Keys[next], buf')
  /\ got' = [got EXCEPT ![Len(got)] = @ \cup {Keys[next]}]
  /\ next' = next + 1
  /\ UNCHANGED <<table, pc, ds>>

\* Slip: the text in property_buf is copied whatever zfs_prop_get() returned.
GetUnchecked ==
  /\ Reading
  /\ Keys[next] \in Unreadable
  /\ buf' \in {buf, Garbage}
  /\ row' = With(row, Keys[next], buf')
  /\ next' = next + 1
  /\ UNCHANGED <<table, pc, ds, got>>

\* Slip: the key after a failed read is passed over as well.
GetSkipsTwo ==
  /\ Reading
  /\ Keys[next] \in Unreadable
  /\ buf' \in {buf, Garbage}
  /\ next' = next + 2
  /\ UNCHANGED <<table, pc, ds, row, got>>

\* zfs_prop_get() fails: no key for this property, and a buffer that is not
\* to be looked at.
GetFails ==
  /\ Reading
  /\ Keys[next] \in Unreadable
  /\ buf' \in {buf, Garbage}
  /\ next' = next + 1
  /\ UNCHANGED <<table, pc, ds, row, got>>

\* add_next_index_zval(): the row goes into the array, whatever it contains.
Add ==
  /\ pc = "inside"
  /\ next = Len(Keys) + 1
  /\ table' = Append(table, row)
  /\ pc' = "outside"
  /\ UNCHANGED <<ds, next, buf, row, got>>
-----------------------------------------------------------------------------
Next ==
  \/ Begin
  \/ Discard
  \/ \E d \in Datasets : Enter(d)
  \/ Get
  \/ GetFails
  \/ Add

Spec == Init /\ [][Next]_vars
-----------------------------------------------------------------------------
\* The row r is d's own, with the values of the keys in K and no other key.
OwnRow(r, d, K) ==
  /\ r.name = d
  /\ r.type = TypeName(TypeOf[d])
  /\ r.props = [key \in KeySet |-> IF key \in K THEN Value(d, key) ELSE Absent]

\* Every value in the array is of the row's own dataset and of the property
\* its key names, and a property whose read failed has no key, though all the
\* values went through one buffer nobody clears (zfs_list.c:58-92).
RowsTruthful ==
  \A i \in 1 .. Len(table) : OwnRow(table[i], table[i].name, got[i])

\* The row being built is truthful as far as it goes.
RowInv ==
  /\ RowsTruthful
  /\ pc = "inside" =>
       /\ OwnRow(row, ds, Current)
       /\ Current \subseteq {Keys[i] : i \in 1 .. next - 1}
=============================================================================
