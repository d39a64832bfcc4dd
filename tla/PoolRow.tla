------------------------------- MODULE PoolRow -------------------------------
(***************************************************************************)
(* The row zpool_list_callback() builds for one pool (zpool_list.c:14-158).*)
(*                                                                         *)
(* Three 64-bit sizes are read, one call each, while the pool is being     *)
(* written to; the capacity is computed from two of them in unsigned       *)
(* arithmetic and cast; the status becomes a word; three texts are read    *)
(* into one buffer.                                                        *)
(*                                                                         *)
(* The library, as the code uses it: the first read of a pool's properties *)
(* that succeeds fetches all of them into the handle, where later reads    *)
(* find them; zpool_get_prop_int() has no way to tell of a failure, its    *)
(* value is then 0.  The walk the callback is part of is PoolWalk.         *)
(***************************************************************************)
EXTENDS Integers

CONSTANTS
  UMod,    \* 2 to the bits of uint64_t
  LMod,    \* 2 to the bits of long, which has those of a PHP integer
  IMod,    \* 2 to the bits of int
  Spaces,  \* what a pool's size and allocated space can be together
  Absent   \* in the place of a value: the row does not have the key

ASSUME WidthAssumption ==
  /\ UMod \in Nat /\ LMod \in Nat /\ IMod \in Nat
  /\ LMod > 0 /\ UMod > 0 /\ IMod > 200   \* a percentage is an int

ASSUME SpaceAssumption ==
  \A s \in Spaces :
    /\ s = [size |-> s.size, alloc |-> s.alloc]
    /\ s.size \in 0 .. UMod - 1
    /\ s.alloc \in 0 .. s.size

\* zpool_status_t, without the prefix (compat/openzfs/libzfs.h:406-469).
HandledStatuses ==
  {"CORRUPT_CACHE", "MISSING_DEV_R", "MISSING_DEV_NR", "CORRUPT_LABEL_R",
   "CORRUPT_LABEL_NR", "BAD_GUID_SUM", "CORRUPT_POOL", "CORRUPT_DATA",
   "FAILING_DEV", "VERSION_NEWER", "HOSTID_MISMATCH", "IO_FAILURE_WAIT",
   "IO_FAILURE_CONTINUE", "BAD_LOG", "ERRATA", "UNSUP_FEAT_READ",
   "UNSUP_FEAT_WRITE", "FAULTED_DEV_R", "FAULTED_DEV_NR", "VERSION_OLDER",
   "FEAT_DISABLED", "RESILVERING", "OFFLINE_DEV", "REMOVED_DEV"}

OtherFaults ==
  {"HOSTID_ACTIVE", "HOSTID_REQUIRED", "IO_FAILURE_MMP", "REBUILDING",
   "REBUILD_SCRUB", "NON_NATIVE_ASHIFT", "COMPATIBILITY_ERR", "INCOMPATIBLE_FEAT"}

Statuses == HandledStatuses \cup OtherFaults \cup {"OK"}

TextKeys == <<"version", "bootfs", "altroot">>
TextSet  == {TextKeys[i] : i \in 1 .. 3}
Texts    == TextSet \cup {"garbage"}   \* a text is named for what it describes

VARIABLES
  space,      \* the pool's space now
  props,      \* zpool_props of the handle: {} until fetched, then the one record
  pc,         \* where the callback is
  size,       \* local: uint64_t
  allocated,  \* local: uint64_t
  buf,        \* property_buf
  row,        \* pool_info; outside the callback, the last row added
  status,     \* what zpool_get_status() makes of the handle's configuration
  \* history, read by the properties only
  seen,       \* the spaces the integer properties were read from
  failed      \* the integer properties whose read failed

vars == <<space, props, pc, size, allocated, buf, row, status, seen, failed>>

EmptyRow ==
  [size |-> 0, allocated |-> 0, free |-> 0, capacity |-> 0, health |-> "ONLINE",
   text |-> [key \in TextSet |-> Absent]]

Init ==
  /\ space \in Spaces
  /\ props = {}
  /\ pc = "outside"
  /\ size = 0
  /\ allocated = 0
  /\ buf = "garbage"
  /\ row = EmptyRow
  /\ status = "OK"
  /\ seen = {}
  /\ failed = {}
-----------------------------------------------------------------------------
(***************************************************************************)
(* The conversions of C.                                                   *)
(***************************************************************************)

\* v as a signed integer of which there are mod.
Signed(v, mod) ==
  LET m == v % mod IN IF 2 * m < mod THEN m ELSE m - mod

\* Slip: the division is done before the multiplication.
CapacityDividesFirst(a, s) ==
  IF s > 0 THEN Signed((a \div s) * 100, IMod) ELSE 0

\* Slip: size and allocated change places.
CapacitySwapped(a, s) ==
  IF a > 0 THEN Signed(((s * 100) % UMod) \div a, IMod) ELSE 0

\* (int)((allocated * 100) / size), the product wrapping around.
Capacity(a, s) ==
  IF s > 0 THEN Signed(((a * 100) % UMod) \div s, IMod) ELSE 0

\* Slip: the switch has no default, and no health is set.
HealthNoDefault(s) ==
  CASE s \in HandledStatuses -> s
    [] s = "OK"              -> "ONLINE"
    [] OTHER                 -> Absent

\* The switch over status: 24 cases, and a default shared with ZPOOL_STATUS_OK.
Health(s) == IF s \in HandledStatuses THEN s ELSE "ONLINE"
-----------------------------------------------------------------------------
\* Writes, frees, devices added and removed: at any time.
Write(s) ==
  /\ space' = s
  /\ UNCHANGED <<props, pc, size, allocated, buf, row, status, seen, failed>>

\* The callback is entered with a handle of its own; the array is new.
Enter(st) ==
  /\ pc = "outside"
  /\ pc' = "size"
  /\ props' = {}
  /\ buf' \in {buf, "garbage"}
  /\ row' = EmptyRow
  /\ status' = st
  /\ seen' = {}
  /\ failed' = {}
  /\ UNCHANGED <<space, size, allocated>>

\* zpool_get_prop_int(): v is the property's value as of the one fetch the
\* handle lives on, or 0 because there was none to be had.
Fetched == IF props = {} THEN {space} ELSE props

Part(key, s) ==
  CASE key = "size"      -> s.size
    [] key = "allocated" -> s.alloc
    [] key = "free"      -> s.size - s.alloc

Values(key) == {Part(key, s) : s \in Fetched} \cup {0}

PropInt(key, v) ==
  \/ /\ \E s \in Fetched : v = Part(key, s)
     /\ props' = Fetched
     /\ seen' = seen \cup Fetched
     /\ UNCHANGED failed
  \/ /\ props = {}
     /\ v = 0
     /\ failed' = failed \cup {key}
     /\ UNCHANGED <<props, seen>>

\* size = zpool_get_prop_int(ZPOOL_PROP_SIZE); "size" is (long)size.
ReadSize ==
  /\ pc = "size"
  /\ size' \in Values("size")
  /\ PropInt("size", size')
  /\ row' = [row EXCEPT !.size = Signed(size', LMod)]
  /\ pc' = "allocated"
  /\ UNCHANGED <<space, allocated, buf, status>>

ReadAllocated ==
  /\ pc = "allocated"
  /\ allocated' \in Values("allocated")
  /\ PropInt("allocated", allocated')
  /\ row' = [row EXCEPT !.allocated = Signed(allocated', LMod)]
  /\ pc' = "free"
  /\ UNCHANGED <<space, size, buf, status>>

\* Slip: the property above is read again.
ReadFreeCopied ==
  /\ pc = "free"
  /\ \E free \in Values("allocated") :
       /\ PropInt("allocated", free)
       /\ row' = [row EXCEPT !.free = Signed(free, LMod)]
  /\ pc' = "judge"
  /\ UNCHANGED <<space, size, allocated, buf, status>>

\* The library reports as free what is not allocated.
ReadFree ==
  /\ pc = "free"
  /\ \E free \in Values("free") :
       /\ PropInt("free", free)
       /\ row' = [row EXCEPT !.free = Signed(free, LMod)]
  /\ pc' = "judge"
  /\ UNCHANGED <<space, size, allocated, buf, status>>

\* The capacity and the health, from what is at hand.
Judge ==
  /\ pc = "judge"
  /\ row' = [row EXCEPT !.capacity = Capacity(allocated, size), !.health = Health(status)]
  /\ pc' = "version"
  /\ UNCHANGED <<space, props, size, allocated, buf, status, seen, failed>>

After == [version |-> "bootfs", bootfs |-> "altroot", altroot |-> "add"]

\* zpool_get_prop() returns 0 and the text in property_buf is copied.
ReadText ==
  /\ pc \in TextSet
  /\ buf' = pc
  /\ row' = [row EXCEPT !.text[pc] = buf']
  /\ pc' = After[pc]
  /\ UNCHANGED <<space, props, size, allocated, status, seen, failed>>

\* Slip: the text in property_buf is copied whatever zpool_get_prop() returned.
ReadTextUnchecked ==
  /\ pc \in TextSet
  /\ buf' \in {buf, "garbage"}
  /\ row' = [row EXCEPT !.text[pc] = buf']
  /\ pc' = After[pc]
  /\ UNCHANGED <<space, props, size, allocated, status, seen, failed>>

\* zpool_get_prop() fails: the row does not get the key.
ReadTextFails ==
  /\ pc \in TextSet
  /\ buf' \in {buf, "garbage"}
  /\ pc' = After[pc]
  /\ UNCHANGED <<space, props, size, allocated, row, status, seen, failed>>

\* add_next_index_zval() and zpool_close(): the row is in the array as it is.
Add ==
  /\ pc = "add"
  /\ pc' = "outside"
  /\ props' = {}
  /\ UNCHANGED <<space, size, allocated, buf, row, status, seen, failed>>
-----------------------------------------------------------------------------
Next ==
  \/ \E s \in Spaces : Write(s)
  \/ \E st \in Statuses : Enter(st)
  \/ ReadSize
  \/ ReadAllocated
  \/ ReadFree
  \/ Judge
  \/ ReadText
  \/ ReadTextFails
  \/ Add

Spec == Init /\ [][Next]_vars
-----------------------------------------------------------------------------
(***************************************************************************)
(* Properties of the rows that are added to the array.                     *)
(***************************************************************************)

\* n is a signed integer of which there are mod.
Fits(n, mod) == -mod <= 2 * n /\ 2 * n < mod

RowFits ==
  /\ Fits(row.size, LMod) /\ Fits(row.allocated, LMod) /\ Fits(row.free, LMod)
  /\ Fits(row.capacity, IMod)

TypeOK ==
  /\ space \in Spaces
  /\ props \in SUBSET Spaces
  /\ pc \in {"outside", "size", "allocated", "free", "judge", "add"} \cup TextSet
  /\ size \in 0 .. UMod - 1
  /\ allocated \in 0 .. UMod - 1
  /\ buf \in Texts
  /\ row \in [size : Int, allocated : Int, free : Int, capacity : Int,
              health : Statuses \cup {"ONLINE"},
              text : [TextSet -> Texts \cup {Absent}]]
  /\ RowFits
  /\ status \in Statuses
  /\ seen \in SUBSET Spaces
  /\ failed \in SUBSET {"size", "allocated", "free"}

Begun == seen # {} \/ failed # {}
Added == pc = "outside" /\ Begun

\* A capacity is a percentage whatever is written to the pool between the
\* reads of size and allocated, whichever read fails, and however the product
\* wraps around and the quotient is cast (zpool_list.c:50-56).
CapacityBounded == Added => row.capacity \in 0 .. 100

\* Without a failed read, and while 100 times what is allocated fits 64 bits,
\* it is the percentage of the size that was allocated when the pool was read.
CapacityExact ==
  Added /\ failed = {} =>
    \A s \in seen :
      s.alloc * 100 < UMod =>
        /\ row.capacity * s.size <= s.alloc * 100
        /\ s.size > 0 => s.alloc * 100 < (row.capacity + 1) * s.size

\* Without a failed read the three sizes are of one instant, though the pool
\* is written to between the calls: they are those of the pool if they fit a
\* long, and if a cast cuts them they still add up but for a multiple of what
\* was cut off (zpool_list.c:38-48).
SizesAgree ==
  Added /\ failed = {} =>
    \E s \in seen :
      /\ 2 * s.size < LMod =>
           row.size = s.size /\ row.allocated = s.alloc /\ row.free = s.size - s.alloc
      /\ (row.size - row.allocated - row.free) % LMod = 0

\* Every text is the one its key names, or there is no key (zpool_list.c:139-155).
TextsTruthful == Added => \A key \in TextSet : row.text[key] \in {key, Absent}

\* "`capacity` - Used capacity as percentage" (README.md:102), of any pool.
CapacityIsPercentage ==
  Added /\ failed = {} =>
    \A s \in seen :
      s.size > 0 => s.alloc * 100 < (row.capacity + 1) * s.size

\* "Finally, the following indicates a healthy pool. ZPOOL_STATUS_OK"
\* (compat/openzfs/libzfs.h:465-468): a row that says ONLINE, the word for a
\* healthy pool, is of a pool with that status.
OnlineMeansHealthy == Added /\ row.health = "ONLINE" => status = "OK"
-----------------------------------------------------------------------------
(***************************************************************************)
(* The inductive invariant behind the properties (PoolRowProofs).          *)
(***************************************************************************)

\* The reads that succeeded all saw the one fetch the handle lives on.
OneFetch ==
  /\ \A s, t \in seen : s = t
  /\ pc # "outside" => props = seen
  /\ pc = "size" => ~ Begun
  /\ pc \notin {"outside", "size"} => Begun

\* Without a failed read, locals and row have the parts of that fetch.
PartsRead ==
  Begun /\ failed = {} =>
    \E s \in seen :
      /\ size = s.size /\ row.size = Signed(s.size, LMod)
      /\ pc # "allocated" =>
           allocated = s.alloc /\ row.allocated = Signed(s.alloc, LMod)
      /\ pc \notin {"allocated", "free"} => row.free = Signed(s.size - s.alloc, LMod)

\* A size that is not zero was read, and what was allocated with it.
LocalsAgree ==
  Begun /\ size > 0 =>
    \E s \in seen : size = s.size /\ (pc # "allocated" => allocated = s.alloc)

CapacityComputed ==
  Begun /\ pc \notin {"allocated", "free", "judge"} =>
    row.capacity = Capacity(allocated, size)

TextsOwn == \A key \in TextSet : row.text[key] \in {key, Absent}

IInv == OneFetch /\ PartsRead /\ LocalsAgree /\ CapacityComputed /\ TextsOwn
=============================================================================
