------------------------------ MODULE BatchSave ------------------------------
(***************************************************************************)
(* The batch of one record type, and the divider that makes it: the first   *)
(* record of the type deletes what an earlier run has extracted, records    *)
(* are kept in slots and written to the table when the slots are full.      *)
(* There is no lock: whoever adds does it in two steps that others may      *)
(* come between.                                                            *)
(***************************************************************************)
EXTENDS Naturals, FiniteSets

CONSTANTS
    Record,     \* records of the type, by their primary key
    NoRecord,   \* the nil pointer in a slot that was never set
    BatchSize

ASSUME BatchAssumption == BatchSize \in Nat \ {0} /\ NoRecord \notin Record

VARIABLES
    typed,    \* whether the divider has the batch of this type
    slots,    \* the records to be written, the first `current` of them valid
    current,
    index,    \* keys of valueIndex
    table     \* the table of the type, as far as it is of this collection

batch == <<typed, slots, current, index, table>>

BatchInit ==
    /\ typed = FALSE
    /\ slots = [i \in 0 .. BatchSize - 1 |-> NoRecord]
    /\ current = 0
    /\ index = {}

\* ForType: the first call for the type deletes the outdated records.
Outdated == IF typed THEN {} ELSE table

\* A fault: outdated records are left in the table.
ForTypeKeeps == typed' = TRUE /\ UNCHANGED table

ForType == typed' = TRUE /\ table' = table \ Outdated

\* The deletion fails, but the divider has the batch all the same.
ForTypeFails == ~typed /\ typed' = TRUE /\ UNCHANGED <<slots, current, index, table>>

\* A fault: duplicates are not looked for.
NeverKnown(rec) == FALSE

Known(rec) == rec \in index

\* Add, when the key is already in the batch: its record is replaced.
AddAgain(rec) ==
    /\ ForType
    /\ Known(rec)
    /\ UNCHANGED <<slots, current, index>>

\* Add, up to the assignment of the slot.
AddSlot(rec) ==
    /\ ForType
    /\ ~Known(rec)
    /\ current < BatchSize
    /\ index' = index \cup {rec}
    /\ slots' = [slots EXCEPT ![current] = rec]
    /\ UNCHANGED current

\* The index is out of the range of the slots: the goroutine panics.
AddPanics(rec) == ~Known(rec) /\ current >= BatchSize

\* The records in the first n slots.
Valid(n) == {slots[i] : i \in 0 .. n - 1}

\* CreateOrUpdate of the first n slots.
Flush(n) ==
    /\ table' = table \cup (Valid(n) \ {NoRecord})
    /\ current' = 0
    /\ index' = {}
    /\ UNCHANGED <<typed, slots>>

\* Add, from the increment on.
AddCount ==
    \/ /\ current + 1 = BatchSize
       /\ Flush(BatchSize)
    \/ /\ current + 1 # BatchSize
       /\ current' = current + 1
       /\ UNCHANGED <<typed, slots, index, table>>

\* The same when the database refuses: the batch stays full.
AddCountFails ==
    /\ current + 1 = BatchSize
    /\ current' = current + 1
    /\ UNCHANGED <<typed, slots, index, table>>

\* divider.Close writes what is left.
CloseBatch == IF current = 0 THEN UNCHANGED batch ELSE Flush(current)

\* No two slots that are written together have one key, which the database
\* would refuse.
DistinctKeys == \A i, j \in 0 .. current - 1 :
    i < j /\ j < BatchSize /\ slots[i] # NoRecord => slots[i] # slots[j]
=============================================================================
