------------------------------ MODULE AlertRecords ------------------------------
(***************************************************************************)
(* The edits of a stored alert. Its row has a status column, which a       *)
(* status change sets, and a raw_context, in which the tags are: adding    *)
(* and removing tags reads it, awaits, and writes it back whole. What the  *)
(* API shows as the status is the one in raw_context, which no edit sets.  *)
(***************************************************************************)
EXTENDS Naturals, FiniteSets

CONSTANTS
    Editors,        \* requests that edit the tags
    Tags,
    MaxTags,        \* ten
    MaxWrites       \* bound: writes of tags

ASSUME AlertRecordsAssumption ==
    IsFiniteSet(Tags) /\ {MaxTags, MaxWrites} \subseteq Nat

VARIABLES
    column,         \* the status column
    tags,           \* the tags in raw_context
    version,        \* how often raw_context was written
    edit,           \* editor -> what it read and is to write, or NoEdit
    wanted,         \* history: the tags if every answered edit had been one step
    staleWrite      \* history: whether an edit was written over one it had not read

recordVars == <<column, tags, version, edit, wanted, staleWrite>>

NoEdit == [idle |-> TRUE]

Edit(add, remove) ==
    [read |-> tags, version |-> version, add |-> add, remove |-> remove]

-----------------------------------------------------------------------------

\* Mutant: the limit is for the tags of the row, and not for those to come.
FitsAsItIs(payload) == Cardinality(tags) <= MaxTags

Within(payload) == Cardinality(tags \union payload) <= MaxTags

\* add_alert_tags reads; it is answered at once when nothing is new or there
\* would be too many.
AddTags(r, payload) ==
    /\ edit[r] = NoEdit
    /\ version < MaxWrites
    /\ payload \ tags # {}
    /\ Within(payload)
    /\ edit' = [edit EXCEPT ![r] = Edit(payload \ tags, {})]
    /\ UNCHANGED <<column, tags, version, wanted, staleWrite>>

\* remove_alert_tag reads; it is answered at once when the tag is not there.
RemoveTag(r, tag) ==
    /\ edit[r] = NoEdit
    /\ version < MaxWrites
    /\ tag \in tags
    /\ edit' = [edit EXCEPT ![r] = Edit({}, {tag})]
    /\ UNCHANGED <<column, tags, version, wanted, staleWrite>>

After(kept, e) == (kept \union e.add) \ e.remove

\* raw_context is written as it was read, with the new tags or without the
\* removed one, and answered.
WriteTags(r) ==
    /\ edit[r] # NoEdit
    /\ tags' = After(edit[r].read, edit[r])
    /\ wanted' = After(wanted, edit[r])
    /\ version' = version + 1
    /\ staleWrite' = (staleWrite \/ edit[r].version # version)
    /\ edit' = [edit EXCEPT ![r] = NoEdit]
    /\ UNCHANGED column

\* The database raises: 500.
WriteTagsFails(r) ==
    /\ edit[r] # NoEdit
    /\ edit' = [edit EXCEPT ![r] = NoEdit]
    /\ UNCHANGED <<column, tags, version, wanted, staleWrite>>

\* update_status; anything else is refused.
SetColumn(status) ==
    /\ status # column
    /\ column' = status
    /\ UNCHANGED <<tags, version, edit, wanted, staleWrite>>

RecordsInit ==
    /\ column = "open"
    /\ tags = {}
    /\ version = 0
    /\ edit = [r \in Editors |-> NoEdit]
    /\ wanted = {}
    /\ staleWrite = FALSE

RecordsNext ==
    \/ \E r \in Editors :
          \/ WriteTags(r)
          \/ WriteTagsFails(r)
          \/ \E payload \in SUBSET Tags : AddTags(r, payload)
          \/ \E tag \in Tags : RemoveTag(r, tag)
    \/ \E status \in {"open", "closed", "in_progress"} : SetColumn(status)

RecordsSpec == RecordsInit /\ [][RecordsNext]_recordVars

-----------------------------------------------------------------------------
(* Properties *)

\* Overlapping edits may lose each other's tags, but only by a write over an
\* edit that was not read; and however they overlap, the limit holds: a write
\* is checked against what it was made from, and so is the whole of the row.
TagEditsAddUp ==
    /\ Cardinality(tags) <= MaxTags
    /\ ~staleWrite => tags = wanted

=============================================================================
