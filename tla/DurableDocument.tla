--------------------------- MODULE DurableDocument ---------------------------
(***************************************************************************)
(* What the persistence of one document promises, without saying how: a    *)
(* copy in memory, a copy in storage, and residences of the document in    *)
(* memory.  In a residence without a fault the memory starts as what       *)
(* storage holds, storage only ever grows towards the memory, and the      *)
(* residence ends with every edit in storage.  A faulty residence (the     *)
(* load failed, the process died, or the last store failed before an eager *)
(* unload) promises nothing: DocumentStore says when one can be faulty.    *)
(***************************************************************************)
CONSTANT Edits      \* the updates a document can absorb

VARIABLES
    resident,       \* is the document in memory?
    memory,         \* the edits of the copy in memory
    durable,        \* the edits of the copy in storage
    faulty          \* has something gone wrong in the current or last residence?

vars == <<resident, memory, durable, faulty>>

Init ==
    /\ resident = FALSE
    /\ memory = {}
    /\ durable = {}
    /\ faulty = FALSE

Load ==
    /\ ~resident
    /\ resident' = TRUE
    /\ faulty' \in BOOLEAN
    /\ memory' = IF faulty' THEN {} ELSE durable
    /\ UNCHANGED durable

Edit(e) ==
    /\ resident
    /\ memory' = memory \cup {e}
    /\ UNCHANGED <<resident, durable, faulty>>

Persist ==
    /\ resident
    /\ durable' \in SUBSET memory
    /\ faulty \/ durable \subseteq durable'
    /\ UNCHANGED <<resident, memory, faulty>>

Unload ==
    /\ resident
    /\ resident' = FALSE
    /\ memory' = {}
    /\ faulty' \in {faulty, TRUE}
    /\ faulty' \/ memory \subseteq durable
    /\ UNCHANGED durable

Next == Load \/ Persist \/ Unload \/ \E e \in Edits : Edit(e)

Spec == Init /\ [][Next]_vars
=============================================================================
