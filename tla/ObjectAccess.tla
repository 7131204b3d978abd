---------------------------- MODULE ObjectAccess ----------------------------
(***************************************************************************)
(* What the data managers promise the tasks that depend on one object, with *)
(* no processor, message or copy in sight: readers share a version, a      *)
(* writer has it alone, and every write produces the next version.  It is  *)
(* the statement of pzmainpage.h, "many processes can access a distribute  *)
(* data object simultaneously, but only one process can have write access",*)
(* for the tasks that share the object itself rather than a copy of it.    *)
(***************************************************************************)
EXTENDS Integers

CONSTANTS Task, Writers, Wanted, AnyVersion

VARIABLES version,   \* of the object
          readers,   \* tasks reading it
          writers,   \* tasks writing it
          served     \* tasks that have let it go

vars == <<version, readers, writers, served>>

Init == version = 0 /\ readers = {} /\ writers = {} /\ served = {}

\* A task asks once, for the version the object has now
MayAccess(t) == /\ t \notin readers \cup writers \cup served
                /\ Wanted[t] \in {AnyVersion, version}

AcquireRead(t) == /\ t \notin Writers /\ MayAccess(t) /\ writers = {}
                  /\ readers' = readers \cup {t}
                  /\ UNCHANGED <<version, writers, served>>

AcquireWrite(t) == /\ t \in Writers /\ MayAccess(t) /\ readers = {} /\ writers = {}
                   /\ writers' = {t}
                   /\ UNCHANGED <<version, readers, served>>

ReleaseRead(t) == /\ t \in readers
                  /\ readers' = readers \ {t}
                  /\ served' = served \cup {t}
                  /\ UNCHANGED <<version, writers>>

ReleaseWrite(t) == /\ t \in writers
                   /\ writers' = writers \ {t}
                   /\ version' = version + 1
                   /\ served' = served \cup {t}
                   /\ UNCHANGED readers

Next == \E t \in Task : AcquireRead(t) \/ AcquireWrite(t) \/ ReleaseRead(t) \/ ReleaseWrite(t)

Spec == Init /\ [][Next]_vars
=============================================================================
