--------------------------- MODULE AbstractRWLock ---------------------------
(***************************************************************************)
(* What a readers-writer lock promises: many readers or one writer.        *)
(* RWLock (rw-lock/rw_lock.h) and RWSpinLock (rw-spinlock/rw_spinlock.h)   *)
(* are shown to implement it.                                              *)
(***************************************************************************)
CONSTANT Thread

VARIABLES readers, writers      \* the threads that read, that write

RWInit == readers = {} /\ writers = {}

EnterRead(t) == /\ t \notin readers /\ writers = {}
                /\ readers' = readers \cup {t} /\ UNCHANGED writers

LeaveRead(t) == /\ t \in readers
                /\ readers' = readers \ {t} /\ UNCHANGED writers

EnterWrite(t) == /\ readers = {} /\ writers = {}
                 /\ writers' = {t} /\ UNCHANGED readers

LeaveWrite(t) == /\ t \in writers
                 /\ writers' = writers \ {t} /\ UNCHANGED readers

RWNext == \E t \in Thread : \/ EnterRead(t) \/ LeaveRead(t)
                            \/ EnterWrite(t) \/ LeaveWrite(t)

RWSpec == RWInit /\ [][RWNext]_<<readers, writers>>
=============================================================================
