------------------------------ MODULE SyncMap -------------------------------
(***************************************************************************)
(* sync-map/sync_map.h: an immutable snapshot read under a hazard pointer, *)
(* and a mutable map under mutex_ that takes the new keys until enough     *)
(* lookups have paid for the lock; then it becomes the next snapshot.      *)
(* ptr of HazardPtr is snapshot_.  What mutex_ protects is seen by nobody  *)
(* else, so a critical section is a step up to its store to snapshot_, the *)
(* steps of Retire, and the step that ends it.                             *)
(***************************************************************************)
EXTENDS HazardPtr

CONSTANTS Key, None,
          kMaxOperationsCnt,    \* 15 in the code
          MaxCalls              \* bound on the calls of all threads together

Maps == [Key -> Thread \cup {None}]     \* a thread inserts its own name
MapConstants == HazardConstants /\ None \notin Thread \cup Maps
EmptyMap == [k \in Key |-> None]
Join(first, then) == [k \in Key |-> IF first[k] # None THEN first[k] ELSE then[k]]

VARIABLES snapshot,             \* the Snapshot at an address: read_only and dirty
          mutable_map_, operation_count_, mutex_,
          call,                 \* a thread's call and key
          ret,                  \* what the last call returned
          before, calls         \* history: the contents when the call began

mapVars == <<snapshot, mutable_map_, operation_count_, mutex_>>
callVars == <<call, ret, before, calls>>
vars == <<hpVars, mapVars, callVars>>

Init == \E a \in Node :
    /\ HazardInit(a)
    /\ snapshot = [n \in Node |-> [read_only |-> EmptyMap, dirty |-> FALSE]]
    /\ mutable_map_ = None /\ operation_count_ = 0 /\ mutex_ = None
    /\ call = [t \in Thread |-> None] /\ ret = [t \in Thread |-> None]
    /\ before = [t \in Thread |-> EmptyMap] /\ calls = 0

Contents == IF mutable_map_ = None THEN snapshot[ptr].read_only
            ELSE Join(snapshot[ptr].read_only, mutable_map_)

Call(t) == \E name \in {"Lookup", "Insert"}, k \in Key :
    /\ ptr # Null /\ At(t, "idle", "acquire")
    /\ calls < MaxCalls /\ calls' = calls + 1
    /\ call' = [call EXCEPT ![t] = <<name, k>>]
    /\ before' = [before EXCEPT ![t] = Contents]
    /\ UNCHANGED <<ptr, live, hazard_ptr, val, retireVars, mapVars, ret>>

Return(t, r) == ret' = [ret EXCEPT ![t] = r]

\* The snapshot is read and released: a key it has settles both calls, and a clean
\* snapshot without the key settles Lookup.
ReadSnapshot(t) ==
    LET s == snapshot[val[t]]
        found == s.read_only[call[t][2]]
        settled == found # None \/ (call[t][1] = "Lookup" /\ ~s.dirty)
    IN /\ At(t, "acquired", IF settled THEN "idle" ELSE "lock")
       /\ Return(t, IF ~settled THEN ret[t]
                    ELSE IF call[t][1] = "Lookup" THEN found ELSE "exists")
       /\ hazard_ptr' = [hazard_ptr EXCEPT ![t] = Null]
       /\ UNCHANGED <<ptr, live, val, retireVars, mapVars, call, before, calls>>

\* A new snapshot in place of the current one, which is then retired.
Replace(t, read_only, dirty) ==
    /\ \E n \in Node \ live :
          /\ live' = live \cup {n} /\ ptr' = n
          /\ snapshot' = [snapshot EXCEPT ![n] = [read_only |-> read_only, dirty |-> dirty]]
    /\ Local(t, ptr) /\ mutex_' = t

KeepSnapshot(t) ==
    /\ At(t, "lock", "idle") /\ UNCHANGED <<ptr, live, snapshot, val, mutex_>>

LookupLocked(t) ==
    LET old == snapshot[ptr].read_only
        key == call[t][2]
        promote == operation_count_ + 1 = kMaxOperationsCnt
    IN /\ mutex_ = None /\ pc[t] = "lock" /\ call[t][1] = "Lookup"
       /\ \/ /\ old[key] # None \/ mutable_map_ = None
             /\ KeepSnapshot(t) /\ Return(t, old[key])
             /\ UNCHANGED <<mutable_map_, operation_count_>>
          \/ /\ old[key] = None /\ mutable_map_ # None
             /\ Return(t, mutable_map_[key])
             /\ operation_count_' = operation_count_ + 1
             /\ \/ ~promote /\ KeepSnapshot(t) /\ UNCHANGED mutable_map_
                \/ /\ promote /\ At(t, "lock", "retire")
                   /\ mutable_map_' = Join(mutable_map_, old)
                   /\ Replace(t, mutable_map_', FALSE)
       /\ UNCHANGED <<hazard_ptr, retireVars, call, before, calls>>

InsertLocked(t) ==
    LET old == snapshot[ptr].read_only
        key == call[t][2]
        absent == old[key] = None /\ (mutable_map_ # None => mutable_map_[key] = None)
    IN /\ mutex_ = None /\ pc[t] = "lock" /\ call[t][1] = "Insert"
       /\ \/ /\ ~absent /\ KeepSnapshot(t) /\ Return(t, "exists")
             /\ UNCHANGED <<mutable_map_, operation_count_>>
          \/ /\ absent /\ Return(t, "inserted")
             /\ mutable_map_' = [(IF mutable_map_ = None THEN EmptyMap ELSE mutable_map_)
                                    EXCEPT ![key] = t]
             /\ \/ /\ mutable_map_ = None /\ At(t, "lock", "retire")
                   /\ Replace(t, old, TRUE) /\ UNCHANGED operation_count_
                \/ mutable_map_ # None /\ KeepSnapshot(t) /\ operation_count_' = 0
       /\ UNCHANGED <<hazard_ptr, retireVars, call, before, calls>>

\* Retire has returned: a promotion drops the mutable map, and mutex_ is released.
Unlock(t) ==
    /\ At(t, "retired", "idle") /\ mutex_' = None
    /\ IF call[t][1] = "Lookup" THEN mutable_map_' = None /\ operation_count_' = 0
                                ELSE UNCHANGED <<mutable_map_, operation_count_>>
    /\ UNCHANGED <<ptr, live, hazard_ptr, val, retireVars, snapshot, callVars>>

\* ~SyncMap, once no thread uses the map any more.
Destroy ==
    /\ ptr # Null /\ \A t \in Thread : pc[t] \in {"done", "gave up"}
    /\ ptr' = Null /\ live' = live \ {ptr}
    /\ UNCHANGED <<hazard_ptr, retireVars, pc, val, mapVars, callVars>>

Next == \/ \E t \in Thread :
              \/ Call(t) \/ ReadSnapshot(t) \/ LookupLocked(t) \/ InsertLocked(t) \/ Unlock(t)
              \/ HazardStep(t) /\ UNCHANGED <<mapVars, callVars>>
        \/ Destroy

Spec == Init /\ [][Next]_vars
-----------------------------------------------------------------------------
\* A snapshot is read only while it is allocated.
SnapshotIsLive == \A t \in Thread : pc[t] = "acquired" => val[t] \in live

\* The calls are linearizable: no key is lost or changed by a promotion, a lookup
\* that misses a key began before the key was there, one that hits returns what
\* was inserted, and of the inserts of a key exactly one succeeds.
MapIsLinearizable ==
    [][ ptr' # Null =>
          /\ \A k \in Key : Contents[k] # None => Contents'[k] = Contents[k]
          /\ \A t \in Thread : pc'[t] \in {"idle", "retire"} /\ pc[t] \in {"acquired", "lock"} =>
                LET now == Contents'[call[t][2]]  then == before[t][call[t][2]]  r == ret'[t] IN
                IF call[t][1] = "Lookup" THEN r \in {now, None} /\ (r = None => then = None)
                ELSE IF r = "inserted" THEN then = None /\ now = t
                ELSE now # None ]_vars
=============================================================================
