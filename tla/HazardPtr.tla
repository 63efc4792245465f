----------------------------- MODULE HazardPtr ------------------------------
(***************************************************************************)
(* hazard-ptr/hazard_ptr.{h,cpp}: one hazard pointer per registered        *)
(* thread, a global list of retired objects, and a scan that deletes those *)
(* no hazard pointer names.  The module holds the steps of the library;    *)
(* Stack and SyncMap extend it with the code that calls them.  A caller    *)
(* enters Acquire at "acquire" and resumes at "acquired" with the pointer  *)
(* in val; it enters Retire at "retire" with the object in val and resumes *)
(* at "retired".  Every access to an atomic or to a lock is a step; the    *)
(* retired list is a set, because its order decides nothing.               *)
(***************************************************************************)
EXTENDS Naturals, FiniteSets

CONSTANTS Thread,
          Node,                 \* addresses: a deleted one may be allocated again
          Null,
          kFreeListMaxSize      \* 15 in the code

HazardConstants == Null \notin Node \cup Thread /\ kFreeListMaxSize \in Nat

VARIABLES ptr,                  \* the atomic pointer given to Acquire
          live,                 \* the addresses allocated and not deleted
          hazard_ptr, threads,
          free_list, approximate_free_list_size,
          scan_lock,            \* the thread that holds it, or Null
          scan,                 \* of its holder: retired, hazard, threads still to read
          pc, val               \* where a thread is, and its local pointer

hpVars == <<ptr, live, hazard_ptr, threads, free_list, approximate_free_list_size,
            scan_lock, scan, pc, val>>
retireVars == <<free_list, approximate_free_list_size, scan_lock, scan, threads>>

HazardInit(initial) ==
    /\ ptr = initial /\ live = {initial} \ {Null}
    /\ hazard_ptr = [t \in Thread |-> Null] /\ threads = {}
    /\ free_list = {} /\ approximate_free_list_size = 0
    /\ scan_lock = Null /\ scan = [retired |-> {}, hazard |-> {}, left |-> {}]
    /\ pc = [t \in Thread |-> "start"] /\ val = [t \in Thread |-> Null]

At(t, from, to) == pc[t] = from /\ pc' = [pc EXCEPT ![t] = to]
Local(t, v) == val' = [val EXCEPT ![t] = v]

\* threads_lock is held only by RegisterThread, UnregisterThread and a scan that
\* is reading the hazard pointers.
ThreadsFree == \A u \in Thread : pc[u] # "collect"

RegisterThread(t) ==
    /\ At(t, "start", "idle") /\ ThreadsFree
    /\ threads' = threads \cup {t}
    /\ UNCHANGED <<ptr, live, hazard_ptr, free_list, approximate_free_list_size, scan_lock, scan, val>>

UnregisterThread(t) ==
    /\ ThreadsFree
    /\ threads' = threads \ {t}
    /\ At(t, "idle", IF threads' = {} THEN "scan" ELSE "done")
    /\ UNCHANGED <<ptr, live, hazard_ptr, free_list, approximate_free_list_size, scan_lock, scan, val>>

AcquireLoad(t) == At(t, "acquire", "publish") /\ Local(t, ptr) /\ UNCHANGED <<ptr, live, hazard_ptr, retireVars>>

AcquirePublish(t) ==
    /\ At(t, "publish", "reload")
    /\ hazard_ptr' = [hazard_ptr EXCEPT ![t] = val[t]]
    /\ UNCHANGED <<ptr, live, val, retireVars>>

AcquireWithoutReload(t) ==      \* mutant: the pointer is used as soon as it is published
    /\ At(t, "reload", "acquired")
    /\ UNCHANGED <<ptr, live, val, hazard_ptr, retireVars>>

AcquireReload(t) ==
    /\ At(t, "reload", IF ptr = val[t] THEN "acquired" ELSE "publish")
    /\ Local(t, ptr) /\ UNCHANGED <<ptr, live, hazard_ptr, retireVars>>

RetirePush(t) ==
    /\ At(t, "retire", "count")
    /\ free_list' = free_list \cup {val[t]}
    /\ UNCHANGED <<ptr, live, hazard_ptr, threads, approximate_free_list_size, scan_lock, scan, val>>

RetireCount(t) ==
    /\ At(t, "count", "check")
    /\ approximate_free_list_size' = approximate_free_list_size + 1
    /\ UNCHANGED <<ptr, live, hazard_ptr, threads, free_list, scan_lock, scan, val>>

RetireCheck(t) ==
    /\ At(t, "check", IF approximate_free_list_size > kFreeListMaxSize THEN "scan" ELSE "retired")
    /\ UNCHANGED <<ptr, live, hazard_ptr, val, retireVars>>

\* ScanFreeList returns to Retire, or to an UnregisterThread that is over; one
\* that found scan_lock taken is told apart as "gave up".
ScanReturn(t) == IF t \in threads THEN "retired" ELSE "done"

ScanReset(t) ==
    /\ At(t, "scan", "try") /\ approximate_free_list_size' = 0
    /\ UNCHANGED <<ptr, live, hazard_ptr, threads, free_list, scan_lock, scan, val>>

ScanTryLock(t) ==
    /\ At(t, "try", IF scan_lock = Null THEN "exchange"
                    ELSE IF t \in threads THEN "retired" ELSE "gave up")
    /\ scan_lock' = IF scan_lock = Null THEN t ELSE scan_lock
    /\ UNCHANGED <<ptr, live, hazard_ptr, threads, free_list, approximate_free_list_size, scan, val>>

ScanExchange(t) ==
    /\ At(t, "exchange", "lock threads")
    /\ scan' = [retired |-> free_list, hazard |-> {}, left |-> {}] /\ free_list' = {}
    /\ UNCHANGED <<ptr, live, hazard_ptr, threads, approximate_free_list_size, scan_lock, val>>

ScanLockThreads(t) ==
    /\ At(t, "lock threads", "collect") /\ scan' = [scan EXCEPT !.left = threads]
    /\ UNCHANGED <<ptr, live, hazard_ptr, threads, free_list, approximate_free_list_size, scan_lock, val>>

ScanCollect(t) ==
    /\ \/ /\ scan.left = {} /\ At(t, "collect", "delete") /\ UNCHANGED scan
       \/ \E u \in scan.left :
            /\ At(t, "collect", "collect")
            /\ scan' = [scan EXCEPT !.left = @ \ {u}, !.hazard = @ \cup ({hazard_ptr[u]} \ {Null})]
    /\ UNCHANGED <<ptr, live, hazard_ptr, threads, free_list, approximate_free_list_size, scan_lock, val>>

ScanForgets(t) ==                \* mutant: what is still in use is not put back
    /\ \/ /\ scan.retired = {} /\ At(t, "delete", ScanReturn(t)) /\ scan_lock' = Null
          /\ UNCHANGED <<live, scan>>
       \/ \E n \in scan.retired :
            /\ At(t, "delete", "delete") /\ UNCHANGED scan_lock
            /\ scan' = [scan EXCEPT !.retired = @ \ {n}]
            /\ live' = IF n \in scan.hazard THEN live ELSE live \ {n}
    /\ UNCHANGED <<ptr, hazard_ptr, threads, approximate_free_list_size, val, free_list>>

\* One retired object: deleted, or put back while a hazard pointer names it.
ScanDelete(t) ==
    /\ \/ /\ scan.retired = {} /\ At(t, "delete", ScanReturn(t)) /\ scan_lock' = Null
          /\ UNCHANGED <<live, free_list, scan>>
       \/ \E n \in scan.retired :
            /\ At(t, "delete", "delete") /\ UNCHANGED scan_lock
            /\ scan' = [scan EXCEPT !.retired = @ \ {n}]
            /\ live' = IF n \in scan.hazard THEN live ELSE live \ {n}
            /\ free_list' = IF n \in scan.hazard THEN free_list \cup {n} ELSE free_list
    /\ UNCHANGED <<ptr, hazard_ptr, threads, approximate_free_list_size, val>>

HazardStep(t) ==
    \/ AcquireLoad(t) \/ AcquirePublish(t) \/ AcquireReload(t)
    \/ RetirePush(t) \/ RetireCount(t) \/ RetireCheck(t)
    \/ ScanReset(t) \/ ScanTryLock(t) \/ ScanExchange(t) \/ ScanLockThreads(t)
    \/ ScanCollect(t) \/ ScanDelete(t)
    \/ RegisterThread(t) \/ UnregisterThread(t)
=============================================================================
