----------------------------- MODULE Structures -----------------------------
(***************************************************************************)
(* The lock-free stack, the sync-map, the mpsc-queue, the concurrent hash  *)
(* map, the rw-counter and the data-parallel algorithms side by side.      *)
(* They share no state.                                                    *)
(***************************************************************************)
EXTENDS Stack, Integers

CONSTANTS Key, None, kMaxOperationsCnt, MapCalls, Snapshots,    \* of SyncMap
          Producer, Consumer, MaxPush,                          \* of MPSCQueue
          Keys, NoThread, kLoadFactor, expected_size, expected_threads_count, HashCalls,
          Writer, MaxIncrements, MaxReads, Undefined,           \* of RWCounter
          kThreadCnt, kMinShare, Numbers, Summand, MaxSize, Lengths, MaxRuns      \* of Parallel

VARIABLES mapPtr, mapLive, mapHazard, mapThreads, mapFree, mapFreeSize, mapScanLock, mapScan,
          mapPc, mapVal, snapshot, mutable_map_, operation_count_, mapMutex, call, ret, before,
          mapCalls,
          head_, queueNext, queueLive, queuePc, old_head, other, pushed,
          table_, mutexes_, size_, is_rehashing_, hashPc, key, cursor, hashCalls,
          counters_, counterMutex, threads_cnt_, counterPc, mine, reading, low, quiet, reads,
          job, input, flag, sums, from, end, tpc, found, kept, res, result, main, runs

SM == INSTANCE SyncMap WITH Node <- Snapshots, MaxCalls <- MapCalls,
         ptr <- mapPtr, live <- mapLive, hazard_ptr <- mapHazard, threads <- mapThreads,
         free_list <- mapFree, approximate_free_list_size <- mapFreeSize,
         scan_lock <- mapScanLock, scan <- mapScan, pc <- mapPc, val <- mapVal,
         mutex_ <- mapMutex, calls <- mapCalls
MQ == INSTANCE MPSCQueue WITH next <- queueNext, live <- queueLive, pc <- queuePc
HM == INSTANCE HashMap WITH pc <- hashPc, calls <- hashCalls, MaxCalls <- HashCalls
CN == INSTANCE RWCounter WITH mutex_ <- counterMutex, pc <- counterPc
PA == INSTANCE Parallel WITH Value <- Summand, next <- from, calls <- runs, MaxCalls <- MaxRuns

ASSUME StructureConstants ==
    /\ SM!MapConstants /\ MQ!QueueConstants /\ HM!HashConstants /\ CN!CounterConstants
    /\ PA!ParallelConstants
-----------------------------------------------------------------------------
\* Every operation of the lock-free containers takes effect at one moment of its
\* call: the lists of Stack and MPSCQueue change as a stack does, through no node
\* that was deleted and pushed again; a Lookup or Insert of SyncMap, which reads
\* only snapshots that are allocated, answers as the map was at some moment of the
\* call, though the snapshot may be replaced before the lock is taken.
ActsAtomically == /\ StackIsLinearizable
                  /\ MQ!QueueIsLinearizable
                  /\ SM!MapIsLinearizable /\ []SM!SnapshotIsLive

\* Whatever inserts, erases, clears and rehashings overlap, Find reaches exactly
\* the elements of the hash map and size_ counts them.
EveryKeyIsFound == HM!EveryKeyIsFound

\* Threads that insert, rehash and clear never all wait for each other's mutexes.
NobodyStuck == HM!NobodyStuck

\* GetValue stays within the vector, and unless a registration overlaps it its sum
\* counts every increment made before it began and none made after it ended.
SumIsCurrent == CN!SumIsCurrent

\* However the threads of IsPrime, Reduce and FindSuitableCombination are interleaved
\* and whatever the call before left in the flag, the call returns what one loop over
\* the whole interval would: primality, every element combined exactly once, a choice
\* that fits if there is one.
ThreadsAgree == PA!ThreadsAgree
=============================================================================
