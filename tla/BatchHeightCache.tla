-------------------------- MODULE BatchHeightCache --------------------------
(***************************************************************************)
(* CacheService.seqCacheByHeight beside the sequencer's enclave.           *)
(* StoreBatch overwrites the entry of the batch's height; RPC calls, which *)
(* do not take mainMutex, read it through FetchBatchByHeight and fill it   *)
(* on a miss; the cache may drop an entry at any time.                     *)
(***************************************************************************)
EXTENDS SequencerEnclave

VARIABLES
  seqCacheByHeight,  \* height -> sequence number
  reading            \* numbers an RPC call read from the database and is about to cache

cacheVars == <<seqCacheByHeight, reading>>

CacheInit ==
  /\ Init
  /\ seqCacheByHeight = <<>>
  /\ reading = {}

\* mutant: the entry is keyed by height + 1 when written only
CacheMutant(seq, height) ==
  [h \in DOMAIN seqCacheByHeight \cup {height + 1} |-> IF h = height + 1 THEN seq ELSE seqCacheByHeight[h]]

\* cacheValue
Cache(seq, height) ==
  [h \in DOMAIN seqCacheByHeight \cup {height} |-> IF h = height THEN seq ELSE seqCacheByHeight[h]]

\* CacheBatch, the end of StoreBatch: a step that inserts a batch caches it
CacheBatch ==
  seqCacheByHeight' =
    IF Len(batches') > Len(batches)
      THEN Cache(Len(batches'), batches'[Len(batches')].height)
      ELSE seqCacheByHeight

\* the handlers of the enclave
Handle ==
  /\ \/ \E b \in Block : IsTip(b) /\ KeepsGenesis(b) /\ SubmitL1Block(b)
     \/ CreateGenesisBatch
     \/ \E t \in Txs : CreateBatch(t)
     \/ Continue
  /\ CacheBatch
  /\ UNCHANGED reading

\* FetchBatchByHeight misses and reads the canonical batch of the height
\* (ReadCanonicalBatchHeaderByHeight)
ReadMiss ==
  /\ reading = {}
  /\ \E i \in canonicalBatches :
       Height(i) \notin DOMAIN seqCacheByHeight /\ reading' = {i}
  /\ UNCHANGED <<vars, seqCacheByHeight>>

\* getCachedValue caches what the call read
CacheIfMissing ==
  /\ \E i \in reading : seqCacheByHeight' = Cache(i, Height(i))
  /\ reading' = {}
  /\ UNCHANGED vars

\* ristretto drops an entry
Evict ==
  /\ \E h \in DOMAIN seqCacheByHeight :
       seqCacheByHeight' = [k \in DOMAIN seqCacheByHeight \ {h} |-> seqCacheByHeight[k]]
  /\ UNCHANGED <<vars, reading>>

CacheNext == Handle \/ ReadMiss \/ CacheIfMissing \/ Evict

CacheSpec == CacheInit /\ [][CacheNext]_<<vars, cacheVars>>

\* the cache as StoreBatch alone writes it, with no reader and no eviction
WriterSpec == CacheInit /\ [][Handle]_<<vars, cacheVars>>
-----------------------------------------------------------------------------
\* Whatever batch the cache has for a height, reading it by height gives the
\* transactions of the canonical batch: an entry a reorg left stale, or a slow
\* reader put back, still answers eth_getBlockByNumber with the right
\* transactions (FetchBatchByHeight, FetchBatchBySeqNo).
CachedTransactionsRight ==
  pc = "idle" =>
    \A h \in DOMAIN seqCacheByHeight :
      /\ seqCacheByHeight[h] \in SeqNos
      /\ \E j \in canonicalBatches :
           Height(j) = h /\ batches[j].txs = batches[seqCacheByHeight[h]].txs

\* "should always contain the canonical batch because the cache is overwritten
\* by each new batch after a reorg" (CacheBatch).
CacheIsCanonical ==
  pc = "idle" =>
    \A h \in DOMAIN seqCacheByHeight : seqCacheByHeight[h] \in canonicalBatches
=============================================================================
