------------------------------- MODULE MCPools -------------------------------
(* The two pools of the cache: the slots of the WARM pool, and the blocks  *)
(* of the HOT pool with prefix caching.  A behaviour is of one of them.    *)
EXTENDS MCWarmSlotAllocator, MCPrefixCache

CacheUnused ==
  /\ req = [r \in Req |-> Absent] /\ pool = NewPool
  /\ content = [b \in Block |-> <<>>]
  /\ running = <<>> /\ todo = <<>> /\ plans = [r \in Req |-> NoPlan]
  /\ phase = "unused" /\ demotions = 0 /\ raised = NoError

PoolsInit == Init /\ (CacheInit \/ CacheUnused)
PoolsNext ==
  \/ phase = "unused" /\ Next /\ UNCHANGED cacheVars
  \/ CacheNext /\ UNCHANGED vars
PoolsSpec == PoolsInit /\ [][PoolsNext]_<<vars, cacheVars>>
=============================================================================
