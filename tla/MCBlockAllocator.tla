-------------------------- MODULE MCBlockAllocator --------------------------
(* An instance of the pool and its list for TLC; its constants are in the  *)
(* cfg.                                                                    *)
EXTENDS AllocatorLru
=============================================================================
