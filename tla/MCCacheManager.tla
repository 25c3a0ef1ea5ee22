--------------------------- MODULE MCCacheManager ---------------------------
(* Small instances of CacheManager: the main thread and a module's.        *)
EXTENDS CacheManager

CONSTANTS k1, v1, v2, Module
=============================================================================
