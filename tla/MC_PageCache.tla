---------------------------- MODULE MC_PageCache ----------------------------
(* The page cache with a history of what was written to each page and of what a  *)
(* read returned.                                                                *)
EXTENDS PageCache

VARIABLES
    file,   \* what was last written to each page
    got     \* the last value read and the one that was due

TwoBuckets == [k \in Keys |-> (k[1] + k[2]) % 2]

Goes == halted' = "no"

FileInit == CacheInit /\ file = [k \in Keys |-> Zero] /\ got = [val |-> Zero, due |-> Zero]

FileNext ==
    \/ \E k \in Keys, v \in Data : WriteFile(k, v) /\ UNCHANGED got
            /\ file' = IF Goes THEN [file EXCEPT ![k] = v] ELSE file
    \/ \E k \in Keys, v \in Data \cup {Zero, Nothing} : ReadFile(k, v) /\ UNCHANGED file
            /\ got' = IF Goes THEN [val |-> v, due |-> file[k]] ELSE got
    \/ /\ \/ \E k \in Keys : SyncPage(k)
          \/ \E i \in Inos : Fsync(i) \/ \E n \in Indices : Truncate(i, n)
       /\ UNCHANGED <<file, got>>

FileSpec == FileInit /\ [][FileNext]_<<cacheVars, file, got>>

(* file.rs:20, page_cache.rs:129: a read returns the data of the file through
   the page cache, that is, what was last written to the page. *)
ReadsLastWrite == got.val = got.due
=============================================================================
