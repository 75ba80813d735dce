----------------------------- MODULE MCStorage -----------------------------
(***************************************************************************)
(* The way of a byte to the disk, one layer at a time: the C library's     *)
(* streams, the file system, the block cache and the block driver.  A      *)
(* behaviour is of one layer; the others keep their initial state.         *)
(***************************************************************************)
EXTENDS DiskIO, BlockCache, FileSystem, Streams

CONSTANT Parts
VARIABLE part
all_vars == <<part, disk_vars, cache_vars, fs_vars, stream_vars>>

TwoPids == 1 .. 2
TwoBlocks == {0, 2}         \* they share a slot of the cache
MCVersions == {1, 2}
Root(name) == [absolute |-> TRUE, comps |-> <<name>>]
MCPaths == {Root("a"), Root("d"), [absolute |-> FALSE, comps |-> <<"d", "a">>],
            [absolute |-> FALSE, comps |-> <<"..", ".", "a">>]}
MCStaged == <<[path |-> <<"a">>, data |-> <<7, 7, 7>>]>>
MCDatas == {<<1>>, <<1, 2, 3>>}
MCOffsets == {1, 6}

Init ==
    /\ part \in Parts
    /\ DiskInit /\ CacheInit /\ FsInit /\ StreamInit
    /\ part # "disk" => disk = [s \in Sectors |-> CHOOSE v \in Values : TRUE]
    /\ store = [b \in BlockNos |-> CHOOSE v \in Contents(b) : TRUE]

\* The bounds of the models end the operations on files and streams.
Rests == part \in {"fs", "streams"} /\ UNCHANGED all_vars

Next ==
    \/ /\ UNCHANGED part
       /\ \/ part = "disk" /\ DiskNext /\ UNCHANGED <<cache_vars, fs_vars, stream_vars>>
          \/ part = "cache" /\ CacheNext /\ UNCHANGED <<disk_vars, fs_vars, stream_vars>>
          \/ part = "fs" /\ FsNext /\ UNCHANGED <<disk_vars, cache_vars, stream_vars>>
          \/ part = "streams" /\ StreamNext /\ UNCHANGED <<disk_vars, cache_vars, fs_vars>>
    \/ Rests

Spec == Init /\ [][Next]_all_vars

(* The file system's structures are sound at every block write (FsSound).  *)
StructuresSound == part = "fs" => FsSound

(* Files keep their data and their names at every block write (FilesKept). *)
FilesSafe == part = "fs" => FilesKept
=============================================================================
