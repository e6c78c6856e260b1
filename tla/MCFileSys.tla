----------------------------- MODULE MCFileSys -----------------------------
(* Two files that share a sector, on a disk where every byte differs.      *)
EXTENDS FileSys, TLC

MCsize        == (0 :> 3) @@ (1 :> 3)
MCdisk_offset == (0 :> 2) @@ (1 :> 5)
MCdisk        == [o \in 0 .. 7 |-> o]
MCLoaderReads == {[from |-> 0, len |-> 2], [from |-> 1, len |-> 3]}
=============================================================================
