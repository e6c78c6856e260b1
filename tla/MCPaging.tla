------------------------------ MODULE MCPaging ------------------------------
(* A program of two segments that share a page, with a tail of zeros.      *)
EXTENDS Paging

MCSegments == << [vaddr |-> 4, memsz |-> 3, file |-> <<1, 2>>],
                 [vaddr |-> 7, memsz |-> 2, file |-> <<2>>] >>
\* One segment only, so that its pages stay clear of those the kernel used.
MCTlbSegments == << [vaddr |-> 4, memsz |-> 3, file |-> <<1, 2>>] >>
=============================================================================
