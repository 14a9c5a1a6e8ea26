--------------------------- MODULE MCAddressSpace ---------------------------
(* Small address spaces: the null page, a page of code and a heap. *)
EXTENDS AddressSpace

MCRegion(lo, hi, prot) == [base |-> lo, end |-> hi, prot |-> prot,
                           heap |-> FALSE, fresh |-> FALSE]
MCImage == {MCRegion(0, 1, {}), MCRegion(1, 2, {"r", "x"}),
            [MCRegion(3, 4, {"r", "w"}) EXCEPT !.heap = TRUE]}
MCDataImage == {MCRegion(0, 2, {}), MCRegion(2, 3, {"r", "x"}),
                [MCRegion(3, 4, {"r", "w"}) EXCEPT !.heap = TRUE]}
MCReadWrite == {"r", "w"}
MCReadExec == {"r", "x"}
MCProts == {MCReadWrite, MCReadExec}
MCDataProts == {MCReadWrite, {}}
MCWriteExec == {"r", "w", "x"}
MCCodeProts == MCProts \cup {MCWriteExec}
MCNoJumps == {}
MCJumps == {[page |-> 2, first |-> TRUE]}
MCAllJumps == Starts
=============================================================================
