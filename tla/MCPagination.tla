---------------------------- MODULE MCPagination ----------------------------
(* Four conversations, two of them private, on two instants: ties, pages    *)
(* that end inside a tie, and conversations committed behind the cursor.    *)
EXTENDS Pagination

FourIds == 1..4
TwoPrivate == {2, 3}
============================================================================
