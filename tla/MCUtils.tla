------------------------------- MODULE MCUtils -------------------------------
(***************************************************************************)
(* Words of 64 bits: those with at most two bits set, and those whose bits *)
(* from b to c are set.  They are the powers of 2, the sums and, but for   *)
(* one, the differences of two of them, so each value next to a power.     *)
(***************************************************************************)
EXTENDS Utils

MCSizes == {{}} \cup {{b, c} : b, c \in Bits} \cup {b..c : b, c \in Bits}
\* The smallest page size, the largest that suits the table of zones, the
\* next one, and a page as large as the shifts reach.
MCPageSizes == {{7}, {8}, {12}, {13}, {32}}
=============================================================================
