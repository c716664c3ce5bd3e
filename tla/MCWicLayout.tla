---------------------------- MODULE MCWicLayout ----------------------------
(* Instances of WicLayout for TLC: every .wks file of up to MaxParts        *)
(* partitions from a small set of "part" lines.                             *)
EXTENDS WicLayout

CONSTANT MaxParts

P(size) == [no_table |-> FALSE, type |-> "primary", align |-> 0,
            offset |-> None, size |-> size, image |-> size, mbr |-> FALSE,
            custom |-> FALSE, bootvfat |-> FALSE]

\* Sizes in kB around a sector of 4096 bytes: one sector and three.
Plain == P(4)
Boot == [P(12) EXCEPT !.align = 16, !.mbr = TRUE, !.bootvfat = TRUE]
Aligned16 == [P(4) EXCEPT !.align = 16]
Hidden == [P(4) EXCEPT !.no_table = TRUE]
Logical == [P(4) EXCEPT !.type = "logical"]
Fixed == [P(4) EXCEPT !.offset = 45 * 4096, !.image = 0]
\* An offset that is no whole sector, an alignment below the sector size, a
\* name and a size that is no whole sector.
Odd == {[P(4) EXCEPT !.offset = 45 * 4096 + 512], [P(4) EXCEPT !.align = 2],
        [P(4) EXCEPT !.custom = TRUE], P(5)}

AllWks ==
  LET Files(n, S) == UNION {[1..k -> S] : k \in 1..n}
      NoMbr == {Plain, Aligned16, Hidden, Logical, Fixed}
  IN Files(MaxParts, NoMbr) \cup Files(3, NoMbr \cup {Boot} \cup Odd)
       \cup [1..6 -> {Plain, Aligned16}] \cup [1..5 -> {Boot, Plain}]

\* Six partitions, one of them with an --offset or out of the table.
HoleWks == [1..6 -> {Plain, [Fixed EXCEPT !.offset = 80 * 4096], Hidden}]
\* An explicit "--type logical".
LogicalWks == [1..3 -> {Plain, Hidden, Logical}]
============================================================================
