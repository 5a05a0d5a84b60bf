----------------------------- MODULE MCProduct -----------------------------
(* Small instances of Product for TLC.                                      *)
EXTENDS Product

SmallDimensions == 2..6

\* A square B, a wide one and a tall one.
SmallRight == { << <<1, 2>>, <<3, -1>> >>, << <<0, 2, 1>>, <<-1, 1, 0>> >>,
                << <<2, 5>>, <<1, 0>>, <<-3, 1>> >> }

\* Two rows no combination of which is confused with another.
SmallRows(M) == { [p \in DOMAIN M |-> p], [p \in DOMAIN M |-> IF p = 1 THEN 0 ELSE 7] }
=============================================================================
