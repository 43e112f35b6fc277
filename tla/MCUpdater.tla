------------------------------ MODULE MCUpdater ------------------------------
(* A small instance of Updater for TLC.                                    *)
EXTENDS Updater

V(major, minor, pre) == [core |-> <<major, minor, 0>>, pre |-> pre, dev |-> FALSE]
Number(n) == [numeric |-> TRUE, value |-> n]
Word(rank) == [numeric |-> FALSE, value |-> rank]

(* 0.1.0-dev, 0.2.0-alpha, 0.2.0-alpha.2, 0.2.0-alpha.10,                  *)
(* 0.2.0-alpha.beta, 0.2.0                                                 *)
SixVersions ==
  {[V(0, 1, <<Word(3)>>) EXCEPT !.dev = TRUE],
   V(0, 2, <<Word(1)>>), V(0, 2, <<Word(1), Number(2)>>),
   V(0, 2, <<Word(1), Number(10)>>), V(0, 2, <<Word(1), Word(2)>>), V(0, 2, << >>)}
=============================================================================
