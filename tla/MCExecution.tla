---------------------------- MODULE MCExecution ----------------------------
(***************************************************************************)
(* A plain command of a leaf, an ACID command and a plain command of one   *)
(* leaf.  The ACID one has a sub-command of two leaves and then a leaf.    *)
(***************************************************************************)
EXTENDS Execution

MCNodes == {<<>>, <<1>>, <<2>>, <<2, 1>>, <<2, 1, 1>>, <<2, 1, 2>>, <<2, 2>>,
            <<3>>, <<3, 1>>}

MCSubs == [n \in MCNodes |-> Cardinality({m \in MCNodes : m # <<>> /\ Front(m) = n})]

MCAcid == {<<2>>}
=============================================================================
