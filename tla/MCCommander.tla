---------------------------- MODULE MCCommander ----------------------------
(***************************************************************************)
(* Two types.  A synchronous leaf and an asynchronous command of two       *)
(* leaves share one type; ACID commands of one and of two leaves have the  *)
(* default type.  The instance for End has the leaf only.                  *)
(***************************************************************************)
EXTENDS Commander

CONSTANTS Leaf, Pair, AcidOne, AcidTwo, Text

MCCommands    == {Leaf, Pair, AcidOne, AcidTwo}
MCAcids       == {AcidOne, AcidTwo}
MCSynchronous == {Leaf}
MCTypes       == {Text, DefaultType}
MCTypeOf      == [c \in MCCommands |-> IF c \in MCAcids THEN DefaultType ELSE Text]
MCSize        == [c \in MCCommands |-> CASE c = Leaf -> 0 [] c = AcidOne -> 1 [] OTHER -> 2]

OneTypeOf == [c \in {Leaf} |-> Text]
OneSize   == [c \in {Leaf} |-> 0]
=============================================================================
