------------------------------- MODULE MCSpark -------------------------------
(* Instances of SparkFlow.                                                 *)
EXTENDS SparkFlow, TLC

CONSTANTS o1, o2

Output(i, who, n) == [id |-> i, owner |-> who, token |-> "tok", amount |-> n]

(* A mint of two outputs, two transfers that both spend the first, and a   *)
(* child of one of them.                                                   *)
MCHash == {"m", "t", "u"}
MCInputs == [m |-> <<>>, t |-> << <<"m", 0>> >>, u |-> << <<"m", 0>>, <<"m", 1>> >>]
MCOutputs == [m |-> <<Output("0", "ann", 1), Output("1", "ann", 1)>>,
              t |-> <<Output("2", "bob", 1)>>,
              u |-> <<Output("3", "bob", 2)>>]
MCOperators == {o1, o2}
MCOperatorsOf == [h \in MCHash |-> MCOperators]

(* One exit takes the second output of the mint and the one of t.          *)
MCExit == {"e"}
MCExitLeaves == [e \in MCExit |-> <<[tx |-> "m", id |-> "1"], [tx |-> "t", id |-> "2"]>>]

MCMaxSupply == [x \in {"tok"} |-> 2]
MCHashOrder == <<"m", "t", "u">>
MCPeer == <<"m", "u">>
MCFreeze == {[owner |-> "bob", token |-> "tok"]}

Operators == Permutations(MCOperators)

=============================================================================
