---------------------------- MODULE MCConsumers ----------------------------
(***************************************************************************)
(* Three goroutines on one factory: main, a consumer that works on the     *)
(* list it got and shuts the factory down in the end, and one that shuts   *)
(* it down at any time and calls on.                                       *)
(***************************************************************************)
EXTENDS Consumers

Attr(name, value) == [name |-> name, value |-> value]

NoObject == [kind |-> "none", attributes |-> <<>>]

MCStates ==
  {NoObject,
   [kind |-> "selected", attributes |-> <<Attr("a", 1), Attr("b", 1), Attr("a", 2)>>],
   [kind |-> "unselected", attributes |-> <<Attr("c", 3)>>]}

MCSelected == {state \in MCStates : state.kind = "selected"}

MCMaxChanges == [nrt |-> 1, other |-> 0]

MCProgram ==
  [main |-> Main("nrt", "stopCh"),
   consumer |->
     <<[op |-> "InformerFor", type |-> "nrt"],
       [op |-> "Start", channel |-> "ctx"],
       [op |-> "WaitForCacheSync", channel |-> "ctx"],
       [op |-> "List"],
       [op |-> "Insert", attr |-> Attr("a", 5)],
       [op |-> "Merge",
        updated |-> <<Attr("b", 6), Attr("c", 6), Attr("c", 7), Attr("b", 8)>>],
       [op |-> "UpdateAttributes", updated |-> <<Attr("e", 1), Attr("c", 1), Attr("e", 2)>>],
       [op |-> "Insert", attr |-> Attr("", 1)],
       [op |-> "DeleteAll", name |-> "c"],
       [op |-> "Shutdown"]>>,
   stopper |->
     <<[op |-> "Shutdown"],
       [op |-> "InformerFor", type |-> "other"],
       [op |-> "Start", channel |-> "ctx"]>>]

MCCallers == DOMAIN MCProgram

=============================================================================
