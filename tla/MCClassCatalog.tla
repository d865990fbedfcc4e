--------------------------- MODULE MCClassCatalog ---------------------------
(* A TLC instance of ClassCatalog: three classes, one with a schema. *)
EXTENDS ClassCatalog

MCNames == <<"Invoice", "Letter", "Order", "invoice">>
MCKey == [n \in Range(MCNames) \cup {Blank} |-> IF n = "invoice" THEN "Invoice" ELSE n]

Items == [name |-> "Order", type |-> "object_list", children |-> <<"Letter">>, examples |-> <<>>]

Total == [EmptySample("Order") EXCEPT !.anchor = "in", !.child = [c \in {"Letter"} |-> "clean"]]

MCInitial ==
  {[id |-> 1, name |-> "Invoice", schema |-> None],
   [id |-> 2, name |-> "Letter", schema |->
      [id |-> 4, name |-> "Letter", fields |-> <<Items>>, scene |-> <<Total>>]],
   [id |-> 3, name |-> "Order", schema |-> None]}
=============================================================================
