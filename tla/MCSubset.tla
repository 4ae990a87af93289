------------------------------- MODULE MCSubset -------------------------------
(***************************************************************************)
(* Subset of three tables under small schemas: two keys to one parent, a   *)
(* chain with a shortcut, a child between two parents of which the root    *)
(* references the other, and cycles, which only an ignored key breaks.     *)
(***************************************************************************)
EXTENDS Subset, TLC

CONSTANTS customers, orders, products

Key(name, table, referencedTable) ==
  [name |-> name, table |-> table, referencedTable |-> referencedTable, referencedColumn |-> PrimaryKey]

Customer == Key("customer", orders, customers)
Billed == Key("billed", orders, customers)
Product == Key("product", orders, products)
Owner == Key("owner", products, customers)
Favourite == Key("favourite", customers, products)
Latest == Key("latest", customers, orders)
Parent == Key("parent", orders, orders)
Sku == [Key("sku", orders, customers) EXCEPT !.referencedColumn = "sku"]

Asked(foreignKeys, ignore, ways) ==
  {[foreignKeys |-> foreignKeys, ignore |-> ignore, declared |-> IF w = "bare" THEN {} ELSE foreignKeys,
    followChildren |-> w # "parents", materialize |-> w # "inline", commitEach |-> w \in {"each", "bare"}] : w \in ways}

MCRequests ==
  UNION {Asked({Customer, Billed}, {}, {"parents", "each", "inline"}),
         Asked({Customer, Product, Owner}, {}, {"parents", "each", "inline"}),
         Asked({Customer, Product, Favourite}, {}, {"parents", "each", "inline"}),
         Asked({Customer, Latest}, {}, {"each"}), Asked({Customer, Latest}, {Latest}, {"parents", "each", "inline", "bare"}),
         Asked({Customer, Parent}, {Parent}, {"parents", "each", "inline"}),
         Asked({Sku}, {}, {"each", "bare"})}

(* The rows of a table are alike. *)
Symmetry == Permutations(Ids)
===============================================================================
