---------------------------- MODULE MCMasterData ----------------------------
EXTENDS MasterData

(* The tables a behaviour changes: one, and one that it refers to or that  *)
(* refers to it.                                                           *)
Pairs == {{Area, Zone}, {Zone, Bin}, {Customer, Warehouse}, {Company}, {Product, Supplier},
          {Product, Uom}, {Conversion}, {User}, {User, Role}, {Role, Menu}, {PlatformUser},
          {Contract, Rate}, {Transaction}}
Conversions == {{Conversion}}

Symmetry == Permutations(Req)
=============================================================================
