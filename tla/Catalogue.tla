----------------------------- MODULE Catalogue -----------------------------
(***************************************************************************)
(* Units, products, their conversions and their suppliers:                 *)
(* src/src/modules/master-data/master-data.service.ts, second half.        *)
(***************************************************************************)
EXTENDS Records

CreateUom(r, u) == Begin(r, Uom, AdminOnly \o Insert(u, [active |-> TRUE]))
UpdateUom(r, u, on) == Begin(r, Uom, AdminOnly \o Exists(u) \o Change(u, on))
DeleteUom(r, u, hard) == Begin(r, Uom, AdminOnly \o Exists(u) \o Delete(u, hard))

-----------------------------------------------------------------------------
(* assertSuppliersBelongToCustomer, for a customer or a product of it.     *)
(* Mutated form: any active supplier will do.                              *)
SuppliersOfAny(S, x) == AllActive(S)
SuppliersOf(S, x) == AllOf(S, x)

CreateProduct(r, p, c, S, base) ==
    Begin(r, Product,
        AllowedCustomer(c) \o Active(c) \o When(S # {}, SuppliersOf(S, c))
        \o When(base # None, Active(base))
        \o Transact(Insert(p, [active |-> TRUE, customer |-> c, base |-> base])
                    \o When(S # {}, CreateMany({p} \X S))))

(* Suppliers not given leave the mappings alone; given, they replace them. *)
UpdateProduct(r, p, given, S, base, on) ==
    Begin(r, Product,
        AllowedCustomerOf(p) \o Exists(p) \o When(given /\ S # {}, SuppliersOf(S, p))
        \o When(base # None, Active(base))
        \o Transact(Change(p, With(on, Given("base", base)))
                    \o When(given, SwitchOff(p, Supplier) \o Upsert({p} \X S))))

DeleteProduct(r, p, hard) ==
    Begin(r, Product, AllowedCustomerOf(p) \o Exists(p) \o Delete(p, hard))

CreateSupplier(r, s, c) ==
    Begin(r, Supplier, AllowedCustomer(c) \o Active(c)
                       \o Insert(s, [active |-> TRUE, customer |-> c]))

UpdateSupplier(r, s, on) ==
    Begin(r, Supplier, AllowedCustomerOf(s) \o Exists(s) \o Transact(Change(s, on)))

DeleteSupplier(r, s, hard) ==
    Begin(r, Supplier, AllowedCustomerOf(s) \o Exists(s) \o Delete(s, hard)
                       \o When(~hard, SwitchOff(s, Product)))

-----------------------------------------------------------------------------
CreateProductUomConversion(r, v, p, from, to, on) ==
    /\ from # to
    /\ Begin(r, Conversion,
          AllowedCustomerOf(p) \o Active(p) \o Active(from) \o Active(to)
          \o Insert(v, [active |-> on, product |-> p, from |-> from, to |-> to]))

UpdateProductUomConversion(r, v, from, to, on) ==
    /\ from = None \/ from # to
    /\ Begin(r, Conversion,
          Exists(v) \o AllowedCustomerOf(Row(v).product)
          \o When(from # None, Active(from)) \o When(to # None, Active(to))
          \o Change(v, With(With(on, Given("to", to)), Given("from", from))))

DeleteProductUomConversion(r, v, hard) ==
    Begin(r, Conversion, Exists(v) \o AllowedCustomerOf(Row(v).product) \o Delete(v, hard))

CatalogueRequest(r) ==
    \/ \E u \in Fresh(Uom) : CreateUom(r, u)
    \/ \E u \in Present(Uom) :
          \/ \E on \in Activity : UpdateUom(r, u, on)
          \/ \E hard \in BOOLEAN : DeleteUom(r, u, hard)
    \/ \E p \in Fresh(Product), c \in Present(Customer), S \in SUBSET Present(Supplier),
          base \in Present(Uom) \cup {None} : CreateProduct(r, p, c, S, base)
    \/ \E p \in Present(Product) :
          \/ \E S \in SUBSET Present(Supplier), given \in BOOLEAN,
                base \in Present(Uom) \cup {None}, on \in Activity :
                (given \/ S = {}) /\ UpdateProduct(r, p, given, S, base, on)
          \/ \E hard \in BOOLEAN : DeleteProduct(r, p, hard)
    \/ \E s \in Fresh(Supplier), c \in Present(Customer) : CreateSupplier(r, s, c)
    \/ \E s \in Present(Supplier) :
          \/ \E on \in Activity : UpdateSupplier(r, s, on)
          \/ \E hard \in BOOLEAN : DeleteSupplier(r, s, hard)
    \/ \E v \in Fresh(Conversion), p \in Present(Product), from, to \in Present(Uom),
          on \in BOOLEAN :
          CreateProductUomConversion(r, v, p, from, to, on)
    \/ \E v \in Present(Conversion) :
          \/ \E from, to \in Present(Uom) \cup {None}, on \in Activity :
                UpdateProductUomConversion(r, v, from, to, on)
          \/ \E hard \in BOOLEAN : DeleteProductUomConversion(r, v, hard)
-----------------------------------------------------------------------------
(* A product is only ever supplied by suppliers of its own customer, over  *)
(* any overlap of creates, updates and deletes.                            *)
SuppliersAreOwn ==
    \A p \in Product, s \in Supplier : <<p, s>> \in db.links =>
        Row(p).customer = Row(s).customer

(* A conversion converts between two units (createProductUomConversion:    *)
(* 'fromUomId and toUomId cannot be the same').                            *)
ConversionsConvert ==
    \A v \in Conversion : There(Row(v)) => Row(v).from # Row(v).to
=============================================================================
