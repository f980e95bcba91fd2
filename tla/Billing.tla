------------------------------ MODULE Billing ------------------------------
(***************************************************************************)
(* Contracts, rates and billing transactions:                              *)
(* src/src/modules/billing/billing.service.ts.  Amounts and quantities are *)
(* left out: a summary is the number of its lines, counted twice.          *)
(***************************************************************************)
EXTENDS Records, FiniteSets

CreateContract(r, k, c) ==
    Begin(r, Contract, AllowedCustomer(c) \o Active(c)
                       \o Insert(k, [active |-> TRUE, customer |-> c]))

UpdateContract(r, k, c, on) ==
    Begin(r, Contract, Exists(k) \o AllowedCustomerOf(k)
        \o When(c # None, AllowedCustomer(c) \o Active(c))
        \o Change(k, With(on, Given("customer", c))))

DeleteContract(r, k, hard) ==
    Begin(r, Contract, Exists(k) \o AllowedCustomerOf(k)
        \o IF hard THEN Batch(EraseAll(Rate, "contract", k) \o Erase(k))
           ELSE Change(k, [active |-> FALSE]))

CreateRate(r, t, k) ==
    Begin(r, Rate, AllowedCustomerOf(k) \o Active(k)
                   \o Insert(t, [active |-> TRUE, contract |-> k]))

UpdateRate(r, t, k, on) ==
    Begin(r, Rate, Exists(t) \o AllowedCustomerOf(Row(t).contract)
        \o When(k # None, AllowedCustomerOf(k) \o Active(k))
        \o Change(t, With(on, Given("contract", k))))

DeleteRate(r, t, hard) ==
    Begin(r, Rate, Exists(t) \o AllowedCustomerOf(Row(t).contract) \o Delete(t, hard))

-----------------------------------------------------------------------------
(* The two ways to write a month, 2026-01 and 2026-1.                      *)
Spelling == {"padded", "bare"}
(* Mutated form: the month is kept as it was written.                      *)
CanonicalAsWritten(key) == key
CanonicalPeriodKey(key) == "padded"
PeriodKeyCandidates(key) ==
    {CanonicalPeriodKey(key)} \cup IF CanonicalPeriodKey(key) = "padded" THEN {"bare"} ELSE {}

(* marked: the caller names the mark of a soft delete as reference type.   *)
CreateTransaction(r, t, c, w, o, key, marked) ==
    Begin(r, Transaction,
        Active(c) \o AllowedOperator(o) \o When(w # None, Allowed(w))
        \o When(w # None, Active(w)) \o When(o # None, Active(o))
        \o Insert(t, [active |-> TRUE, customer |-> c, warehouse |-> w, operator |-> o,
                      period |-> CanonicalPeriodKey(key), deleted |-> marked]))

InItsScope(t) ==
    AllowedOperator(Row(t).operator) \o When(Row(t).warehouse # None, Allowed(Row(t).warehouse))

(* dto: the fields given.  The scope is that of the row as it is, then     *)
(* that of the values given.  A reference type that is given takes the     *)
(* place of the mark of a soft delete, or is that mark.                    *)
UpdateTransaction(r, t, dto) ==
    LET gives(f) == f \in DOMAIN dto
        w == IF gives("warehouse") THEN dto.warehouse ELSE None
        o == IF gives("operator") THEN dto.operator ELSE None
    IN  Begin(r, Transaction,
            Exists(t) \o InItsScope(t) \o When(gives("customer"), Active(dto.customer))
            \o AllowedOperator(o) \o When(w # None, Allowed(w) \o Active(w))
            \o When(o # None, Active(o)) \o Change(t, dto))

(* Bound: an update of a transaction gives one field.                      *)
TransactionDto ==
    OneField("customer", Present(Customer)) \cup OneField("warehouse", Present(Warehouse))
    \cup OneField("operator", Present(Company)) \cup OneField("deleted", BOOLEAN)
    \cup OneField("period", {CanonicalPeriodKey(key) : key \in Spelling})

SoftDeleteTransaction(r, t) ==
    Begin(r, Transaction, Exists(t) \o InItsScope(t) \o Change(t, [deleted |-> TRUE]))

-----------------------------------------------------------------------------
(* getSummary reads the transactions twice, for the parts and the total.   *)
GetSummary(r, c, key) ==
    Begin(r, Transaction, Active(c) \o SomeScope
        \o <<[do |-> "sum", of |-> c, key |-> key]>> \o <<[do |-> "sum", of |-> c, key |-> key]>>
        \o <<[do |-> "answer", of |-> c]>>)

(* activeBillingTransactionWhere, within the scope.                        *)
Live(t, c, scope) ==
    /\ There(Row(t)) /\ Row(t).customer = c /\ ~Row(t).deleted
    /\ scope # None => /\ Row(t).warehouse \in scope.warehouses
                       /\ scope.operator # None /\ Row(t).operator = scope.operator

Sum(r) ==
    /\ req[r] # Idle /\ Head(req[r].todo).do = "sum"
    /\ LET s == Head(req[r].todo)
           lines == {t \in Transaction : Live(t, s.of, req[r].scope)
                                         /\ Row(t).period \in PeriodKeyCandidates(s.key)}
       IN  req' = [req EXCEPT ![r] = [Rest(r) EXCEPT !.sums = Append(@, Cardinality(lines))]]
    /\ UNCHANGED <<db, focus, left, moved>>

Answer(r) ==
    /\ req[r] # Idle /\ Head(req[r].todo).do = "answer"
    /\ req' = [req EXCEPT ![r] = Idle]
    /\ UNCHANGED <<db, focus, left, moved>>

BillingRequest(r) ==
    \/ \E k \in Fresh(Contract), c \in Present(Customer) : CreateContract(r, k, c)
    \/ \E k \in Present(Contract) :
          \/ \E c \in Present(Customer) \cup {None}, on \in Activity : UpdateContract(r, k, c, on)
          \/ \E hard \in BOOLEAN : DeleteContract(r, k, hard)
    \/ \E t \in Fresh(Rate), k \in Present(Contract) : CreateRate(r, t, k)
    \/ \E t \in Present(Rate) :
          \/ \E k \in Present(Contract) \cup {None}, on \in Activity : UpdateRate(r, t, k, on)
          \/ \E hard \in BOOLEAN : DeleteRate(r, t, hard)
    \/ \E c \in Present(Customer), key \in Spelling : GetSummary(r, c, key)
    \/ \E t \in Fresh(Transaction), c \in Present(Customer), key \in Spelling,
          w \in Present(Warehouse) \cup {None}, o \in Present(Company) \cup {None},
          marked \in BOOLEAN : CreateTransaction(r, t, c, w, o, key, marked)
    \/ \E t \in Present(Transaction) :
          \/ \E dto \in TransactionDto : UpdateTransaction(r, t, dto)
          \/ SoftDeleteTransaction(r, t)
-----------------------------------------------------------------------------
(* A summary answers for the month however it and the transactions spell   *)
(* it: its parts and its total both count every live transaction that the  *)
(* user may see, unless another request wrote while it read.               *)
SummaryIsWholeUnlessRaced ==
    \A r \in Req :
        req[r] # Idle /\ ~req[r].raced /\ Head(req[r].todo).do = "answer" =>
            LET all == {t \in Transaction : Live(t, Head(req[r].todo).of, req[r].scope)}
            IN  \A i \in DOMAIN req[r].sums : req[r].sums[i] = Cardinality(all)
=============================================================================
