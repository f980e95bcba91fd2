-------------------------- MODULE MasterDataProofs --------------------------
(* Theorems about MasterData, for every value of its constants: any rows,  *)
(* any number of requests in flight, any number of them in a behaviour,    *)
(* any set of tables that change. IInv is the inductive invariant. Of the  *)
(* database it says that it is typed and that its references hold; of each *)
(* request in flight, part by part, that its next write is still           *)
(* justified: either the check that justifies it is still to come, or what *)
(* the check found is still so.                                            *)
EXTENDS MasterData, WellFoundedInduction, TLAPS

-----------------------------------------------------------------------------
(* Sequences, and what is pending of one.                                  *)
LEMMA Least ==
    ASSUME NEW S \in SUBSET Nat, S # {}
    PROVE  /\ Min(S) \in S
           /\ \A i \in S : Min(S) <= i
<1>1. PICK x \in S : \A y \in S : ~(y < x)
    <2>1. IsWellFoundedOn(OpToRel(<, Nat), Nat)
        BY NatLessThanWellFounded
    <2>2. PICK x \in S : \A y \in S : <<y, x>> \notin OpToRel(<, Nat)
        BY <2>1, WFMin
    <2> QED BY <2>2 DEF OpToRel
<1>2. \A y \in S : x <= y
    BY <1>1
<1> QED BY <1>1, <1>2 DEF Min

IsSeq(s) == s \in Seq({s[i] : i \in DOMAIN s})

LEMMA Sequences ==
    ASSUME NEW S, NEW s \in Seq(S)
    PROVE  IsSeq(s)
<1> DEFINE R == {s[i] : i \in DOMAIN s}
<1>1. Len(s) \in Nat /\ DOMAIN s = 1..Len(s) /\ s = [i \in 1..Len(s) |-> s[i]]
    OBVIOUS
<1>2. \A i \in 1..Len(s) : s[i] \in R
    BY <1>1
<1> HIDE DEF R
<1>3. s \in [1..Len(s) -> R]
    BY <1>1, <1>2
<1>4. s \in Seq(R)
    BY <1>1, <1>3
<1> QED BY <1>4 DEF IsSeq, R

LEMMA Joined ==
    ASSUME NEW a, NEW b, IsSeq(a), IsSeq(b)
    PROVE  /\ IsSeq(a \o b)
           /\ Len(a) \in Nat /\ Len(b) \in Nat /\ Len(a \o b) = Len(a) + Len(b)
           /\ \A i \in 1..Len(a) : (a \o b)[i] = a[i]
           /\ \A i \in 1..Len(b) : (a \o b)[Len(a) + i] = b[i]
           /\ \A i \in DOMAIN (a \o b) :
                 \/ i \in DOMAIN a /\ (a \o b)[i] = a[i]
                 \/ i - Len(a) \in DOMAIN b /\ (a \o b)[i] = b[i - Len(a)]
<1> DEFINE S == {a[i] : i \in DOMAIN a} \cup {b[i] : i \in DOMAIN b}
<1>1. a \in Seq(S) /\ b \in Seq(S)
    BY DEF IsSeq
<1> HIDE DEF S
<1>2. a \o b \in Seq(S)
    BY <1>1
<1>3. IsSeq(a \o b)
    BY <1>2, Sequences
<1>4. Len(a \o b) = Len(a) + Len(b) /\ Len(a) \in Nat /\ Len(b) \in Nat
    BY <1>1
<1>5. \A i \in 1..Len(a) : (a \o b)[i] = a[i]
    BY <1>1
<1>6. \A i \in 1..Len(b) : (a \o b)[Len(a) + i] = b[i]
    BY <1>1
<1>7. DOMAIN a = 1..Len(a) /\ DOMAIN b = 1..Len(b) /\ DOMAIN (a \o b) = 1..(Len(a) + Len(b))
    BY <1>1, <1>2, <1>4
<1> QED BY <1>3, <1>4, <1>5, <1>6, <1>7

LEMMA Single ==
    ASSUME NEW x
    PROVE  IsSeq(<<x>>) /\ Len(<<x>>) = 1 /\ <<x>>[1] = x /\ DOMAIN <<x>> = {1}
BY DEF IsSeq

LEMMA EmptyIsSeq == IsSeq(<<>>) /\ Len(<<>>) = 0 /\ DOMAIN <<>> = {}
BY DEF IsSeq

(* A row is of one table.                                                  *)
LEMMA TablesApart ==
    ASSUME NEW i \in 1..17, NEW j \in 1..17, i # j
    PROVE  Tables[i] \cap Tables[j] = {}
BY RecordsAssumption DEF Tables

(* todo is steps from the k-th on, those before it being skipped.          *)
From(scope, steps, todo, k) ==
    /\ Len(todo) = Len(steps) - k + 1
    /\ \A j \in 1..(k - 1) : Skipped(scope, steps[j])
    /\ \A i \in 1..Len(todo) : todo[i] = steps[i + k - 1]

(* What is pending of a script is its end, from the first step that is not *)
(* skipped.                                                                *)
LEMMA PendingIs ==
    ASSUME NEW scope, NEW steps, IsSeq(steps), NEW todo, todo = Pending(scope, steps),
           todo # <<>>
    PROVE  /\ IsSeq(todo) /\ Len(steps) \in Nat
           /\ \E k \in 1..Len(steps) : From(scope, steps, todo, k)
<1> DEFINE open == {i \in DOMAIN steps : ~Skipped(scope, steps[i])}
           n == Len(steps)
           k == Min(open)
           S == {steps[i] : i \in DOMAIN steps}
<1>1. Pending(scope, steps) = IF open = {} THEN <<>> ELSE SubSeq(steps, k, n)
    BY DEF Pending
<1>2. n \in Nat /\ DOMAIN steps = 1..n /\ steps \in Seq(S)
    BY DEF IsSeq
<1>3. open # {} /\ open \in SUBSET Nat /\ open \subseteq 1..n
    BY <1>1, <1>2
<1>4. /\ \A j \in 1..n : j \notin open => Skipped(scope, steps[j])
    BY <1>2
<1> HIDE DEF open
<1>5. k \in open /\ \A i \in open : k <= i
    BY <1>3, Least
<1>6. k \in 1..n
    BY <1>3, <1>5
<1> HIDE DEF k, n, S
<1> DEFINE sub == SubSeq(steps, k, n)
<1>7. /\ sub \in Seq(S) /\ Len(sub) = n - k + 1
      /\ \A i \in 1..Len(sub) : sub[i] = steps[i + k - 1]
    BY <1>2, <1>6 DEF n
<1>8. IsSeq(sub) /\ DOMAIN sub = 1..Len(sub)
    <2> HIDE DEF sub
    <2>1. IsSeq(sub)
        BY <1>7, Sequences
    <2>2. DOMAIN sub = 1..Len(sub)
        BY <1>7
    <2> QED BY <2>1, <2>2
<1>9. \A j \in 1..(k - 1) : Skipped(scope, steps[j])
    BY <1>2, <1>4, <1>5, <1>6
<1> HIDE DEF sub
<1>10. todo = sub
    BY <1>1, <1>3 DEF sub
<1>11. From(scope, steps, todo, k)
    BY <1>7, <1>9, <1>10 DEF From, n
<1> QED BY <1>2, <1>6, <1>8, <1>10, <1>11 DEF n

(* A transaction of up to three statements, unfolded.                      *)
LEMMA AllIs ==
    ASSUME NEW d, NEW all, Len(all) \in 1..3
    PROVE  /\ Len(all) = 1 => All(d, all) = One(d, all[1])
           /\ Len(all) = 2 => All(d, all) = One(One(d, all[1]), all[2])
           /\ Len(all) = 3 => All(d, all) = One(One(One(d, all[1]), all[2]), all[3])
<1> DEFINE n == Len(all)
           F(g) == [i \in 0..n |-> IF i = 0 THEN d ELSE One(g[i - 1], all[i])]
           after == CHOOSE g : g = F(g)
           a1 == One(d, all[1])
           a2 == One(a1, all[2])
           a3 == One(a2, all[3])
           h == [i \in 0..n |-> IF i = 0 THEN d ELSE IF i = 1 THEN a1
                                ELSE IF i = 2 THEN a2 ELSE a3]
<1>1. All(d, all) = after[n]
    BY DEF All
<1> HIDE DEF n
<1>2. n \in 1..3
    BY DEF n
<1>3. h = F(h)
    <2> HIDE DEF a1, a2, a3
    <2>1. ASSUME NEW i \in 0..n
          PROVE  h[i] = IF i = 0 THEN d ELSE One(h[i - 1], all[i])
        <3>1. CASE i = 0 BY <3>1
        <3>2. CASE i = 1
            <4>1. h[0] = d /\ h[1] = a1 BY <1>2, <3>2
            <4> QED BY <3>2, <4>1 DEF a1
        <3>3. CASE i = 2
            <4>1. h[1] = a1 /\ h[2] = a2 BY <1>2, <3>3
            <4> QED BY <3>3, <4>1 DEF a2
        <3>4. CASE i = 3
            <4>1. h[2] = a2 /\ h[3] = a3 BY <1>2, <3>4
            <4> QED BY <3>4, <4>1 DEF a3
        <3> QED BY <1>2, <3>1, <3>2, <3>3, <3>4
    <2> HIDE DEF h
    <2>2. h = [i \in 0..n |-> h[i]]
        BY DEF h
    <2> QED BY <2>1, <2>2
<1>4. after = F(after)
    <2> HIDE DEF h, F
    <2> QED BY <1>3
<1> HIDE DEF after, h
<1>5. after[0] = d /\ \A i \in 1..n : after[i] = One(after[i - 1], all[i])
    <2> DEFINE b == after
    <2>1. b = [i \in 0..n |-> IF i = 0 THEN d ELSE One(b[i - 1], all[i])]
        BY <1>4
    <2> HIDE DEF b
    <2>2. b[0] = d /\ \A i \in 1..n : b[i] = One(b[i - 1], all[i])
        BY <1>2, <2>1
    <2> QED BY <2>2 DEF b
<1>6. n >= 1 => after[1] = a1
    BY <1>2, <1>5
<1>7. n >= 2 => after[2] = a2
    BY <1>2, <1>5, <1>6
<1>8. n >= 3 => after[3] = a3
    BY <1>2, <1>5, <1>7
<1>9. Len(all) = n
    BY DEF n
<1> QED BY <1>1, <1>6, <1>7, <1>8, <1>9

LEMMA TablesAre ==
    /\ Tables[1] = Customer /\ Tables[2] = Company /\ Tables[3] = Warehouse /\ Tables[4] = Area
    /\ Tables[5] = Zone /\ Tables[6] = Bin /\ Tables[7] = Product /\ Tables[8] = Supplier
    /\ Tables[9] = Uom /\ Tables[10] = Conversion /\ Tables[11] = User /\ Tables[12] = Role
    /\ Tables[13] = Menu /\ Tables[14] = PlatformUser /\ Tables[15] = Contract /\ Tables[16] = Rate
    /\ Tables[17] = Transaction
BY DEF Tables

LEMMA Apart ==
    /\ Customer \cap (Warehouse \cup Area \cup Zone \cup Bin \cup Product \cup Supplier
                         \cup PlatformUser \cup Rate \cup Transaction) = {}
    /\ Company \cap (Customer \cup Warehouse \cup Area \cup Zone \cup Bin \cup Product
                        \cup Supplier \cup PlatformUser \cup Rate \cup Transaction) = {}
    /\ Warehouse \cap (Customer \cup Area \cup Zone \cup Bin \cup Product \cup Supplier
                          \cup PlatformUser \cup Rate \cup Transaction) = {}
    /\ Area \cap (Customer \cup Warehouse \cup Zone \cup Bin \cup Product \cup Supplier
                     \cup PlatformUser \cup Rate \cup Transaction) = {}
    /\ Zone \cap (Customer \cup Warehouse \cup Area \cup Bin \cup Product \cup Supplier
                     \cup PlatformUser \cup Rate \cup Transaction) = {}
    /\ Bin \cap (Customer \cup Warehouse \cup Area \cup Zone \cup Product \cup Supplier
                    \cup PlatformUser \cup Rate \cup Transaction) = {}
    /\ Product \cap (Customer \cup Warehouse \cup Area \cup Zone \cup Bin \cup Supplier
                        \cup PlatformUser \cup Rate \cup Transaction) = {}
    /\ Supplier \cap (Customer \cup Warehouse \cup Area \cup Zone \cup Bin \cup Product
                         \cup PlatformUser \cup Rate \cup Transaction) = {}
    /\ Uom \cap (Customer \cup Warehouse \cup Area \cup Zone \cup Bin \cup Product
                    \cup Supplier \cup PlatformUser \cup Rate \cup Transaction) = {}
    /\ Conversion \cap (Customer \cup Warehouse \cup Area \cup Zone \cup Bin \cup Product
                           \cup Supplier \cup PlatformUser \cup Rate \cup Transaction) = {}
    /\ User \cap (Customer \cup Warehouse \cup Area \cup Zone \cup Bin \cup Product
                     \cup Supplier \cup PlatformUser \cup Rate \cup Transaction) = {}
    /\ Role \cap (Customer \cup Warehouse \cup Area \cup Zone \cup Bin \cup Product
                     \cup Supplier \cup PlatformUser \cup Rate \cup Transaction) = {}
    /\ Menu \cap (Customer \cup Warehouse \cup Area \cup Zone \cup Bin \cup Product
                     \cup Supplier \cup PlatformUser \cup Rate \cup Transaction) = {}
    /\ PlatformUser \cap (Customer \cup Warehouse \cup Area \cup Zone \cup Bin \cup Product
                             \cup Supplier \cup Rate \cup Transaction) = {}
    /\ Contract \cap (Customer \cup Warehouse \cup Area \cup Zone \cup Bin \cup Product
                         \cup Supplier \cup PlatformUser \cup Rate \cup Transaction) = {}
    /\ Rate \cap (Customer \cup Warehouse \cup Area \cup Zone \cup Bin \cup Product
                     \cup Supplier \cup PlatformUser \cup Transaction) = {}
    /\ Transaction \cap (Customer \cup Warehouse \cup Area \cup Zone \cup Bin \cup Product
                            \cup Supplier \cup PlatformUser \cup Rate) = {}
<1>1. Customer \cap (Warehouse \cup Area \cup Zone \cup Bin \cup Product \cup Supplier
                           \cup PlatformUser \cup Rate \cup Transaction) = {}
    BY TablesAre, TablesApart, Z3
<1>2. Company \cap (Customer \cup Warehouse \cup Area \cup Zone \cup Bin \cup Product
                          \cup Supplier \cup PlatformUser \cup Rate \cup Transaction) = {}
    BY TablesAre, TablesApart, Z3
<1>3. Warehouse \cap (Customer \cup Area \cup Zone \cup Bin \cup Product \cup Supplier
                            \cup PlatformUser \cup Rate \cup Transaction) = {}
    BY TablesAre, TablesApart, Z3
<1>4. Area \cap (Customer \cup Warehouse \cup Zone \cup Bin \cup Product \cup Supplier
                       \cup PlatformUser \cup Rate \cup Transaction) = {}
    BY TablesAre, TablesApart, Z3
<1>5. Zone \cap (Customer \cup Warehouse \cup Area \cup Bin \cup Product \cup Supplier
                       \cup PlatformUser \cup Rate \cup Transaction) = {}
    BY TablesAre, TablesApart, Z3
<1>6. Bin \cap (Customer \cup Warehouse \cup Area \cup Zone \cup Product \cup Supplier
                      \cup PlatformUser \cup Rate \cup Transaction) = {}
    BY TablesAre, TablesApart, Z3
<1>7. Product \cap (Customer \cup Warehouse \cup Area \cup Zone \cup Bin \cup Supplier
                          \cup PlatformUser \cup Rate \cup Transaction) = {}
    BY TablesAre, TablesApart, Z3
<1>8. Supplier \cap (Customer \cup Warehouse \cup Area \cup Zone \cup Bin \cup Product
                           \cup PlatformUser \cup Rate \cup Transaction) = {}
    BY TablesAre, TablesApart, Z3
<1>9. Uom \cap (Customer \cup Warehouse \cup Area \cup Zone \cup Bin \cup Product
                      \cup Supplier \cup PlatformUser \cup Rate \cup Transaction) = {}
    BY TablesAre, TablesApart, Z3
<1>10. Conversion \cap (Customer \cup Warehouse \cup Area \cup Zone \cup Bin \cup Product
                             \cup Supplier \cup PlatformUser \cup Rate \cup Transaction) = {}
    BY TablesAre, TablesApart, Z3
<1>11. User \cap (Customer \cup Warehouse \cup Area \cup Zone \cup Bin \cup Product
                       \cup Supplier \cup PlatformUser \cup Rate \cup Transaction) = {}
    BY TablesAre, TablesApart, Z3
<1>12. Role \cap (Customer \cup Warehouse \cup Area \cup Zone \cup Bin \cup Product
                       \cup Supplier \cup PlatformUser \cup Rate \cup Transaction) = {}
    BY TablesAre, TablesApart, Z3
<1>13. Menu \cap (Customer \cup Warehouse \cup Area \cup Zone \cup Bin \cup Product
                       \cup Supplier \cup PlatformUser \cup Rate \cup Transaction) = {}
    BY TablesAre, TablesApart, Z3
<1>14. PlatformUser \cap (Customer \cup Warehouse \cup Area \cup Zone \cup Bin \cup Product
                               \cup Supplier \cup Rate \cup Transaction) = {}
    BY TablesAre, TablesApart, Z3
<1>15. Contract \cap (Customer \cup Warehouse \cup Area \cup Zone \cup Bin \cup Product
                           \cup Supplier \cup PlatformUser \cup Rate \cup Transaction) = {}
    BY TablesAre, TablesApart, Z3
<1>16. Rate \cap (Customer \cup Warehouse \cup Area \cup Zone \cup Bin \cup Product
                       \cup Supplier \cup PlatformUser \cup Transaction) = {}
    BY TablesAre, TablesApart, Z3
<1>17. Transaction \cap (Customer \cup Warehouse \cup Area \cup Zone \cup Bin \cup Product
                              \cup Supplier \cup PlatformUser \cup Rate) = {}
    BY TablesAre, TablesApart, Z3
<1> QED BY <1>1, <1>2, <1>3, <1>4, <1>5, <1>6, <1>7, <1>8, <1>9, <1>10, <1>11, <1>12, <1>13, <1>14,
           <1>15, <1>16, <1>17

Shaped(d) == d = [rows |-> [x \in Id |-> d.rows[x]], links |-> d.links, on |-> d.on]

-----------------------------------------------------------------------------
(* What each statement does to the rows and the links.                     *)
LEMMA RanInsert ==
    ASSUME NEW d, NEW s, Shaped(d), s.do = "insert", s.of \in Id, Ran(d, s) # Refused
    PROVE  LET e == Ran(d, s)
           IN  /\ Shaped(e) /\ e.links = d.links /\ e.on = d.on /\ d.rows[s.of] = Absent
               /\ \A x \in Id : e.rows[x] = IF x = s.of THEN s.row ELSE d.rows[x]
<1>1. Ran(d, s) = [d EXCEPT !.rows[s.of] = s.row] /\ d.rows[s.of] = Absent
    BY DEF Ran
<1> QED BY <1>1 DEF Shaped

LEMMA RanChange ==
    ASSUME NEW d, NEW s, Shaped(d), s.do = "change", s.of \in Id, Ran(d, s) # Refused
    PROVE  LET e == Ran(d, s)
           IN  /\ Shaped(e) /\ e.links = d.links /\ e.on = d.on /\ There(d.rows[s.of])
               /\ \A x \in Id :
                     e.rows[x] = IF x = s.of THEN With(d.rows[x], s.fields) ELSE d.rows[x]
<1>1. Ran(d, s) = [d EXCEPT !.rows[s.of] = With(@, s.fields)] /\ There(d.rows[s.of])
    BY DEF Ran
<1> DEFINE new == With(d.rows[s.of], s.fields)
<1>2. Ran(d, s) = [d EXCEPT !.rows[s.of] = new]
    BY <1>1
<1> HIDE DEF new
<1>3. LET e == Ran(d, s)
      IN  /\ Shaped(e) /\ e.links = d.links /\ e.on = d.on
          /\ \A x \in Id : e.rows[x] = IF x = s.of THEN new ELSE d.rows[x]
    BY <1>2 DEF Shaped
<1> QED BY <1>1, <1>3 DEF new

Without(d, x, row, y) ==
    [f \in DOMAIN row |-> IF f \in Fields(row) /\ row[f] = x /\ y \in Cleared[f] THEN None
                          ELSE row[f]]

LEMMA RanErase ==
    ASSUME NEW d, NEW s, Shaped(d), s.do = "erase", s.of \in Id, Ran(d, s) # Refused
    PROVE  LET e == Ran(d, s)
           IN  /\ Shaped(e) /\ There(d.rows[s.of])
               /\ \E gone \in SUBSET d.links : e.links = d.links \ gone /\ e.on = d.on \ gone
               /\ \A x \in Id : e.rows[x] = IF x = s.of THEN Gone
                                            ELSE Without(d, s.of, d.rows[x], x)
<1>1. Ran(d, s) = Removed(d, s.of) /\ There(d.rows[s.of])
    BY DEF Ran
<1> DEFINE gone == {link \in d.links : link \in User \X Warehouse /\ Has(link, s.of)}
           rows == [y \in Id |-> IF y = s.of THEN Gone ELSE Without(d, s.of, d.rows[y], y)]
<1>2. Ran(d, s) = [rows |-> rows, links |-> d.links \ gone, on |-> d.on \ gone]
    BY <1>1 DEF Removed, Without
<1>3. gone \in SUBSET d.links
    OBVIOUS
<1>4. /\ rows = [x \in Id |-> rows[x]]
      /\ \A x \in Id : rows[x] = IF x = s.of THEN Gone ELSE Without(d, s.of, d.rows[x], x)
    OBVIOUS
<1> HIDE DEF gone, rows
<1>5. /\ Ran(d, s).rows = rows
      /\ Ran(d, s).links = d.links \ gone /\ Ran(d, s).on = d.on \ gone
    BY <1>2
<1>6. Shaped(Ran(d, s))
    <2>1. Ran(d, s) = [rows |-> Ran(d, s).rows, links |-> Ran(d, s).links, on |-> Ran(d, s).on]
        BY <1>2, <1>5
    <2>2. Ran(d, s).rows = [x \in Id |-> Ran(d, s).rows[x]]
        BY <1>4, <1>5
    <2> QED BY <2>1, <2>2 DEF Shaped
<1> QED BY <1>1, <1>3, <1>4, <1>5, <1>6

LEMMA RanEraseAll ==
    ASSUME NEW d, NEW s, Shaped(d), s.do = "eraseAll", Ran(d, s) # Refused
    PROVE  LET e == Ran(d, s)
           IN  /\ Shaped(e) /\ e.links = d.links /\ e.on = d.on
               /\ \A x \in Id : \/ e.rows[x] = d.rows[x]
                                \/ x \in s.in /\ There(d.rows[x]) /\ e.rows[x] = Gone
<1> DEFINE rows == [y \in Id |-> IF y \in s.in /\ There(d.rows[y]) /\ d.rows[y][s.field] = s.of
                                 THEN Gone ELSE d.rows[y]]
<1>1. Ran(d, s) = [d EXCEPT !.rows = rows]
    BY DEF Ran
<1>2. \A x \in Id : \/ rows[x] = d.rows[x]
                    \/ x \in s.in /\ There(d.rows[x]) /\ rows[x] = Gone
    OBVIOUS
<1>3. rows = [x \in Id |-> rows[x]]
    OBVIOUS
<1> HIDE DEF rows
<1> QED BY <1>1, <1>2, <1>3 DEF Shaped

LEMMA NewLinks ==
    ASSUME NEW d, NEW links, NEW on, Shaped(d)
    PROVE  LET e == Linked(d, links, on)
           IN  Shaped(e) /\ e.rows = d.rows /\ e.links = links /\ e.on = on
<1> DEFINE rows == [x \in Id |-> d.rows[x]]
<1>1. d = [rows |-> rows, links |-> d.links, on |-> d.on]
    BY DEF Shaped
<1>2. rows = [x \in Id |-> rows[x]]
    OBVIOUS
<1> HIDE DEF rows
<1>3. d.rows = rows
    BY <1>1
<1> QED BY <1>2, <1>3 DEF Shaped, Linked

LEMMA RanLinks ==
    ASSUME NEW d, NEW s, Shaped(d), s.do \in {"upsert", "createMany", "off", "unlink"},
           Ran(d, s) # Refused
    PROVE  LET e == Ran(d, s)
           IN  /\ Shaped(e) /\ e.rows = d.rows
               /\ s.do \in {"upsert", "createMany"} =>
                      e.links = d.links \cup s.links /\ e.on = d.on \cup s.links
               /\ s.do \in {"off", "unlink"} =>
                      \E gone \in SUBSET d.links :
                         /\ e.links = d.links \/ e.links = d.links \ gone
                         /\ e.on = d.on \ gone
<1>1. CASE s.do = "upsert"
    <2>1. Ran(d, s) = Linked(d, d.links \cup s.links, d.on \cup s.links)
        BY <1>1 DEF Ran
    <2>2. /\ Shaped(Ran(d, s)) /\ Ran(d, s).rows = d.rows
          /\ Ran(d, s).links = d.links \cup s.links /\ Ran(d, s).on = d.on \cup s.links
        BY <2>1, NewLinks
    <2> QED BY <1>1, <2>2
<1>2. CASE s.do = "createMany"
    <2>1. Ran(d, s) = Linked(d, d.links \cup s.links, d.on \cup s.links)
        BY <1>2 DEF Ran
    <2>2. /\ Shaped(Ran(d, s)) /\ Ran(d, s).rows = d.rows
          /\ Ran(d, s).links = d.links \cup s.links /\ Ran(d, s).on = d.on \cup s.links
        BY <2>1, NewLinks
    <2> QED BY <1>2, <2>2
<1> DEFINE gone == Between(d, s.of, s.others)
<1>3. gone \in SUBSET d.links
    BY DEF Between
<1>4. CASE s.do = "off"
    <2>1. Ran(d, s) = Linked(d, d.links, d.on \ gone)
        BY <1>4 DEF Ran
    <2> HIDE DEF gone
    <2>2. /\ Shaped(Ran(d, s)) /\ Ran(d, s).rows = d.rows
          /\ Ran(d, s).links = d.links /\ Ran(d, s).on = d.on \ gone
        BY <2>1, NewLinks
    <2> QED BY <1>3, <1>4, <2>2
<1>5. CASE s.do = "unlink"
    <2>1. Ran(d, s) = Linked(d, d.links \ gone, d.on \ gone)
        BY <1>5 DEF Ran
    <2> HIDE DEF gone
    <2>2. /\ Shaped(Ran(d, s)) /\ Ran(d, s).rows = d.rows
          /\ Ran(d, s).links = d.links \ gone /\ Ran(d, s).on = d.on \ gone
        BY <2>1, NewLinks
    <2> QED BY <1>3, <1>5, <2>2
<1> QED BY <1>1, <1>2, <1>4, <1>5

(* Columns that an argument below reads, and the tables that have them.    *)
Needed == [active |-> Id, customer |-> Warehouse \cup Product \cup Supplier,
           warehouse |-> Area \cup Zone \cup Bin, area |-> Zone, zone |-> Bin,
           period |-> Transaction]
Fit(fields) ==
    /\ "active" \in DOMAIN fields => fields["active"] \in BOOLEAN
    /\ \A f \in DOMAIN fields \cap DOMAIN Target : fields[f] \in Target[f] \cup {None}
    /\ "period" \in DOMAIN fields => fields["period"] \in Spelling
Held(x, row) ==
    /\ Fit(row)
    /\ \A f \in DOMAIN Needed : x \in Needed[f] => f \in DOMAIN row
Typed(d) ==
    /\ Shaped(d) /\ d.on \subseteq d.links /\ d.links \subseteq LinkType
    /\ \A x \in Id : d.rows[x] \in {Absent, Gone} \/ Held(x, d.rows[x])

Ups == {"warehouse", "area", "zone"}
Proper(s) ==
    \/ s.do = "insert" /\ s.of \in Id /\ Held(s.of, s.row)
    \/ /\ s.do = "change" /\ s.of \in Id /\ Fit(s.fields)
       /\ "customer" \in DOMAIN s.fields => s.of \notin Product \cup Supplier
    \/ s.do = "erase" /\ s.of \in Id \ PlatformUser
    \/ s.do = "eraseAll" /\ s.in \subseteq Rate
    \/ s.do \in {"upsert", "createMany"} /\ s.links \subseteq LinkType
    \/ s.do \in {"off", "unlink"}

(* What a statement leaves of a row.                                       *)
KeptRow(x, old, new, S) ==
    /\ old = Gone => new = Gone
    /\ new = Absent => old = Absent
    /\ There(old) => There(new) \/ new = Gone
    /\ There(old) /\ There(new) /\ x \in Product \cup Supplier => new.customer = old.customer
    /\ There(old) /\ There(new) /\ x \notin S =>
          /\ x \in Area \cup Zone \cup Bin => new.warehouse = old.warehouse
          /\ x \in Zone => new.area \in {old.area, None}
          /\ x \in Bin => new.zone \in {old.zone, None}
Kept(d, e, S) == \A x \in Id : KeptRow(x, d.rows[x], e.rows[x], S)
Moves(s) == IF s.do = "change" /\ DOMAIN s.fields \cap Ups # {} THEN {s.of} ELSE {}

(* The values that stand for no row.                                       *)
LEMMA Values ==
    /\ None \notin Id /\ Refused \notin Id /\ None \notin BOOLEAN /\ Refused \notin BOOLEAN
    /\ ~There(Absent) /\ ~There(Gone) /\ Absent # Gone
    /\ DOMAIN Absent = {"active"} /\ DOMAIN Gone = {"active"}
    /\ \A x \in Id : \A row : Held(x, row) => There(row) /\ row # Absent /\ row # Gone
<1>1. None \notin Id /\ Refused \notin Id /\ None \notin BOOLEAN /\ Refused \notin BOOLEAN
      /\ None # Refused
    BY RecordsAssumption
<1>2. ~There(Absent) /\ ~There(Gone) /\ Absent # Gone
    BY <1>1 DEF There, Absent, Gone
<1>3. DOMAIN Absent = {"active"} /\ DOMAIN Gone = {"active"}
    BY DEF Absent, Gone
<1>4. ASSUME NEW x \in Id, NEW row, Held(x, row) PROVE There(row)
    <2>1. "active" \in DOMAIN Needed /\ Needed["active"] = Id
        BY DEF Needed
    <2> QED BY <1>4, <2>1 DEF Held, Fit, There
<1> QED BY <1>1, <1>2, <1>3, <1>4

(* A row stays a row of its table when it is changed.                      *)
LEMMA ChangeHeld ==
    ASSUME NEW x, NEW row, Held(x, row), NEW fields, Fit(fields)
    PROVE  Held(x, With(row, fields))
BY DEF Held, Fit, With

(* ... or when another row is taken away.                                  *)
LEMMA WithoutHeld ==
    ASSUME NEW d, NEW x, NEW y \in Id, NEW row, Held(y, row)
    PROVE  Held(y, Without(d, x, row, y))
<1> DEFINE new == Without(d, x, row, y)
<1>1. /\ DOMAIN new = DOMAIN row
      /\ \A f \in DOMAIN row : \/ new[f] = row[f]
                               \/ new[f] = None /\ f \in DOMAIN Target
    BY DEF Without, Fields
<1> HIDE DEF new
<1>2. "active" \notin DOMAIN Target /\ "period" \notin DOMAIN Target
    BY DEF Target
<1>3. Held(y, new)
    BY <1>1, <1>2 DEF Held, Fit
<1> QED BY <1>3 DEF new

LEMMA WithoutIs ==
    ASSUME NEW d, NEW x, NEW y, NEW row
    PROVE  LET new == Without(d, x, row, y)
           IN  /\ DOMAIN new = DOMAIN row
               /\ \A f \in DOMAIN row : f \notin DOMAIN Target => new[f] = row[f]
               /\ \A f \in DOMAIN row : y \notin Cleared[f] => new[f] = row[f]
               /\ new = [f \in DOMAIN row |-> new[f]]
BY DEF Without, Fields

LEMMA WithoutEnds ==
    ASSUME NEW d, NEW x, NEW y, NEW row
    PROVE  /\ row = Absent => Without(d, x, row, y) = Absent
           /\ row = Gone => Without(d, x, row, y) = Gone
<1> DEFINE new == Without(d, x, row, y)
<1>1. /\ DOMAIN new = DOMAIN row
      /\ \A f \in DOMAIN row : f \notin DOMAIN Target => new[f] = row[f]
      /\ new = [f \in DOMAIN row |-> new[f]]
    BY WithoutIs
<1> HIDE DEF new
<1>2. "active" \notin DOMAIN Target
    BY DEF Target
<1>3. row = Absent => new = Absent
    BY <1>1, <1>2 DEF Absent
<1>4. row = Gone => new = Gone
    BY <1>1, <1>2 DEF Gone
<1> QED BY <1>3, <1>4 DEF new

LEMMA WithoutCustomer ==
    ASSUME NEW d, NEW x, NEW y \in Product \cup Supplier, NEW row, Held(y, row)
    PROVE  Without(d, x, row, y).customer = row.customer
<1>1. "customer" \in DOMAIN row
    BY DEF Held, Needed
<1>2. y \notin Cleared["customer"]
    BY Apart DEF Cleared
<1> QED BY <1>1, <1>2, WithoutIs

LEMMA WithoutWarehouse ==
    ASSUME NEW d, NEW x, NEW y \in Area \cup Zone \cup Bin, NEW row, Held(y, row)
    PROVE  Without(d, x, row, y).warehouse = row.warehouse
<1>1. "warehouse" \in DOMAIN row
    BY DEF Held, Needed
<1>2. y \notin Cleared["warehouse"]
    BY Apart DEF Cleared
<1> QED BY <1>1, <1>2, WithoutIs

LEMMA WithoutUp ==
    ASSUME NEW d, NEW x, NEW y, NEW row, Held(y, row)
    PROVE  /\ y \in Zone => Without(d, x, row, y).area \in {row.area, None}
           /\ y \in Bin => Without(d, x, row, y).zone \in {row.zone, None}
<1>1. y \in Zone => "area" \in DOMAIN row
    BY DEF Held, Needed
<1>2. y \in Bin => "zone" \in DOMAIN row
    BY DEF Held, Needed
<1> QED BY <1>1, <1>2 DEF Without

(* How a row may come out of a statement.                                  *)
LEMMA SameKept ==
    ASSUME NEW x, NEW row, NEW S
    PROVE  KeptRow(x, row, row, S)
BY DEF KeptRow

LEMMA GoneKept ==
    ASSUME NEW x, NEW row, NEW S
    PROVE  KeptRow(x, row, Gone, S)
BY Values DEF KeptRow

LEMMA InsertKept ==
    ASSUME NEW x \in Id, NEW row, Held(x, row), NEW S
    PROVE  KeptRow(x, Absent, row, S)
BY Values DEF KeptRow

LEMMA ChangeKept ==
    ASSUME NEW x \in Id, NEW row, Held(x, row), NEW fields, Fit(fields), NEW S,
           "customer" \in DOMAIN fields => x \notin Product \cup Supplier,
           DOMAIN fields \cap Ups # {} => x \in S
    PROVE  KeptRow(x, row, With(row, fields), S)
<1> DEFINE new == With(row, fields)
<1>1. There(row) /\ There(new) /\ row # Gone /\ new # Absent
    BY ChangeHeld, Values
<1>2. \A f \in DOMAIN row : f \notin DOMAIN fields => new[f] = row[f]
    BY DEF With
<1>3. x \in Product \cup Supplier => "customer" \in DOMAIN row
    BY DEF Held, Needed
<1>4. x \in Area \cup Zone \cup Bin => "warehouse" \in DOMAIN row
    BY DEF Held, Needed
<1>5. x \in Zone => "area" \in DOMAIN row
    BY DEF Held, Needed
<1>6. x \in Bin => "zone" \in DOMAIN row
    BY DEF Held, Needed
<1> HIDE DEF new
<1>7. x \in Product \cup Supplier => new.customer = row.customer
    BY <1>2, <1>3
<1>8. x \notin S => "warehouse" \notin DOMAIN fields /\ "area" \notin DOMAIN fields
                    /\ "zone" \notin DOMAIN fields
    BY DEF Ups
<1>9. x \notin S =>
          /\ x \in Area \cup Zone \cup Bin => new.warehouse = row.warehouse
          /\ x \in Zone => new.area = row.area
          /\ x \in Bin => new.zone = row.zone
    BY <1>2, <1>4, <1>5, <1>6, <1>8
<1>10. KeptRow(x, row, new, S)
    BY <1>1, <1>7, <1>9 DEF KeptRow
<1> QED BY <1>10 DEF new

LEMMA WithoutKept ==
    ASSUME NEW d, NEW x, NEW y \in Id, NEW row, NEW S, row \in {Absent, Gone} \/ Held(y, row)
    PROVE  KeptRow(y, row, Without(d, x, row, y), S)
<1> DEFINE new == Without(d, x, row, y)
<1>1. CASE row \in {Absent, Gone}
    BY <1>1, WithoutEnds, SameKept
<1>2. CASE Held(y, row)
    <2>1. There(row) /\ There(new) /\ row # Gone /\ new # Absent
        BY <1>2, WithoutHeld, Values
    <2>2. y \in Product \cup Supplier => new.customer = row.customer
        BY <1>2, WithoutCustomer
    <2>3. y \in Area \cup Zone \cup Bin => new.warehouse = row.warehouse
        BY <1>2, WithoutWarehouse
    <2>4. /\ y \in Zone => new.area \in {row.area, None}
          /\ y \in Bin => new.zone \in {row.zone, None}
        BY <1>2, WithoutUp
    <2> HIDE DEF new
    <2>5. KeptRow(y, row, new, S)
        BY <2>1, <2>2, <2>3, <2>4 DEF KeptRow
    <2> QED BY <2>5 DEF new
<1> QED BY <1>1, <1>2

LEMMA KeptRowOn ==
    ASSUME NEW x, NEW a, NEW b, NEW c, NEW S, NEW T, KeptRow(x, a, b, S), KeptRow(x, b, c, T)
    PROVE  KeptRow(x, a, c, S \cup T)
BY Values DEF KeptRow

LEMMA KeptOn ==
    ASSUME NEW d, NEW e, NEW f, NEW S, NEW T, Kept(d, e, S), Kept(e, f, T)
    PROVE  Kept(d, f, S \cup T)
BY KeptRowOn DEF Kept

(* A statement that is allowed keeps the database typed.                   *)
LEMMA RanIs ==
    ASSUME NEW d, NEW s, Typed(d), Proper(s), Ran(d, s) # Refused
    PROVE  Typed(Ran(d, s)) /\ Kept(d, Ran(d, s), Moves(s))
<1> DEFINE e == Ran(d, s)
<1>1. Shaped(d) /\ d.on \subseteq d.links /\ d.links \subseteq LinkType
    BY DEF Typed
<1>2. \A x \in Id : d.rows[x] \in {Absent, Gone} \/ Held(x, d.rows[x])
    BY DEF Typed
<1>3. \A x \in Id : There(d.rows[x]) => Held(x, d.rows[x])
    BY <1>2, Values
<1>4. CASE s.do = "insert"
    <2>1. s.of \in Id /\ Held(s.of, s.row)
        BY <1>4 DEF Proper
    <2>2. /\ Shaped(e) /\ e.links = d.links /\ e.on = d.on /\ d.rows[s.of] = Absent
          /\ \A x \in Id : e.rows[x] = IF x = s.of THEN s.row ELSE d.rows[x]
        BY <1>1, <1>4, <2>1, RanInsert
    <2> HIDE DEF e
    <2>3. Typed(e)
        BY <1>1, <1>2, <2>1, <2>2 DEF Typed
    <2>4. Kept(d, e, Moves(s))
        BY <2>1, <2>2, SameKept, InsertKept DEF Kept
    <2> QED BY <2>3, <2>4 DEF e
<1>5. CASE s.do = "change"
    <2>1. s.of \in Id /\ Fit(s.fields)
          /\ ("customer" \in DOMAIN s.fields => s.of \notin Product \cup Supplier)
        BY <1>5 DEF Proper
    <2>2. /\ Shaped(e) /\ e.links = d.links /\ e.on = d.on /\ There(d.rows[s.of])
          /\ \A x \in Id : e.rows[x] = IF x = s.of THEN With(d.rows[x], s.fields) ELSE d.rows[x]
        BY <1>1, <1>5, <2>1, RanChange
    <2> DEFINE new == With(d.rows[s.of], s.fields)
    <2>3. Held(s.of, d.rows[s.of])
        BY <1>3, <2>1, <2>2
    <2>4. Held(s.of, new)
        BY <2>1, <2>3, ChangeHeld
    <2>5. \A x \in Id : e.rows[x] = IF x = s.of THEN new ELSE d.rows[x]
        BY <2>2
    <2>6. DOMAIN s.fields \cap Ups # {} => s.of \in Moves(s)
        BY <1>5 DEF Moves
    <2>7. KeptRow(s.of, d.rows[s.of], new, Moves(s))
        BY <2>1, <2>3, <2>6, ChangeKept
    <2> HIDE DEF e, new
    <2>8. Typed(e)
        BY <1>1, <1>2, <2>2, <2>4, <2>5 DEF Typed
    <2>9. Kept(d, e, Moves(s))
        BY <2>5, <2>7, SameKept DEF Kept
    <2> QED BY <2>8, <2>9 DEF e
<1>6. CASE s.do = "erase"
    <2>1. s.of \in Id
        BY <1>6 DEF Proper
    <2>2. /\ Shaped(e) /\ There(d.rows[s.of])
          /\ \E gone \in SUBSET d.links : e.links = d.links \ gone /\ e.on = d.on \ gone
          /\ \A x \in Id : e.rows[x] = IF x = s.of THEN Gone ELSE Without(d, s.of, d.rows[x], x)
        BY <1>1, <1>6, <2>1, RanErase
    <2> HIDE DEF e
    <2>3. \A x \in Id : e.rows[x] \in {Absent, Gone} \/ Held(x, e.rows[x])
        <3> SUFFICES ASSUME NEW x \in Id, x # s.of
                     PROVE  e.rows[x] \in {Absent, Gone} \/ Held(x, e.rows[x])
            BY <2>2
        <3> QED BY <1>2, <2>2, WithoutHeld, WithoutEnds
    <2>4. Typed(e)
        BY <1>1, <2>2, <2>3 DEF Typed
    <2>5. Kept(d, e, Moves(s))
        BY <1>2, <2>2, GoneKept, WithoutKept DEF Kept
    <2> QED BY <2>4, <2>5 DEF e
<1>7. CASE s.do = "eraseAll"
    <2>1. /\ Shaped(e) /\ e.links = d.links /\ e.on = d.on
          /\ \A x \in Id : \/ e.rows[x] = d.rows[x]
                           \/ x \in s.in /\ There(d.rows[x]) /\ e.rows[x] = Gone
        BY <1>1, <1>7, RanEraseAll
    <2> HIDE DEF e
    <2>2. Typed(e)
        BY <1>1, <1>2, <2>1 DEF Typed
    <2>3. Kept(d, e, Moves(s))
        BY <2>1, SameKept, GoneKept DEF Kept
    <2> QED BY <2>2, <2>3 DEF e
<1>8. CASE s.do \in {"upsert", "createMany", "off", "unlink"}
    <2>1. s.do \in {"upsert", "createMany"} => s.links \subseteq LinkType
        BY <1>8 DEF Proper
    <2>2. /\ Shaped(e) /\ e.rows = d.rows
          /\ s.do \in {"upsert", "createMany"} =>
                e.links = d.links \cup s.links /\ e.on = d.on \cup s.links
          /\ s.do \in {"off", "unlink"} =>
                \E gone \in SUBSET d.links :
                   /\ e.links = d.links \/ e.links = d.links \ gone
                   /\ e.on = d.on \ gone
        BY <1>1, <1>8, RanLinks
    <2> HIDE DEF e
    <2>3. e.on \subseteq e.links /\ e.links \subseteq LinkType
        BY <1>1, <1>8, <2>1, <2>2
    <2>4. Typed(e)
        BY <1>2, <2>2, <2>3 DEF Typed
    <2>5. Kept(d, e, Moves(s))
        BY <2>2, SameKept DEF Kept
    <2> QED BY <2>4, <2>5 DEF e
<1> QED BY <1>4, <1>5, <1>6, <1>7, <1>8 DEF Proper

InOne(s) ==
    /\ s.do = "tx" /\ Len(s.all) \in 1..3
    /\ \A i \in 1..Len(s.all) : Proper(s.all[i]) /\ Moves(s.all[i]) = {}

LEMMA OneIs ==
    ASSUME NEW d, NEW s, d # Refused => Typed(d), Proper(s), One(d, s) # Refused
    PROVE  /\ d # Refused /\ One(d, s) = Ran(d, s) /\ Typed(One(d, s))
           /\ Kept(d, One(d, s), Moves(s))
<1>1. d # Refused /\ One(d, s) = Ran(d, s)
    BY DEF One
<1> QED BY <1>1, RanIs

(* ... and so does a transaction.                                          *)
LEMMA AllKeeps ==
    ASSUME NEW s, Typed(db), InOne(s), All(db, s.all) # Refused
    PROVE  Typed(All(db, s.all)) /\ Kept(db, All(db, s.all), {})
<1> DEFINE n == Len(s.all)
           e1 == One(db, s.all[1])
           e2 == One(e1, s.all[2])
           e3 == One(e2, s.all[3])
<1>1. /\ n \in 1..3
      /\ n = 1 => All(db, s.all) = e1
      /\ n = 2 => All(db, s.all) = e2
      /\ n = 3 => All(db, s.all) = e3
    BY AllIs DEF InOne
<1>2. Proper(s.all[1]) /\ Moves(s.all[1]) = {}
    BY DEF InOne
<1>3. n >= 2 => Proper(s.all[2]) /\ Moves(s.all[2]) = {}
    BY DEF InOne
<1>4. n >= 3 => Proper(s.all[3]) /\ Moves(s.all[3]) = {}
    <2>1. n >= 3 => 3 \in 1..n
        BY <1>1
    <2> QED BY <2>1 DEF InOne
<1>5. e1 # Refused => Typed(e1) /\ Kept(db, e1, {})
    BY <1>2, OneIs
<1>6. n >= 2 /\ e2 # Refused => e1 # Refused /\ Typed(e2) /\ Kept(e1, e2, {})
    <2> HIDE DEF e1
    <2> QED BY <1>3, <1>5, OneIs
<1>7. n >= 3 /\ e3 # Refused => e2 # Refused /\ Typed(e3) /\ Kept(e2, e3, {})
    <2> HIDE DEF n, e1, e2
    <2>1. n >= 3 => n >= 2
        BY <1>1
    <2> QED BY <2>1, <1>4, <1>6, OneIs
<1> HIDE DEF n, e1, e2, e3
<1>8. n >= 2 /\ e2 # Refused => Kept(db, e2, {} \cup {})
    BY <1>5, <1>6, KeptOn
<1>9. n >= 3 /\ e3 # Refused => Kept(db, e3, {} \cup {} \cup {})
    BY <1>1, <1>7, <1>8, KeptOn
<1> QED BY <1>1, <1>5, <1>6, <1>7, <1>8, <1>9

(* What takes effect is typed and its references hold.                     *)
LEMMA AfterIs ==
    ASSUME NEW s, Typed(db), (s.do # "tx" /\ Proper(s)) \/ InOne(s), After(s) # Refused
    PROVE  Typed(After(s)) /\ Valid(After(s)) /\ Kept(db, After(s), Moves(s))
<1>1. CASE s.do # "tx" /\ Proper(s)
    <2>1. /\ One(db, s) # Refused /\ Valid(One(db, s))
          /\ After(s) = One(db, s)
        BY <1>1 DEF After
    <2> QED BY <1>1, <2>1, OneIs
<1>2. CASE InOne(s)
    <2>1. s.do = "tx"
        BY <1>2 DEF InOne
    <2>2. /\ All(db, s.all) # Refused /\ Valid(All(db, s.all))
          /\ After(s) = All(db, s.all)
        BY <2>1 DEF After
    <2>3. Moves(s) = {}
        BY <2>1 DEF Moves
    <2> QED BY <1>2, <2>2, <2>3, AllKeeps
<1> QED BY <1>1, <1>2

AddsLinks(s) == s.do \in {"upsert", "createMany"}

(* The customers that a statement may make someone reach.                  *)
Brings(s) ==
    {c \in Customer :
        \/ AddsLinks(s) /\ \E w \in Warehouse : <<w, c>> \in s.links
        \/ s.do = "insert" /\ s.of \in Warehouse /\ s.row.customer = c
        \/ /\ s.do = "change" /\ s.of \in Warehouse
           /\ "customer" \in DOMAIN s.fields /\ s.fields["customer"] = c}

-----------------------------------------------------------------------------
(* A row, a link, a customer in reach or an account: what a statement      *)
(* brings.                                                                 *)
LEMMA RanArrives ==
    ASSUME NEW d, NEW s, Typed(d), Proper(s), Ran(d, s) # Refused,
           NEW x \in Id, There(Ran(d, s).rows[x]), ~There(d.rows[x])
    PROVE  s.do = "insert" /\ s.of = x /\ Ran(d, s).rows[x] = s.row
<1> DEFINE e == Ran(d, s)
<1>1. Shaped(d) /\ d.rows[x] \in {Absent, Gone}
    BY Values DEF Typed
<1>2. CASE s.do = "insert"
    <2>1. \A y \in Id : e.rows[y] = IF y = s.of THEN s.row ELSE d.rows[y]
        BY <1>1, <1>2, RanInsert DEF Proper
    <2> QED BY <1>2, <2>1
<1>3. CASE s.do = "change"
    <2>1. There(d.rows[s.of])
          /\ \A y \in Id : e.rows[y] = IF y = s.of THEN With(d.rows[y], s.fields) ELSE d.rows[y]
        BY <1>1, <1>3, RanChange DEF Proper
    <2> QED BY <2>1
<1>4. CASE s.do = "erase"
    <2>1. \A y \in Id : e.rows[y] = IF y = s.of THEN Gone
                                    ELSE Without(d, s.of, d.rows[y], y)
        BY <1>1, <1>4, RanErase DEF Proper
    <2> QED BY <1>1, <2>1, WithoutEnds, Values
<1>5. CASE s.do = "eraseAll"
    <2>1. \A y \in Id : \/ e.rows[y] = d.rows[y]
                        \/ y \in s.in /\ There(d.rows[y]) /\ e.rows[y] = Gone
        BY <1>1, <1>5, RanEraseAll
    <2> QED BY <2>1
<1>6. CASE s.do \in {"upsert", "createMany", "off", "unlink"}
    BY <1>1, <1>6, RanLinks
<1> QED BY <1>2, <1>3, <1>4, <1>5, <1>6 DEF Proper

LEMMA RanLinked ==
    ASSUME NEW d, NEW s, Typed(d), Proper(s), Ran(d, s) # Refused
    PROVE  /\ \A l \in Ran(d, s).links : l \in d.links \/ (AddsLinks(s) /\ l \in s.links)
           /\ \A l \in Ran(d, s).on : l \in d.on \/ (AddsLinks(s) /\ l \in s.links)
<1> DEFINE e == Ran(d, s)
<1>1. Shaped(d)
    BY DEF Typed
<1>2. CASE s.do = "insert"
    <2>1. e.links = d.links /\ e.on = d.on
        BY <1>1, <1>2, RanInsert DEF Proper
    <2> QED BY <2>1
<1>3. CASE s.do = "change"
    <2>1. e.links = d.links /\ e.on = d.on
        BY <1>1, <1>3, RanChange DEF Proper
    <2> QED BY <2>1
<1>4. CASE s.do = "erase"
    <2>1. \E gone \in SUBSET d.links : e.links = d.links \ gone /\ e.on = d.on \ gone
        BY <1>1, <1>4, RanErase DEF Proper
    <2> QED BY <2>1
<1>5. CASE s.do = "eraseAll"
    <2>1. e.links = d.links /\ e.on = d.on
        BY <1>1, <1>5, RanEraseAll
    <2> QED BY <2>1
<1>6. CASE s.do \in {"upsert", "createMany"}
    <2>1. e.links = d.links \cup s.links /\ e.on = d.on \cup s.links
        BY <1>1, <1>6, RanLinks
    <2> QED BY <1>6, <2>1 DEF AddsLinks
<1>7. CASE s.do \in {"off", "unlink"}
    <2>1. \E gone \in SUBSET d.links :
             /\ e.links = d.links \/ e.links = d.links \ gone
             /\ e.on = d.on \ gone
        BY <1>1, <1>7, RanLinks
    <2> QED BY <2>1
<1> QED BY <1>2, <1>3, <1>4, <1>5, <1>6, <1>7 DEF Proper

LEMMA RanBrings ==
    ASSUME NEW d, NEW s, Typed(d), Proper(s), Ran(d, s) # Refused,
           NEW w \in Warehouse, NEW c \in Customer,
           There(Ran(d, s).rows[w]), Ran(d, s).rows[w].customer = c
    PROVE  (There(d.rows[w]) /\ d.rows[w].customer = c) \/ c \in Brings(s)
<1> DEFINE e == Ran(d, s)
<1>1. Shaped(d) /\ w \in Id /\ c \in Id
    BY DEF Typed, Id
<1>2. CASE ~There(d.rows[w])
    BY <1>1, <1>2, RanArrives DEF Brings
<1>3. CASE There(d.rows[w])
    <2>1. Held(w, d.rows[w])
        BY <1>1, <1>3, Values DEF Typed
    <2>2. "customer" \in DOMAIN d.rows[w]
        BY <2>1 DEF Held, Needed
    <2>3. CASE s.do = "insert"
        <3>1. e.rows[w] = d.rows[w]
            BY <1>1, <1>3, <2>3, RanInsert, Values DEF Proper
        <3> QED BY <1>3, <3>1
    <2>4. CASE s.do = "change"
        <3>1. \A y \in Id : e.rows[y] = IF y = s.of THEN With(d.rows[y], s.fields)
                                        ELSE d.rows[y]
            BY <1>1, <2>4, RanChange DEF Proper
        <3>2. CASE s.of = w /\ "customer" \in DOMAIN s.fields
            <4>1. e.rows[w]["customer"] = s.fields["customer"]
                BY <1>1, <3>1, <3>2 DEF With
            <4> QED BY <2>4, <3>2, <4>1 DEF Brings
        <3>3. CASE s.of = w /\ "customer" \notin DOMAIN s.fields
            <4>1. e.rows[w]["customer"] = d.rows[w]["customer"]
                BY <1>1, <2>2, <3>1, <3>3 DEF With
            <4> QED BY <1>3, <4>1
        <3>4. CASE s.of # w
            BY <1>1, <1>3, <3>1, <3>4
        <3> QED BY <3>2, <3>3, <3>4
    <2>5. CASE s.do = "erase"
        <3>1. \A y \in Id : e.rows[y] = IF y = s.of THEN Gone
                                        ELSE Without(d, s.of, d.rows[y], y)
            BY <1>1, <2>5, RanErase DEF Proper
        <3>2. e.rows[w] = Without(d, s.of, d.rows[w], w)
            BY <1>1, <3>1, Values
        <3>3. e.rows[w]["customer"] \in {d.rows[w]["customer"], None}
            BY <2>2, <3>2 DEF Without
        <3>4. c # None
            BY <1>1, Values
        <3> QED BY <1>3, <3>3, <3>4
    <2>6. CASE s.do = "eraseAll"
        <3>1. \A y \in Id : \/ e.rows[y] = d.rows[y]
                            \/ y \in s.in /\ There(d.rows[y]) /\ e.rows[y] = Gone
            BY <1>1, <2>6, RanEraseAll
        <3> QED BY <1>1, <1>3, <3>1, Values
    <2>7. CASE s.do \in {"upsert", "createMany", "off", "unlink"}
        BY <1>1, <1>3, <2>7, RanLinks
    <2> QED BY <2>3, <2>4, <2>5, <2>6, <2>7 DEF Proper
<1> QED BY <1>2, <1>3

LEMMA RanAccounts ==
    ASSUME NEW d, NEW s, Typed(d), Proper(s), Ran(d, s) # Refused,
           NEW u \in PlatformUser, d.rows[u].active = TRUE, ~(s.do = "change" /\ s.of = u)
    PROVE  Ran(d, s).rows[u].active = TRUE
<1> DEFINE e == Ran(d, s)
<1>1. Shaped(d) /\ u \in Id /\ There(d.rows[u]) /\ Held(u, d.rows[u])
    BY Values DEF Typed, Id, There
<1>2. CASE s.do = "insert"
    <2>1. e.rows[u] = d.rows[u]
        BY <1>1, <1>2, RanInsert, Values DEF Proper
    <2> QED BY <2>1
<1>3. CASE s.do = "change"
    <2>1. e.rows[u] = d.rows[u]
        BY <1>1, <1>3, RanChange DEF Proper
    <2> QED BY <2>1
<1>4. CASE s.do = "erase"
    <2>1. s.of # u
        BY <1>4 DEF Proper
    <2>2. e.rows[u] = Without(d, s.of, d.rows[u], u)
        BY <1>1, <1>4, <2>1, RanErase DEF Proper
    <2>3. "active" \in DOMAIN d.rows[u]
        BY <1>1 DEF Held, Needed
    <2>4. "active" \notin DOMAIN Target
        BY DEF Target
    <2>5. e.rows[u]["active"] = d.rows[u]["active"]
        BY <2>2, <2>3, <2>4, WithoutIs
    <2> QED BY <2>5
<1>5. CASE s.do = "eraseAll"
    <2>1. u \notin s.in
        BY <1>5, Apart DEF Proper
    <2>2. e.rows[u] = d.rows[u]
        BY <1>1, <1>5, <2>1, RanEraseAll
    <2> QED BY <2>2
<1>6. CASE s.do \in {"upsert", "createMany", "off", "unlink"}
    BY <1>1, <1>6, RanLinks
<1> QED BY <1>2, <1>3, <1>4, <1>5, <1>6 DEF Proper

Calm(s) ==
    /\ ~(s.do = "insert" /\ s.of \in Warehouse \cup Zone \cup Bin \cup PlatformUser)
    /\ ~(s.do = "change" /\ s.of \in PlatformUser)
    /\ Brings(s) = {}

(* The rows after each statement of a transaction.                         *)
Runs(s, e1, e2, e3) ==
    LET n == Len(s.all)
    IN  /\ e1 # Refused /\ Typed(e1) /\ e1 = Ran(db, s.all[1]) /\ Proper(s.all[1])
        /\ e2 # Refused /\ Typed(e2)
        /\ \/ n = 1 /\ e2 = e1
           \/ n \in 2..3 /\ e2 = Ran(e1, s.all[2]) /\ Proper(s.all[2])
        /\ e3 # Refused /\ Typed(e3)
        /\ \/ n \in 1..2 /\ e3 = e2
           \/ n = 3 /\ e3 = Ran(e2, s.all[3]) /\ Proper(s.all[3])
        /\ All(db, s.all) = e3

(* The same of a transaction.                                              *)
LEMMA Chain ==
    ASSUME NEW s, Typed(db), InOne(s), All(db, s.all) # Refused
    PROVE  \E e1, e2, e3 : Runs(s, e1, e2, e3)
<1> DEFINE n == Len(s.all)
           o1 == One(db, s.all[1])
           o2 == One(o1, s.all[2])
           o3 == One(o2, s.all[3])
<1>1. /\ n \in 1..3
      /\ n = 1 => All(db, s.all) = o1
      /\ n = 2 => All(db, s.all) = o2
      /\ n = 3 => All(db, s.all) = o3
    BY AllIs DEF InOne
<1>2. Proper(s.all[1])
    BY DEF InOne
<1>3. n >= 2 => Proper(s.all[2])
    BY DEF InOne
<1>4. n >= 3 => Proper(s.all[3])
    <2>1. n >= 3 => 3 \in 1..n
        BY <1>1
    <2> QED BY <2>1 DEF InOne
<1>5. o1 # Refused => Typed(o1) /\ o1 = Ran(db, s.all[1])
    BY <1>2, OneIs
<1>6. n >= 2 /\ o2 # Refused => o1 # Refused /\ Typed(o2) /\ o2 = Ran(o1, s.all[2])
    <2> HIDE DEF o1
    <2> QED BY <1>3, <1>5, OneIs
<1>7. n >= 3 /\ o3 # Refused => o2 # Refused /\ Typed(o3) /\ o3 = Ran(o2, s.all[3])
    <2> HIDE DEF n, o1, o2
    <2>1. n >= 3 => n >= 2
        BY <1>1
    <2> QED BY <2>1, <1>4, <1>6, OneIs
<1> DEFINE m == n
<1>8. m = Len(s.all) /\ m = n
    OBVIOUS
<1> HIDE DEF n, m, o1, o2, o3
<1>9. CASE n = 1
    <2>1. Runs(s, o1, o1, o1)
        BY <1>1, <1>2, <1>5, <1>8, <1>9 DEF Runs
    <2> QED BY <2>1
<1>10. CASE n = 2
    <2>1. Runs(s, o1, o2, o2)
        BY <1>1, <1>2, <1>3, <1>5, <1>6, <1>8, <1>10 DEF Runs
    <2> QED BY <2>1
<1>11. CASE n = 3
    <2>1. Runs(s, o1, o2, o3)
        BY <1>1, <1>2, <1>3, <1>4, <1>5, <1>6, <1>7, <1>8, <1>11 DEF Runs
    <2> QED BY <2>1
<1> QED BY <1>1, <1>9, <1>10, <1>11

LEMMA AllArrives ==
    ASSUME NEW s, Typed(db), InOne(s), All(db, s.all) # Refused, NEW x \in Id,
           There(All(db, s.all).rows[x]), ~There(db.rows[x])
    PROVE  \E i \in 1..Len(s.all) : s.all[i].do = "insert" /\ s.all[i].of = x
<1>1. PICK e1, e2, e3 : Runs(s, e1, e2, e3)
    BY Chain
<1>2. There(e1.rows[x]) => s.all[1].do = "insert" /\ s.all[1].of = x
    BY <1>1, RanArrives DEF Runs
<1>3. There(e2.rows[x]) =>
          There(e1.rows[x]) \/ (Len(s.all) \in 2..3 /\ s.all[2].do = "insert" /\ s.all[2].of = x)
    BY <1>1, RanArrives DEF Runs
<1>4. There(e3.rows[x]) =>
          There(e2.rows[x]) \/ (Len(s.all) = 3 /\ s.all[3].do = "insert" /\ s.all[3].of = x)
    BY <1>1, RanArrives DEF Runs
<1>5. There(e3.rows[x]) /\ Len(s.all) \in 1..3
    BY <1>1 DEF Runs, InOne
<1> QED BY <1>2, <1>3, <1>4, <1>5

LEMMA AllLinked ==
    ASSUME NEW s, Typed(db), InOne(s), All(db, s.all) # Refused
    PROVE  LET e == All(db, s.all)
               adds(l) == \E i \in 1..Len(s.all) : AddsLinks(s.all[i]) /\ l \in s.all[i].links
           IN  /\ \A l \in e.links : l \in db.links \/ adds(l)
               /\ \A l \in e.on : l \in db.on \/ adds(l)
<1>1. PICK e1, e2, e3 : Runs(s, e1, e2, e3)
    BY Chain
<1> DEFINE adds(l) == \E i \in 1..Len(s.all) : AddsLinks(s.all[i]) /\ l \in s.all[i].links
<1>2. /\ \A l \in e1.links : l \in db.links \/ (AddsLinks(s.all[1]) /\ l \in s.all[1].links)
      /\ \A l \in e1.on : l \in db.on \/ (AddsLinks(s.all[1]) /\ l \in s.all[1].links)
    BY <1>1, RanLinked DEF Runs
<1>3. \/ e2 = e1
      \/ /\ Len(s.all) \in 2..3
         /\ \A l \in e2.links : l \in e1.links \/ (AddsLinks(s.all[2]) /\ l \in s.all[2].links)
         /\ \A l \in e2.on : l \in e1.on \/ (AddsLinks(s.all[2]) /\ l \in s.all[2].links)
    BY <1>1, RanLinked DEF Runs
<1>4. \/ e3 = e2
      \/ /\ Len(s.all) = 3
         /\ \A l \in e3.links : l \in e2.links \/ (AddsLinks(s.all[3]) /\ l \in s.all[3].links)
         /\ \A l \in e3.on : l \in e2.on \/ (AddsLinks(s.all[3]) /\ l \in s.all[3].links)
    BY <1>1, RanLinked DEF Runs
<1>5. All(db, s.all) = e3 /\ Len(s.all) \in 1..3
    BY <1>1 DEF Runs, InOne
<1>6. \A l \in e3.links : l \in db.links \/ adds(l)
    BY <1>2, <1>3, <1>4, <1>5
<1>7. \A l \in e3.on : l \in db.on \/ adds(l)
    BY <1>2, <1>3, <1>4, <1>5
<1> QED BY <1>5, <1>6, <1>7

LEMMA AllBrings ==
    ASSUME NEW s, Typed(db), InOne(s), All(db, s.all) # Refused,
           \A i \in 1..Len(s.all) : Calm(s.all[i]),
           NEW w \in Warehouse, NEW c \in Customer,
           There(All(db, s.all).rows[w]), All(db, s.all).rows[w].customer = c
    PROVE  There(db.rows[w]) /\ db.rows[w].customer = c
<1>1. PICK e1, e2, e3 : Runs(s, e1, e2, e3)
    BY Chain
<1> DEFINE has(e) == There(e.rows[w]) /\ e.rows[w].customer = c
<1>2. Len(s.all) \in 1..3 /\ has(e3)
    BY <1>1 DEF Runs, InOne
<1>3. /\ c \notin Brings(s.all[1])
      /\ Len(s.all) \in 2..3 => c \notin Brings(s.all[2])
      /\ Len(s.all) = 3 => c \notin Brings(s.all[3])
    <2>1. \A i \in 1..Len(s.all) : c \notin Brings(s.all[i])
        BY DEF Calm
    <2> QED BY <1>2, <2>1
<1>4. has(e3) => has(e2)
    BY <1>1, <1>3, RanBrings DEF Runs
<1>5. has(e2) => has(e1)
    BY <1>1, <1>3, RanBrings DEF Runs
<1>6. has(e1) => has(db)
    BY <1>1, <1>3, RanBrings DEF Runs
<1> QED BY <1>2, <1>4, <1>5, <1>6

LEMMA AllAccounts ==
    ASSUME NEW s, Typed(db), InOne(s), All(db, s.all) # Refused,
           \A i \in 1..Len(s.all) : Calm(s.all[i]),
           NEW u \in PlatformUser, db.rows[u].active = TRUE
    PROVE  All(db, s.all).rows[u].active = TRUE
<1>1. PICK e1, e2, e3 : Runs(s, e1, e2, e3)
    BY Chain
<1>2. Len(s.all) \in 1..3
    BY DEF InOne
<1>3. /\ ~(s.all[1].do = "change" /\ s.all[1].of = u)
      /\ Len(s.all) \in 2..3 => ~(s.all[2].do = "change" /\ s.all[2].of = u)
      /\ Len(s.all) = 3 => ~(s.all[3].do = "change" /\ s.all[3].of = u)
    BY <1>2 DEF Calm
<1>4. e1.rows[u].active = TRUE
    BY <1>1, <1>3, RanAccounts DEF Runs
<1>5. e2.rows[u].active = TRUE
    <2>1. CASE e2 = e1
        BY <1>4, <2>1
    <2>2. CASE Len(s.all) \in 2..3 /\ e2 = Ran(e1, s.all[2]) /\ Proper(s.all[2])
        BY <1>1, <1>3, <1>4, <2>2, RanAccounts DEF Runs
    <2> QED BY <1>1, <2>1, <2>2 DEF Runs
<1>6. e3.rows[u].active = TRUE
    <2>1. CASE e3 = e2
        BY <1>5, <2>1
    <2>2. CASE Len(s.all) = 3 /\ e3 = Ran(e2, s.all[3]) /\ Proper(s.all[3])
        BY <1>1, <1>3, <1>5, <2>2, RanAccounts DEF Runs
    <2> QED BY <1>1, <2>1, <2>2 DEF Runs
<1> QED BY <1>1, <1>6 DEF Runs

LEMMA AllInserted ==
    ASSUME NEW s, Typed(db), InOne(s), All(db, s.all) # Refused, s.all[1].do = "insert",
           s.all[1].of \in Product
    PROVE  LET row == All(db, s.all).rows[s.all[1].of]
           IN  row = Gone \/ (There(row) /\ row.customer = s.all[1].row.customer)
<1>1. PICK e1, e2, e3 : Runs(s, e1, e2, e3)
    BY Chain
<1> DEFINE p == s.all[1].of
<1>2. p \in Product /\ p \in Id
    BY DEF Id
<1>3. e1.rows[p] = s.all[1].row
    BY <1>1, <1>2, RanInsert DEF Runs, Typed
<1>4. Held(p, s.all[1].row)
    BY <1>1 DEF Runs, Proper
<1>5. There(e1.rows[p])
    BY <1>2, <1>3, <1>4, Values
<1>6. e2 = e1 \/ Kept(e1, e2, Moves(s.all[2]))
    BY <1>1, RanIs DEF Runs
<1>7. e3 = e2 \/ Kept(e2, e3, Moves(s.all[3]))
    BY <1>1, RanIs DEF Runs
<1> HIDE DEF p
<1>8. e2.rows[p] = Gone \/ (There(e2.rows[p]) /\ e2.rows[p].customer = e1.rows[p].customer)
    BY <1>2, <1>5, <1>6 DEF Kept, KeptRow
<1>9. e3.rows[p] = Gone \/ (There(e3.rows[p]) /\ e3.rows[p].customer = e1.rows[p].customer)
    BY <1>2, <1>7, <1>8 DEF Kept, KeptRow
<1>10. All(db, s.all) = e3
    BY <1>1 DEF Runs
<1> QED BY <1>3, <1>9, <1>10 DEF p

-----------------------------------------------------------------------------
(* The steps that a script may hold: checks, the sums of a summary, and    *)
(* statements, alone, in a transaction or in an array, none of which links *)
(* a supplier but a transaction that names the product first.              *)
Lone(s) == AddsLinks(s) => s.links \cap (Product \X Supplier) = {}
StepOK(s) ==
    \/ IsCheck(s) \/ s.do \in {"sum", "answer"}
    \/ Proper(s) /\ Lone(s)
    \/ InOne(s) /\ \A i \in 1..Len(s.all) : Calm(s.all[i])
    \/ s = [do |-> "batch", any |-> s.any] /\ \A e \in s.any : Proper(e) /\ Lone(e) /\ Calm(e)

(* Skipped, with the tables F that change as an argument.                  *)
Skips(F, scope, s) ==
    \/ IsCheck(s) /\ \A x \in Reads(s) : \A t \in F : x \notin t
    \/ scope = None /\ IsScope(s)

(* A request in flight: its last step is no check.                         *)
Formed(q) ==
    LET n == Len(q.todo)
    IN  /\ q = [todo |-> q.todo, scope |-> q.scope, raced |-> q.raced, wrote |-> q.wrote,
                sums |-> q.sums, reach |-> q.reach]
        /\ IsSeq(q.todo) /\ n \in Nat \ {0} /\ ~IsCheck(q.todo[n])
        /\ q.raced \in BOOLEAN /\ q.wrote \in BOOLEAN /\ q.reach \subseteq Customer
        /\ \A i \in 1..n : StepOK(q.todo[i])

(* A zone or bin that is written below a place: that place was found in    *)
(* the same warehouse and has stayed there, or will be looked up.          *)
Up(s) == IF s.of \in Zone THEN s.row.area ELSE s.row.zone
Nests(s) == s.do = "insert" /\ s.of \in Zone \cup Bin /\ Up(s) # None
UpCheck(s) ==
    [do |-> "within", of |-> Up(s), field |-> "warehouse", to |-> s.row.warehouse]
Housed(d, m, s) ==
    \/ Up(s) \in m \/ d.rows[Up(s)] = Gone
    \/ There(d.rows[Up(s)]) /\ d.rows[Up(s)].warehouse = s.row.warehouse
Houses(F, d, m, q) ==
    \A i \in 1..Len(q.todo) : Nests(q.todo[i]) =>
        /\ q.todo[i].row.warehouse # None
        /\ \/ Housed(d, m, q.todo[i])
           \/ \E j \in 1..(i - 1) :
                 q.todo[j] = UpCheck(q.todo[i]) /\ ~Skips(F, q.scope, q.todo[j])

(* A supplier that is linked to a product: it was found to be one of its   *)
(* customer, or will be looked up.                                         *)
Supplies(s, p, v) ==
    s.do = "tx" /\ \E j \in 1..Len(s.all) : AddsLinks(s.all[j]) /\ <<p, v>> \in s.all[j].links
Made(s) == s.all[1].do = "insert"
Named(d, s, p) ==
    /\ s.all[1].of = p /\ s.all[1].do \in {"insert", "change"}
    /\ ~Made(s) => d.rows[p] # Absent
Owned(d, s, p, v) ==
    \/ d.rows[v] = Gone
    \/ /\ There(d.rows[v])
       /\ Made(s) => d.rows[v].customer = s.all[1].row.customer
       /\ ~Made(s) => \/ d.rows[p] = Gone
                      \/ There(d.rows[p]) /\ d.rows[v].customer = d.rows[p].customer
Vouches(c, s, p, v) ==
    /\ c.do = "allOf" /\ v \in c.of
    /\ Made(s) => c.as = s.all[1].row.customer /\ c.as \in Customer
    /\ ~Made(s) => c.as = p
Suits(F, d, q) ==
    \A i \in 1..Len(q.todo) : \A p \in Product, v \in Supplier : Supplies(q.todo[i], p, v) =>
        /\ Named(d, q.todo[i], p)
        /\ \/ Owned(d, q.todo[i], p, v)
           \/ \E j \in 1..(i - 1) :
                 Vouches(q.todo[j], q.todo[i], p, v) /\ ~Skips(F, q.scope, q.todo[j])

(* A customer that is assigned to a warehouse: the user reaches it, or     *)
(* will be asked to.                                                       *)
ReachOf(d, S) ==
    {c \in Customer : \E w \in S :
        (There(d.rows[w]) /\ d.rows[w].customer = c) \/ <<w, c>> \in d.on}
CustomerCheck(c) == [do |-> "scope", of |-> "customer", in |-> c]
Reaches(F, d, q) ==
    q.scope # None /\ ~q.raced =>
        /\ q.scope.warehouses \subseteq Warehouse
        /\ ReachOf(d, q.scope.warehouses) \subseteq q.reach
        /\ \A i \in 1..Len(q.todo) : \A c \in Brings(q.todo[i]) :
              \/ c \in q.reach
              \/ \E j \in 1..(i - 1) :
                    q.todo[j] = CustomerCheck(c) /\ ~Skips(F, q.scope, q.todo[j])

(* A change of an account spares the account that asked.                   *)
Account(s) == s.do = "change" /\ s.of \in PlatformUser
Spared(d, s) ==
    \E u \in PlatformUser :
        d.rows[u].active = TRUE
        /\ (s.of = u => "active" \in DOMAIN s.fields /\ s.fields["active"] = TRUE)
Spares(d, q) ==
    \A i \in 1..Len(q.todo) : Account(q.todo[i]) =>
        /\ \A j \in 1..Len(q.todo) : j # i => IsCheck(q.todo[j])
        /\ ~q.raced => Spared(d, q.todo[i])

(* A summary ends with two sums and the answer.                            *)
LiveIn(d, t, c, scope) ==
    /\ There(d.rows[t]) /\ d.rows[t].customer = c /\ ~d.rows[t].deleted
    /\ scope # None => /\ d.rows[t].warehouse \in scope.warehouses
                       /\ scope.operator # None /\ d.rows[t].operator = scope.operator
Count(d, c, scope) == Cardinality({t \in Transaction : LiveIn(d, t, c, scope)})
Tallied(d, q) ==
    LET n == Len(q.todo)
        last == q.todo[n]
    IN  /\ IsSeq(q.sums)
        /\ \A i \in 1..n : q.todo[i].do = "answer" => i = n
        /\ \A i \in 1..n : q.todo[i].do = "sum" => last.do = "answer" /\ i >= n - 2
        /\ last.do # "answer" => Len(q.sums) = 0
        /\ last.do = "answer" =>
              /\ Len(q.sums) = IF n >= 3 THEN 0 ELSE 3 - n
              /\ \A i \in 1..(n - 1) : i < n - 2 => IsCheck(q.todo[i])
              /\ \A i \in 1..(n - 1) : i >= n - 2 => q.todo[i].do = "sum"
                                                     /\ q.todo[i].of = last.of
              /\ ~q.raced => \A i \in 1..Len(q.sums) : q.sums[i] = Count(d, last.of, q.scope)

(* What holds of a request in flight, and the inductive invariant.         *)
ReqInv(F, d, m, q) ==
    /\ Formed(q) /\ Houses(F, d, m, q) /\ Suits(F, d, q) /\ Reaches(F, d, q) /\ Spares(d, q)
    /\ Tallied(d, q)

IInv ==
    /\ focus \in Focus /\ left \in 0..MaxRequests /\ moved \subseteq Id
    /\ Typed(db) /\ Valid(db)
    /\ PlacedTogetherUnlessMoved /\ SuppliersAreOwn
    /\ req = [r \in Req |-> req[r]]
    /\ \A r \in Req : req[r] # Idle => ReqInv(focus, db, moved, req[r])

(* p is q some steps further on.                                           *)
Cut(F, q, p) ==
    /\ p.scope = q.scope /\ p.raced = q.raced /\ p.reach = q.reach
    /\ Len(p.todo) \in Nat \ {0} /\ IsSeq(p.todo)
    /\ \E k \in 2..Len(q.todo) :
          /\ Len(p.todo) = Len(q.todo) - k + 1
          /\ \A i \in 1..Len(p.todo) : p.todo[i] = q.todo[i + k - 1]
          /\ \A j \in 2..(k - 1) : Skips(F, q.scope, q.todo[j])

-----------------------------------------------------------------------------
(* A request some steps further on.                                        *)
LEMMA SkipsIs ==
    ASSUME NEW scope, NEW s
    PROVE  Skipped(scope, s) <=> Skips(focus, scope, s)
BY DEF Skipped, Skips, Settled

LEMMA TailIs ==
    ASSUME NEW t, IsSeq(t), Len(t) \in Nat \ {0}
    PROVE  /\ IsSeq(Tail(t)) /\ Len(Tail(t)) = Len(t) - 1 /\ Head(t) = t[1]
           /\ \A i \in 1..(Len(t) - 1) : Tail(t)[i] = t[i + 1]
<1> DEFINE S == {t[i] : i \in DOMAIN t}
<1>1. t \in Seq(S)
    BY DEF IsSeq
<1> HIDE DEF S
<1>2. t # <<>>
    BY <1>1
<1>3. Tail(t) \in Seq(S) /\ Len(Tail(t)) = Len(t) - 1 /\ Head(t) = t[1]
      /\ \A i \in 1..(Len(t) - 1) : Tail(t)[i] = t[i + 1]
    BY <1>1, <1>2
<1> QED BY <1>3, Sequences

LEMMA RestIs ==
    ASSUME NEW r \in Req, Formed(req[r]), Rest(r) # Idle
    PROVE  /\ Cut(focus, req[r], Rest(r))
           /\ Rest(r).sums = req[r].sums
           /\ \E w \in BOOLEAN : Rest(r) = Onward(req[r], Rest(r).todo, w)
<1> DEFINE q == req[r]
           n == Len(q.todo)
           rest == Tail(q.todo)
           todo == Pending(q.scope, rest)
           w == q.wrote \/ IsStatement(Head(q.todo))
<1>1. IsSeq(q.todo) /\ n \in Nat \ {0}
    BY DEF Formed
<1>2. todo # <<>> /\ Rest(r) = Onward(q, todo, w)
    BY DEF Rest
<1>3. IsSeq(rest) /\ Len(rest) = n - 1 /\ \A i \in 1..(n - 1) : rest[i] = q.todo[i + 1]
    BY <1>1, TailIs
<1>4. w \in BOOLEAN
    BY DEF Formed
<1> HIDE DEF n, rest, todo, w, q
<1>a. todo = Pending(q.scope, rest)
    BY DEF todo
<1>b. IsSeq(todo)
    BY <1>2, <1>3, <1>a, PendingIs
<1>5. PICK k \in 1..Len(rest) : From(q.scope, rest, todo, k)
    BY <1>2, <1>3, <1>a, PendingIs
<1>c. /\ Len(todo) = Len(rest) - k + 1
      /\ \A j \in 1..(k - 1) : Skipped(q.scope, rest[j])
      /\ \A i \in 1..Len(todo) : todo[i] = rest[i + k - 1]
    BY <1>5 DEF From
<1>6. /\ Rest(r).todo = todo /\ Rest(r).scope = q.scope /\ Rest(r).raced = q.raced
      /\ Rest(r).reach = q.reach /\ Rest(r).sums = q.sums
    BY <1>2 DEF Onward
<1>7. k + 1 \in 2..n /\ Len(todo) = n - (k + 1) + 1
    BY <1>1, <1>3, <1>5, <1>c
<1>8. \A i \in 1..Len(todo) : todo[i] = q.todo[i + (k + 1) - 1]
    <2> TAKE i \in 1..Len(todo)
    <2>1. i + k - 1 \in 1..(n - 1)
        BY <1>1, <1>3, <1>5, <1>c, <1>7
    <2>2. todo[i] = rest[i + k - 1] /\ rest[i + k - 1] = q.todo[(i + k - 1) + 1]
        BY <1>3, <1>5, <1>c, <2>1
    <2> QED BY <2>1, <2>2, <1>7
<1>9. \A j \in 2..((k + 1) - 1) : Skips(focus, q.scope, q.todo[j])
    <2> TAKE j \in 2..((k + 1) - 1)
    <2>1. j - 1 \in 1..(k - 1) /\ j - 1 \in 1..(n - 1) /\ (j - 1) + 1 = j
        BY <1>1, <1>3, <1>5, <1>c, <1>7
    <2>2. Skipped(q.scope, rest[j - 1])
        BY <1>5, <1>c, <2>1
    <2>3. rest[j - 1] = q.todo[j]
        BY <1>3, <2>1
    <2> QED BY <2>2, <2>3, SkipsIs
<1>10. Cut(focus, q, Rest(r))
    <2> DEFINE l == k + 1
    <2>1. /\ l \in 2..n /\ Len(todo) = n - l + 1
          /\ \A i \in 1..Len(todo) : todo[i] = q.todo[i + l - 1]
          /\ \A j \in 2..(l - 1) : Skips(focus, q.scope, q.todo[j])
        BY <1>7, <1>8, <1>9
    <2> HIDE DEF l
    <2>2. Len(todo) \in Nat \ {0}
        BY <1>1, <2>1
    <2> QED BY <1>b, <1>6, <2>1, <2>2 DEF Cut, n
<1> QED BY <1>2, <1>4, <1>6, <1>10 DEF q

(* Step e of q is step i of p; the steps before it were taken, skipped, or *)
(* come before it in p.                                                    *)
At(F, q, p, i, e) ==
    /\ e \in 2..Len(q.todo) /\ p.todo[i] = q.todo[e]
    /\ \A j \in 1..(e - 1) : \/ j = 1 \/ Skips(F, q.scope, q.todo[j])
                             \/ \E l \in 1..(i - 1) : p.todo[l] = q.todo[j]

(* A step still to come that is no check is still to come later on.        *)
LEMMA CutAt ==
    ASSUME NEW F, NEW q, NEW p, Cut(F, q, p), Len(q.todo) \in Nat, NEW i \in 1..Len(p.todo)
    PROVE  \E e \in 2..Len(q.todo) : At(F, q, p, i, e)
<1>1. PICK k \in 2..Len(q.todo) :
          /\ Len(p.todo) = Len(q.todo) - k + 1
          /\ \A l \in 1..Len(p.todo) : p.todo[l] = q.todo[l + k - 1]
          /\ \A j \in 2..(k - 1) : Skips(F, q.scope, q.todo[j])
    BY DEF Cut
<1> DEFINE e == i + k - 1
<1>2. e \in 2..Len(q.todo) /\ p.todo[i] = q.todo[e]
    BY <1>1
<1>3. ASSUME NEW j \in 1..(e - 1), j # 1, j >= k
      PROVE  \E l \in 1..(i - 1) : p.todo[l] = q.todo[j]
    <2> DEFINE l == j - k + 1
    <2>1. l \in 1..(i - 1) /\ l \in 1..Len(p.todo) /\ l + k - 1 = j
        BY <1>1, <1>3
    <2> QED BY <1>1, <2>1
<1>4. ASSUME NEW j \in 1..(e - 1), j # 1, ~(j >= k)
      PROVE  Skips(F, q.scope, q.todo[j])
    <2>1. j \in 2..(k - 1)
        BY <1>1, <1>4
    <2> QED BY <1>1, <2>1
<1>5. At(F, q, p, i, e)
    BY <1>2, <1>3, <1>4 DEF At
<1> QED BY <1>2, <1>5

(* Each part of the invariant, for what is left of a request.              *)
LEMMA HouseCut ==
    ASSUME NEW F, NEW d, NEW m, NEW q, NEW p, Cut(F, q, p), Len(q.todo) \in Nat,
           Houses(F, d, m, q),
           \A s : q.todo[1] = UpCheck(s) /\ s.row.warehouse # None => Housed(d, m, s)
    PROVE  Houses(F, d, m, p)
<1> SUFFICES ASSUME NEW i \in 1..Len(p.todo), Nests(p.todo[i])
             PROVE  /\ p.todo[i].row.warehouse # None
                    /\ \/ Housed(d, m, p.todo[i])
                       \/ \E j \in 1..(i - 1) :
                             p.todo[j] = UpCheck(p.todo[i]) /\ ~Skips(F, p.scope, p.todo[j])
    BY DEF Houses
<1>1. PICK e \in 2..Len(q.todo) : At(F, q, p, i, e)
    BY CutAt
<1>2. e \in 1..Len(q.todo) /\ p.todo[i] = q.todo[e] /\ p.scope = q.scope
    BY <1>1 DEF At, Cut
<1> DEFINE s == p.todo[i]
<1>3. /\ s.row.warehouse # None
      /\ \/ Housed(d, m, s)
         \/ \E j \in 1..(e - 1) : q.todo[j] = UpCheck(s) /\ ~Skips(F, q.scope, q.todo[j])
    BY <1>2 DEF Houses
<1> HIDE DEF s
<1>4. ASSUME NEW j \in 1..(e - 1), q.todo[j] = UpCheck(s), ~Skips(F, q.scope, q.todo[j])
      PROVE  \/ Housed(d, m, s)
             \/ \E l \in 1..(i - 1) : p.todo[l] = UpCheck(s) /\ ~Skips(F, p.scope, p.todo[l])
    <2>1. j = 1 \/ \E l \in 1..(i - 1) : p.todo[l] = q.todo[j]
        BY <1>1, <1>4 DEF At
    <2>2. CASE j = 1
        BY <1>3, <1>4, <2>2
    <2>3. CASE \E l \in 1..(i - 1) : p.todo[l] = q.todo[j]
        BY <1>2, <1>4, <2>3
    <2> QED BY <2>1, <2>2, <2>3
<1>5. /\ s.row.warehouse # None
      /\ \/ Housed(d, m, s)
         \/ \E j \in 1..(i - 1) : p.todo[j] = UpCheck(s) /\ ~Skips(F, p.scope, p.todo[j])
    BY <1>3, <1>4
<1> QED BY <1>5 DEF s

LEMMA SuitsCut ==
    ASSUME NEW F, NEW d, NEW q, NEW p, Cut(F, q, p), Len(q.todo) \in Nat, Suits(F, d, q),
           \A s : \A u \in Product, v \in Supplier :
               Vouches(q.todo[1], s, u, v) /\ Named(d, s, u) => Owned(d, s, u, v)
    PROVE  Suits(F, d, p)
<1> SUFFICES ASSUME NEW i \in 1..Len(p.todo), NEW u \in Product, NEW v \in Supplier,
                    Supplies(p.todo[i], u, v)
             PROVE  /\ Named(d, p.todo[i], u)
                    /\ \/ Owned(d, p.todo[i], u, v)
                       \/ \E j \in 1..(i - 1) :
                             Vouches(p.todo[j], p.todo[i], u, v) /\ ~Skips(F, p.scope, p.todo[j])
    BY DEF Suits
<1>1. PICK e \in 2..Len(q.todo) : At(F, q, p, i, e)
    BY CutAt
<1>2. e \in 1..Len(q.todo) /\ p.todo[i] = q.todo[e] /\ p.scope = q.scope
    BY <1>1 DEF At, Cut
<1> DEFINE s == p.todo[i]
<1>3. /\ Named(d, s, u)
      /\ \/ Owned(d, s, u, v)
         \/ \E j \in 1..(e - 1) :
               Vouches(q.todo[j], s, u, v) /\ ~Skips(F, q.scope, q.todo[j])
    BY <1>2 DEF Suits
<1> HIDE DEF s
<1>4. ASSUME NEW j \in 1..(e - 1), Vouches(q.todo[j], s, u, v), ~Skips(F, q.scope, q.todo[j])
      PROVE  \/ Owned(d, s, u, v)
             \/ \E l \in 1..(i - 1) :
                   Vouches(p.todo[l], s, u, v) /\ ~Skips(F, p.scope, p.todo[l])
    <2>1. j = 1 \/ \E l \in 1..(i - 1) : p.todo[l] = q.todo[j]
        BY <1>1, <1>4 DEF At
    <2>2. CASE j = 1
        BY <1>3, <1>4, <2>2
    <2>3. CASE \E l \in 1..(i - 1) : p.todo[l] = q.todo[j]
        BY <1>2, <1>4, <2>3
    <2> QED BY <2>1, <2>2, <2>3
<1>5. /\ Named(d, s, u)
      /\ \/ Owned(d, s, u, v)
         \/ \E j \in 1..(i - 1) :
               Vouches(p.todo[j], s, u, v) /\ ~Skips(F, p.scope, p.todo[j])
    BY <1>3, <1>4
<1> QED BY <1>5 DEF s

LEMMA ReachCut ==
    ASSUME NEW F, NEW d, NEW q, NEW p, Cut(F, q, p), Len(q.todo) \in Nat,
           q.scope # None /\ ~q.raced =>
              /\ q.scope.warehouses \subseteq Warehouse
              /\ ReachOf(d, q.scope.warehouses) \subseteq q.reach
              /\ \A i \in 1..Len(q.todo) : \A c \in Brings(q.todo[i]) :
                    \/ c \in q.reach
                    \/ \E j \in 1..(i - 1) :
                          q.todo[j] = CustomerCheck(c) /\ ~Skips(F, q.scope, q.todo[j])
              /\ \A c \in Customer : q.todo[1] = CustomerCheck(c) => c \in q.reach
    PROVE  Reaches(F, d, p)
<1> SUFFICES ASSUME q.scope # None, ~q.raced
             PROVE  /\ q.scope.warehouses \subseteq Warehouse
                    /\ ReachOf(d, q.scope.warehouses) \subseteq q.reach
                    /\ \A i \in 1..Len(p.todo) : \A c \in Brings(p.todo[i]) :
                          \/ c \in q.reach
                          \/ \E j \in 1..(i - 1) :
                                p.todo[j] = CustomerCheck(c) /\ ~Skips(F, q.scope, p.todo[j])
    BY DEF Reaches, Cut
<1>0. ASSUME NEW i \in 1..Len(p.todo), NEW c \in Brings(p.todo[i])
      PROVE  \/ c \in q.reach
             \/ \E j \in 1..(i - 1) :
                   p.todo[j] = CustomerCheck(c) /\ ~Skips(F, q.scope, p.todo[j])
    <2>1. PICK e \in 2..Len(q.todo) : At(F, q, p, i, e)
        BY CutAt
    <2>2. e \in 1..Len(q.todo) /\ p.todo[i] = q.todo[e] /\ c \in Customer
        BY <2>1 DEF At, Brings
    <2>3. \/ c \in q.reach
          \/ \E j \in 1..(e - 1) :
                q.todo[j] = CustomerCheck(c) /\ ~Skips(F, q.scope, q.todo[j])
        BY <1>0, <2>2
    <2>4. ASSUME NEW j \in 1..(e - 1), q.todo[j] = CustomerCheck(c),
                 ~Skips(F, q.scope, q.todo[j])
          PROVE  \/ c \in q.reach
                 \/ \E l \in 1..(i - 1) :
                       p.todo[l] = CustomerCheck(c) /\ ~Skips(F, q.scope, p.todo[l])
        <3>1. j = 1 \/ \E l \in 1..(i - 1) : p.todo[l] = q.todo[j]
            BY <2>1, <2>4 DEF At
        <3>2. CASE j = 1
            BY <2>2, <2>4, <3>2
        <3>3. CASE \E l \in 1..(i - 1) : p.todo[l] = q.todo[j]
            BY <2>4, <3>3
        <3> QED BY <3>1, <3>2, <3>3
    <2> QED BY <2>3, <2>4
<1> QED BY <1>0

LEMMA Kinds ==
    /\ \A F, scope, s : Skips(F, scope, s) => IsCheck(s)
    /\ \A s : IsCheck(s) => /\ s.do \notin {"sum", "answer", "batch"}
                            /\ ~IsStatement(s) /\ ~Account(s)
BY DEF Skips, IsScope, IsCheck, IsStatement, Account

LEMMA SparesCut ==
    ASSUME NEW F, NEW d, NEW e, NEW q, NEW p, Cut(F, q, p), Len(q.todo) \in Nat, Spares(d, q),
           d = e \/ ~IsCheck(q.todo[1])
    PROVE  Spares(e, p)
<1>1. PICK k \in 2..Len(q.todo) :
          /\ Len(p.todo) = Len(q.todo) - k + 1
          /\ \A l \in 1..Len(p.todo) : p.todo[l] = q.todo[l + k - 1]
    BY DEF Cut
<1>2. p.raced = q.raced
    BY DEF Cut
<1> SUFFICES ASSUME NEW i \in 1..Len(p.todo), Account(p.todo[i])
             PROVE  /\ \A j \in 1..Len(p.todo) : j # i => IsCheck(p.todo[j])
                    /\ ~p.raced => Spared(e, p.todo[i])
    BY DEF Spares
<1> DEFINE g == i + k - 1
<1>3. g \in 1..Len(q.todo) /\ g # 1 /\ 1 \in 1..Len(q.todo) /\ p.todo[i] = q.todo[g]
    BY <1>1
<1> HIDE DEF g
<1>4. /\ \A j \in 1..Len(q.todo) : j # g => IsCheck(q.todo[j])
      /\ ~q.raced => Spared(d, q.todo[g])
    BY <1>3 DEF Spares
<1>5. d = e
    BY <1>3, <1>4
<1>6. \A j \in 1..Len(p.todo) : j # i => IsCheck(p.todo[j])
    <2> SUFFICES ASSUME NEW j \in 1..Len(p.todo), j # i PROVE IsCheck(p.todo[j])
        OBVIOUS
    <2>1. j + k - 1 \in 1..Len(q.todo) /\ j + k - 1 # g /\ p.todo[j] = q.todo[j + k - 1]
        BY <1>1 DEF g
    <2> QED BY <1>4, <2>1
<1> QED BY <1>2, <1>3, <1>4, <1>5, <1>6

LEMMA TalliedCut ==
    ASSUME NEW F, NEW d, NEW e, NEW q, NEW p, Cut(F, q, p), Len(q.todo) \in Nat \ {0},
           Tallied(d, q), p.sums = q.sums,
           \/ IsCheck(q.todo[1]) /\ d = e
           \/ ~IsCheck(q.todo[1]) /\ q.todo[1].do \notin {"sum", "answer"}
    PROVE  Tallied(e, p)
<1> DEFINE n == Len(q.todo)
           last == q.todo[n]
<1>1. PICK k \in 2..n :
          /\ Len(p.todo) = n - k + 1
          /\ \A l \in 1..Len(p.todo) : p.todo[l] = q.todo[l + k - 1]
          /\ \A j \in 2..(k - 1) : Skips(F, q.scope, q.todo[j])
    BY DEF Cut
<1>2. p.raced = q.raced /\ p.scope = q.scope
    BY DEF Cut
<1> DEFINE m == Len(p.todo)
<1>3. /\ n \in Nat \ {0} /\ k \in 2..n /\ m = n - k + 1
      /\ IsSeq(q.sums) /\ p.sums = q.sums
      /\ \A i \in 1..n : q.todo[i].do = "answer" => i = n
      /\ \A i \in 1..n : q.todo[i].do = "sum" => last.do = "answer" /\ i >= n - 2
      /\ last.do # "answer" => Len(q.sums) = 0
      /\ last.do = "answer" =>
            /\ Len(q.sums) = IF n >= 3 THEN 0 ELSE 3 - n
            /\ \A i \in 1..(n - 1) : i < n - 2 => IsCheck(q.todo[i])
            /\ \A i \in 1..(n - 1) : i >= n - 2 => q.todo[i].do = "sum"
                                                   /\ q.todo[i].of = last.of
            /\ ~q.raced => \A i \in 1..Len(q.sums) : q.sums[i] = Count(d, last.of, q.scope)
    BY <1>1 DEF Tallied
<1>a. ASSUME NEW i \in 1..m
      PROVE  i + k - 1 \in 1..n /\ p.todo[i] = q.todo[i + k - 1] /\ (i < m => i + k - 1 < n)
    <2>1. n \in Nat \ {0} /\ k \in 2..n /\ m = n - k + 1 /\ i \in 1..Len(p.todo)
        BY <1>3
    <2>2. i + k - 1 \in 1..n /\ (i < m => i + k - 1 < n)
        BY <2>1
    <2> QED BY <1>1, <2>1, <2>2
<1>4. m \in 1..(n - 1) /\ p.todo[m] = last
    BY <1>1, <1>3
<1>5. last.do = "answer" => k <= n - 2
    <2> SUFFICES ASSUME last.do = "answer", k > n - 2 PROVE FALSE
        BY <1>3
    <2>1. ~(1 >= n - 2)
        <3>1. 1 \in 1..(n - 1)
            BY <1>3
        <3>2. 1 >= n - 2 => q.todo[1].do = "sum"
            BY <1>3, <3>1
        <3>3. q.todo[1].do # "sum"
            BY Kinds
        <3> QED BY <3>2, <3>3
    <2>2. n - 2 \in 2..(k - 1) /\ n - 2 \in 1..(n - 1) /\ n - 2 >= n - 2
        BY <1>3, <2>1
    <2>3. q.todo[n - 2].do = "sum" /\ IsCheck(q.todo[n - 2])
        BY <1>1, <1>3, <2>2, Kinds
    <2> QED BY <2>3, Kinds
<1>6. last.do = "answer" => d = e
    <2> SUFFICES ASSUME last.do = "answer", ~IsCheck(q.todo[1]) PROVE FALSE
        OBVIOUS
    <2>1. 1 \in 1..(n - 1) /\ 1 < n - 2
        BY <1>3, <1>5
    <2> QED BY <1>3, <2>1
<1>7. \A i \in 1..m : p.todo[i].do = "answer" => i = m
    <2> SUFFICES ASSUME NEW i \in 1..m, p.todo[i].do = "answer" PROVE i = m
        OBVIOUS
    <2>1. i + k - 1 \in 1..n /\ p.todo[i] = q.todo[i + k - 1]
        BY <1>a
    <2>2. i + k - 1 = n
        BY <1>3, <2>1
    <2> QED BY <1>3, <2>2
<1>8. \A i \in 1..m : p.todo[i].do = "sum" => last.do = "answer" /\ i >= m - 2
    <2> SUFFICES ASSUME NEW i \in 1..m, p.todo[i].do = "sum"
                 PROVE  last.do = "answer" /\ i >= m - 2
        OBVIOUS
    <2>1. i + k - 1 \in 1..n /\ p.todo[i] = q.todo[i + k - 1]
        BY <1>a
    <2>2. last.do = "answer" /\ i + k - 1 >= n - 2
        BY <1>3, <2>1
    <2> QED BY <1>3, <2>2
<1>9. last.do = "answer" =>
          /\ \A i \in 1..(m - 1) : i < m - 2 => IsCheck(p.todo[i])
          /\ \A i \in 1..(m - 1) : i >= m - 2 => p.todo[i].do = "sum" /\ p.todo[i].of = last.of
    <2> SUFFICES ASSUME last.do = "answer", NEW i \in 1..(m - 1)
                 PROVE  /\ i < m - 2 => IsCheck(p.todo[i])
                        /\ i >= m - 2 => p.todo[i].do = "sum" /\ p.todo[i].of = last.of
        OBVIOUS
    <2> DEFINE g == i + k - 1
    <2>0. i \in 1..m /\ i < m
        BY <1>4
    <2>1. g \in 1..n /\ g < n /\ p.todo[i] = q.todo[g]
        BY <1>a, <2>0
    <2>3. g \in 1..(n - 1)
        BY <1>3, <2>1
    <2>2. (i < m - 2 <=> g < n - 2) /\ (i >= m - 2 <=> g >= n - 2)
        BY <1>3
    <2> HIDE DEF g
    <2> QED BY <1>3, <2>1, <2>2, <2>3
<1>10. last.do = "answer" => m >= 3 /\ n >= 3
    BY <1>3, <1>5
<1> HIDE DEF m, last, n
<1>11. /\ IsSeq(p.sums)
       /\ last.do # "answer" => Len(p.sums) = 0
       /\ last.do = "answer" =>
             /\ Len(p.sums) = IF m >= 3 THEN 0 ELSE 3 - m
             /\ ~p.raced => \A i \in 1..Len(p.sums) : p.sums[i] = Count(e, last.of, p.scope)
    BY <1>2, <1>3, <1>6, <1>10
<1>12. p.todo[Len(p.todo)] = last /\ m = Len(p.todo)
    BY <1>4 DEF m
<1> QED BY <1>7, <1>8, <1>9, <1>11, <1>12 DEF Tallied

LEMMA FormedCut ==
    ASSUME NEW F, NEW q, NEW p, Formed(q), Cut(F, q, p), NEW w \in BOOLEAN,
           p = Onward(q, p.todo, w)
    PROVE  Formed(p)
<1> DEFINE n == Len(q.todo)
           m == Len(p.todo)
<1>1. /\ IsSeq(p.todo) /\ m \in Nat \ {0} /\ n \in Nat \ {0}
      /\ p.raced = q.raced /\ p.reach = q.reach
    BY DEF Cut, Formed
<1>2. PICK k \in 2..n :
          /\ m = n - k + 1
          /\ \A l \in 1..m : p.todo[l] = q.todo[l + k - 1]
    BY DEF Cut
<1>3. p = [todo |-> p.todo, scope |-> p.scope, raced |-> p.raced, wrote |-> p.wrote,
           sums |-> p.sums, reach |-> p.reach]
      /\ p.wrote = w
    <2> DEFINE todo == p.todo
    <2>1. p = [todo |-> todo, scope |-> q.scope, raced |-> q.raced, wrote |-> w, sums |-> q.sums,
               reach |-> q.reach]
        BY DEF Onward
    <2> HIDE DEF todo
    <2> QED BY <2>1
<1>4. ASSUME NEW i \in 1..m PROVE StepOK(p.todo[i])
    <2>1. i + k - 1 \in 1..n
        BY <1>1, <1>2
    <2>2. p.todo[i] = q.todo[i + k - 1]
        BY <1>2
    <2> QED BY <2>1, <2>2 DEF Formed
<1>5. ~IsCheck(p.todo[m])
    <2>1. m \in Nat \ {0} /\ n \in Nat \ {0} /\ k \in Int /\ m = n - k + 1
        BY <1>1, <1>2
    <2> HIDE DEF m, n
    <2>2. m \in 1..m /\ m + k - 1 = n
        BY <2>1
    <2>3. p.todo[m] = q.todo[n]
        BY <1>2, <2>2
    <2> QED BY <2>3 DEF Formed, n
<1>6. q.raced \in BOOLEAN /\ q.reach \subseteq Customer
    BY DEF Formed
<1> QED BY <1>1, <1>3, <1>4, <1>5, <1>6 DEF Formed

(* What a check that passes has found.                                     *)
LEMMA HousedByCheck ==
    ASSUME NEW scope, NEW s, Passes(scope, UpCheck(s)), s.row.warehouse # None
    PROVE  Housed(db, moved, s)
<1> DEFINE c == UpCheck(s)
<1>1. c.do = "within" /\ c.of = Up(s) /\ c.field = "warehouse" /\ c.to = s.row.warehouse
    BY DEF UpCheck
<1> HIDE DEF c
<1>2. IsActive(c.of) /\ (c.to # None => Row(c.of)[c.field] = c.to)
    BY <1>1 DEF Passes, c
<1> QED BY <1>1, <1>2 DEF IsActive, Row, There, Housed

LEMMA OwnedByCheck ==
    ASSUME NEW scope, NEW c, Passes(scope, c), NEW s, NEW p \in Product, NEW v \in Supplier,
           Vouches(c, s, p, v), Named(db, s, p), Typed(db)
    PROVE  Owned(db, s, p, v)
<1>1. c.do = "allOf" /\ v \in c.of
    BY DEF Vouches
<1>2. \A x \in c.of : IsActive(x) /\ Row(x).customer = OwnerOf(c.as)
    BY <1>1 DEF Passes
<1>3. There(db.rows[v]) /\ db.rows[v].customer = OwnerOf(c.as)
    BY <1>1, <1>2 DEF IsActive, Row, There
<1>4. CASE Made(s)
    <2>1. c.as = s.all[1].row.customer /\ c.as \in Customer
        BY <1>4 DEF Vouches
    <2> QED BY <1>3, <1>4, <2>1 DEF OwnerOf, Owned
<1>5. CASE ~Made(s)
    <2>1. c.as = p /\ p \notin Customer /\ p \in Id
        BY <1>5, Apart DEF Vouches, Id
    <2>2. db.rows[p] # Absent
        BY <1>5 DEF Named
    <2>3. db.rows[p] = Gone \/ There(db.rows[p])
        BY <2>1, <2>2, Values DEF Typed
    <2>4. There(db.rows[p]) => OwnerOf(p) = db.rows[p].customer
        BY <2>1 DEF OwnerOf, Row
    <2> QED BY <1>3, <1>5, <2>1, <2>3, <2>4 DEF Owned
<1> QED BY <1>4, <1>5

LEMMA ReachedByCheck ==
    ASSUME NEW scope, scope # None, NEW c \in Customer, Passes(scope, CustomerCheck(c))
    PROVE  c \in ReachOf(db, scope.warehouses)
<1> DEFINE s == CustomerCheck(c)
<1>1. s.do = "scope" /\ s.of = "customer" /\ s.in = c
    BY DEF CustomerCheck
<1> HIDE DEF s
<1>2. InScope(scope, s)
    BY <1>1 DEF Passes, s
<1>3. c \in Reach(scope.warehouses)
    BY <1>1, <1>2 DEF InScope
<1> QED BY <1>3 DEF Reach, ReachOf, Row

(* The request that is left once a check has passed.                       *)
LEMMA PassedKeeps ==
    ASSUME NEW r \in Req, Typed(db), ReqInv(focus, db, moved, req[r]), IsCheck(Head(req[r].todo)),
           Passes(req[r].scope, Head(req[r].todo)), Rest(r) # Idle
    PROVE  ReqInv(focus, db, moved, Rest(r))
<1> DEFINE q == req[r]
           p == Rest(r)
<1>1. Formed(q) /\ Len(q.todo) \in Nat \ {0} /\ Len(q.todo) \in Nat /\ IsSeq(q.todo)
    BY DEF ReqInv, Formed
<1>2. Head(q.todo) = q.todo[1]
    BY <1>1, TailIs
<1>3. Cut(focus, q, p) /\ p.sums = q.sums /\ \E w \in BOOLEAN : p = Onward(q, p.todo, w)
    BY <1>1, RestIs
<1>4. IsCheck(q.todo[1]) /\ Passes(q.scope, q.todo[1])
    BY <1>2
<1>5. /\ Houses(focus, db, moved, q) /\ Suits(focus, db, q) /\ Reaches(focus, db, q)
      /\ Spares(db, q) /\ Tallied(db, q)
    BY DEF ReqInv
<1> HIDE DEF q, p
<1>6. Formed(p)
    BY <1>1, <1>3, FormedCut
<1>7. Houses(focus, db, moved, p)
    <2>1. \A s : q.todo[1] = UpCheck(s) /\ s.row.warehouse # None => Housed(db, moved, s)
        BY <1>4, HousedByCheck
    <2> QED BY <1>1, <1>3, <1>5, <2>1, HouseCut
<1>8. Suits(focus, db, p)
    <2>1. \A s : \A u \in Product, v \in Supplier :
             Vouches(q.todo[1], s, u, v) /\ Named(db, s, u) => Owned(db, s, u, v)
        BY <1>4, OwnedByCheck
    <2> QED BY <1>1, <1>3, <1>5, <2>1, SuitsCut
<1>9. Reaches(focus, db, p)
    <2>1. q.scope # None /\ ~q.raced =>
             /\ q.scope.warehouses \subseteq Warehouse
             /\ ReachOf(db, q.scope.warehouses) \subseteq q.reach
             /\ \A i \in 1..Len(q.todo) : \A c \in Brings(q.todo[i]) :
                   \/ c \in q.reach
                   \/ \E j \in 1..(i - 1) :
                         q.todo[j] = CustomerCheck(c) /\ ~Skips(focus, q.scope, q.todo[j])
        BY <1>5 DEF Reaches
    <2>2. q.scope # None =>
             \A c \in Customer : q.todo[1] = CustomerCheck(c) =>
                                     c \in ReachOf(db, q.scope.warehouses)
        BY <1>4, ReachedByCheck
    <2> QED BY <1>1, <1>3, <2>1, <2>2, ReachCut
<1>10. Spares(db, p)
    BY <1>1, <1>3, <1>5, SparesCut
<1>11. Tallied(db, p)
    BY <1>1, <1>3, <1>4, <1>5, TalliedCut
<1>12. ReqInv(focus, db, moved, p)
    BY <1>6, <1>7, <1>8, <1>9, <1>10, <1>11 DEF ReqInv
<1> QED BY <1>12 DEF p

(* A step of one request that writes nothing.                              *)
LEMMA RequestStep ==
    ASSUME IInv, NEW r \in Req, NEW next, req' = [req EXCEPT ![r] = next],
           next = Idle \/ ReqInv(focus, db, moved, next),
           left' \in 0..MaxRequests, UNCHANGED <<db, focus, moved>>
    PROVE  IInv'
<1>1. /\ focus \in Focus /\ moved \subseteq Id /\ Typed(db) /\ Valid(db)
      /\ PlacedTogetherUnlessMoved /\ SuppliersAreOwn
      /\ req = [q \in Req |-> req[q]]
      /\ \A q \in Req : req[q] # Idle => ReqInv(focus, db, moved, req[q])
    BY DEF IInv
<1>2. req' = [q \in Req |-> req'[q]]
      /\ \A q \in Req : req'[q] = IF q = r THEN next ELSE req[q]
    BY <1>1
<1>3. PlacedTogetherUnlessMoved'
    BY <1>1 DEF PlacedTogetherUnlessMoved, PlaceInParent, Row
<1>4. SuppliersAreOwn'
    BY <1>1 DEF SuppliersAreOwn, Row
<1>5. \A q \in Req : req'[q] # Idle => ReqInv(focus, db, moved, req'[q])
    BY <1>1, <1>2
<1>6. db' = db /\ focus' = focus /\ moved' = moved
    OBVIOUS
<1> QED BY <1>1, <1>2, <1>3, <1>4, <1>5, <1>6 DEF IInv

(* A check that passes, or that ends the request.                          *)
LEMMA CheckKeeps ==
    ASSUME IInv, NEW r \in Req, Check(r)
    PROVE  IInv'
<1>1. Typed(db) /\ ReqInv(focus, db, moved, req[r]) /\ left \in 0..MaxRequests
    BY DEF IInv, Check
<1> DEFINE next == IF Passes(req[r].scope, Head(req[r].todo)) THEN Rest(r) ELSE Idle
<1>2. /\ req' = [req EXCEPT ![r] = next] /\ IsCheck(Head(req[r].todo))
      /\ UNCHANGED <<db, focus, left, moved>>
    BY DEF Check
<1>3. next = Idle \/ ReqInv(focus, db, moved, next)
    BY <1>1, <1>2, PassedKeeps
<1> HIDE DEF next
<1> QED BY <1>1, <1>2, <1>3, RequestStep

(* A statement, or a transaction, as some step of a script has it.         *)
Sound(s) ==
    \/ Proper(s) /\ Lone(s)
    \/ InOne(s) /\ \A i \in 1..Len(s.all) : Calm(s.all[i])

Above(d, x) == IF x \in Zone THEN d.rows[x].area ELSE d.rows[x].zone
PlacedIn(d, m) ==
    \A x \in Zone \cup Bin : There(d.rows[x]) /\ x \notin m =>
        \/ Above(d, x) = None \/ Above(d, x) \in m
        \/ d.rows[Above(d, x)].warehouse = d.rows[x].warehouse
SuppliedIn(d) ==
    \A p \in Product, v \in Supplier :
        <<p, v>> \in d.links => d.rows[p].customer = d.rows[v].customer

-----------------------------------------------------------------------------
(* Statements that take effect: the places, the suppliers ...              *)
LEMMA StatedOver ==
    /\ PlacedTogetherUnlessMoved <=> PlacedIn(db, moved)
    /\ PlacedTogetherUnlessMoved' <=> PlacedIn(db', moved')
    /\ SuppliersAreOwn <=> SuppliedIn(db)
    /\ SuppliersAreOwn' <=> SuppliedIn(db')
<1>1. PlacedTogetherUnlessMoved <=> PlacedIn(db, moved)
    BY DEF PlacedTogetherUnlessMoved, PlaceInParent, Row, PlacedIn, Above
<1>2. PlacedTogetherUnlessMoved' <=> PlacedIn(db', moved')
    BY DEF PlacedTogetherUnlessMoved, PlaceInParent, Row, PlacedIn, Above
<1>3. SuppliersAreOwn <=> SuppliedIn(db)
    BY DEF SuppliersAreOwn, Row, SuppliedIn
<1>4. SuppliersAreOwn' <=> SuppliedIn(db')
    BY DEF SuppliersAreOwn, Row, SuppliedIn
<1> QED BY <1>1, <1>2, <1>3, <1>4

LEMMA AboveIs ==
    ASSUME NEW d, Typed(d), Valid(d), NEW x \in Zone \cup Bin, There(d.rows[x])
    PROVE  /\ x \in Id
           /\ \/ Above(d, x) = None
              \/ Above(d, x) \in Area \cup Zone /\ Above(d, x) \in Id
                 /\ There(d.rows[Above(d, x)])
<1>1. x \in Id /\ Held(x, d.rows[x]) /\ (x \in Bin => x \notin Zone)
    BY Values, Apart DEF Typed, Id
<1>2. ASSUME x \in Zone
      PROVE  /\ Above(d, x) = d.rows[x]["area"] /\ d.rows[x]["area"] \in Area \cup {None}
             /\ "area" \in Fields(d.rows[x])
    BY <1>1, <1>2 DEF Held, Fit, Needed, Fields, Target, Above
<1>3. ASSUME x \in Bin
      PROVE  /\ Above(d, x) = d.rows[x]["zone"] /\ d.rows[x]["zone"] \in Zone \cup {None}
             /\ "zone" \in Fields(d.rows[x])
    BY <1>1, <1>3 DEF Held, Fit, Needed, Fields, Target, Above
<1>4. \A f \in Fields(d.rows[x]) : d.rows[x][f] = None \/ There(d.rows[d.rows[x][f]])
    BY <1>1 DEF Valid
<1>5. Area \subseteq Id /\ Zone \subseteq Id
    BY DEF Id
<1> QED BY <1>1, <1>2, <1>3, <1>4, <1>5

LEMMA PlacedStays ==
    ASSUME NEW d, NEW e, NEW m, NEW S, Typed(d), Valid(d), Typed(e), Valid(e), Kept(d, e, S),
           PlacedIn(d, m),
           \A x \in Zone \cup Bin : There(e.rows[x]) /\ ~There(d.rows[x]) =>
               LET up == Above(e, x)
               IN  \/ up = None \/ up \in m \/ d.rows[up] = Gone
                   \/ There(d.rows[up]) /\ d.rows[up].warehouse = e.rows[x].warehouse
    PROVE  PlacedIn(e, m \cup S)
<1> SUFFICES ASSUME NEW x \in Zone \cup Bin, There(e.rows[x]), x \notin m, x \notin S,
                    Above(e, x) # None, Above(e, x) \notin m, Above(e, x) \notin S
             PROVE  e.rows[Above(e, x)].warehouse = e.rows[x].warehouse
    BY DEF PlacedIn
<1> DEFINE up == Above(e, x)
<1>1. x \in Id /\ up \in Area \cup Zone /\ up \in Id /\ There(e.rows[up])
    BY AboveIs
<1>2. KeptRow(x, d.rows[x], e.rows[x], S) /\ KeptRow(up, d.rows[up], e.rows[up], S)
    BY <1>1 DEF Kept
<1>3. There(d.rows[up]) => e.rows[up].warehouse = d.rows[up].warehouse
    BY <1>1, <1>2 DEF KeptRow
<1>4. d.rows[up] # Gone
    BY <1>1, <1>2, Values DEF KeptRow
<1>5. CASE ~There(d.rows[x])
    BY <1>3, <1>4, <1>5
<1>6. CASE There(d.rows[x])
    <2>1. e.rows[x].warehouse = d.rows[x].warehouse
        BY <1>2, <1>6 DEF KeptRow
    <2>2. up \in {Above(d, x), None}
        BY <1>2, <1>6 DEF KeptRow, Above
    <2>3. up = Above(d, x)
        BY <2>2
    <2>4. There(d.rows[up])
        BY <1>6, <2>3, AboveIs
    <2>5. d.rows[up].warehouse = d.rows[x].warehouse
        BY <1>6, <2>3 DEF PlacedIn
    <2> QED BY <1>3, <2>1, <2>4, <2>5
<1> QED BY <1>5, <1>6

LEMMA AfterForms ==
    ASSUME NEW s, Sound(s), After(s) # Refused
    PROVE  \/ /\ Proper(s) /\ s.do # "tx" /\ Lone(s)
              /\ db # Refused /\ After(s) = Ran(db, s) /\ Ran(db, s) # Refused
           \/ /\ InOne(s) /\ s.do = "tx" /\ \A i \in 1..Len(s.all) : Calm(s.all[i])
              /\ After(s) = All(db, s.all) /\ All(db, s.all) # Refused
<1>1. CASE Proper(s) /\ Lone(s)
    <2>1. s.do # "tx"
        BY <1>1 DEF Proper
    <2>2. One(db, s) # Refused /\ After(s) = One(db, s)
        BY <2>1 DEF After
    <2> QED BY <1>1, <2>1, <2>2 DEF One
<1>2. CASE InOne(s) /\ \A i \in 1..Len(s.all) : Calm(s.all[i])
    <2>1. s.do = "tx"
        BY <1>2 DEF InOne
    <2> QED BY <1>2, <2>1 DEF After
<1> QED BY <1>1, <1>2 DEF Sound

LEMMA Born ==
    ASSUME NEW s, Typed(db), Sound(s), After(s) # Refused, NEW x \in Zone \cup Bin,
           There(After(s).rows[x]), ~There(db.rows[x])
    PROVE  s.do = "insert" /\ s.of = x /\ After(s).rows[x] = s.row
<1>1. x \in Id
    BY DEF Id
<1>2. CASE Proper(s) /\ After(s) = Ran(db, s) /\ Ran(db, s) # Refused
    BY <1>1, <1>2, RanArrives
<1>3. CASE /\ InOne(s) /\ \A i \in 1..Len(s.all) : Calm(s.all[i])
           /\ After(s) = All(db, s.all) /\ All(db, s.all) # Refused
    <2>1. PICK i \in 1..Len(s.all) : s.all[i].do = "insert" /\ s.all[i].of = x
        BY <1>1, <1>3, AllArrives
    <2>2. Calm(s.all[i])
        BY <1>3
    <2> QED BY <2>1, <2>2 DEF Calm
<1> QED BY <1>2, <1>3, AfterForms

LEMMA Ends ==
    ASSUME NEW d, Valid(d), NEW p, NEW v, <<p, v>> \in d.links
    PROVE  There(d.rows[p]) /\ There(d.rows[v])
<1> DEFINE l == <<p, v>>
<1>1. DOMAIN l = {1, 2} /\ l[1] = p /\ l[2] = v
    OBVIOUS
<1> HIDE DEF l
<1>2. \A i \in DOMAIN l : There(d.rows[l[i]])
    BY DEF Valid, l
<1> QED BY <1>1, <1>2

LEMMA SuppliedStays ==
    ASSUME NEW d, NEW e, NEW S, Valid(d), Valid(e), Kept(d, e, S), SuppliedIn(d),
           \A p \in Product, v \in Supplier : <<p, v>> \in e.links =>
               <<p, v>> \in d.links \/ e.rows[p].customer = e.rows[v].customer
    PROVE  SuppliedIn(e)
<1> SUFFICES ASSUME NEW p \in Product, NEW v \in Supplier, <<p, v>> \in e.links,
                    <<p, v>> \in d.links
             PROVE  e.rows[p].customer = e.rows[v].customer
    BY DEF SuppliedIn
<1>1. There(d.rows[p]) /\ There(d.rows[v]) /\ There(e.rows[p]) /\ There(e.rows[v])
    BY Ends
<1>2. p \in Id /\ v \in Id
    BY DEF Id
<1>3. KeptRow(p, d.rows[p], e.rows[p], S) /\ KeptRow(v, d.rows[v], e.rows[v], S)
    BY <1>2 DEF Kept
<1>4. e.rows[p].customer = d.rows[p].customer /\ e.rows[v].customer = d.rows[v].customer
    BY <1>1, <1>3 DEF KeptRow
<1> QED BY <1>4 DEF SuppliedIn

LEMMA NewlySupplied ==
    ASSUME NEW s, Typed(db), Sound(s), After(s) # Refused, NEW p \in Product, NEW v \in Supplier,
           <<p, v>> \in After(s).links, <<p, v>> \notin db.links,
           Supplies(s, p, v) => Named(db, s, p) /\ Owned(db, s, p, v)
    PROVE  After(s).rows[p].customer = After(s).rows[v].customer
<1> DEFINE e == After(s)
<1>1. p \in Id /\ v \in Id
    BY DEF Id
<1>2. CASE /\ Proper(s) /\ Lone(s) /\ e = Ran(db, s) /\ Ran(db, s) # Refused
    <2>1. AddsLinks(s) /\ <<p, v>> \in s.links
        BY <1>2, RanLinked
    <2>2. <<p, v>> \in s.links \cap (Product \X Supplier)
        BY <2>1
    <2> QED BY <1>2, <2>1, <2>2 DEF Lone
<1>3. CASE /\ InOne(s) /\ s.do = "tx" /\ e = All(db, s.all) /\ All(db, s.all) # Refused
    <2>1. \E i \in 1..Len(s.all) : AddsLinks(s.all[i]) /\ <<p, v>> \in s.all[i].links
        BY <1>3, AllLinked
    <2>2. Named(db, s, p) /\ Owned(db, s, p, v)
        BY <1>3, <2>1 DEF Supplies
    <2>3. Valid(e) /\ Kept(db, e, Moves(s))
        BY <1>3, AfterIs
    <2>4. There(e.rows[p]) /\ There(e.rows[v])
        BY <2>3, Ends
    <2>5. /\ KeptRow(p, db.rows[p], e.rows[p], Moves(s))
          /\ KeptRow(v, db.rows[v], e.rows[v], Moves(s))
        BY <1>1, <2>3 DEF Kept
    <2>6. db.rows[p] # Gone /\ db.rows[v] # Gone
        BY <2>4, <2>5, Values DEF KeptRow
    <2>7. There(db.rows[v]) /\ e.rows[v].customer = db.rows[v].customer
        BY <2>2, <2>4, <2>5, <2>6 DEF Owned, KeptRow
    <2>8. CASE Made(s)
        <3>1. s.all[1].do = "insert" /\ s.all[1].of = p
            BY <2>2, <2>8 DEF Named, Made
        <3>2. e.rows[p].customer = s.all[1].row.customer
            BY <1>3, <2>4, <3>1, AllInserted, Values
        <3> QED BY <2>2, <2>6, <2>7, <2>8, <3>2 DEF Owned
    <2>9. CASE ~Made(s)
        <3>1. There(db.rows[p]) /\ db.rows[v].customer = db.rows[p].customer
            BY <2>2, <2>6, <2>9 DEF Owned
        <3>2. e.rows[p].customer = db.rows[p].customer
            BY <2>4, <2>5, <3>1 DEF KeptRow
        <3> QED BY <2>7, <3>1, <3>2
    <2> QED BY <2>8, <2>9
<1> QED BY <1>2, <1>3, AfterForms

(* ... and the other requests in flight.                                   *)
LEMMA NestsIs ==
    ASSUME NEW s, StepOK(s), Nests(s)
    PROVE  /\ Proper(s) /\ s.row.warehouse \in Warehouse \cup {None}
           /\ Up(s) \in Area \cup Zone /\ Up(s) \in Id
<1>1. s.do = "insert" /\ s.of \in Zone \cup Bin /\ Up(s) # None
    BY DEF Nests
<1>2. Proper(s)
    BY <1>1 DEF StepOK, IsCheck, InOne
<1>3. Held(s.of, s.row) /\ (s.of \in Bin => s.of \notin Zone)
    BY <1>1, <1>2, Apart DEF Proper
<1>4. s.of \in Zone => Up(s) = s.row["area"] /\ s.row["area"] \in Area \cup {None}
    BY <1>3 DEF Held, Fit, Needed, Target, Up
<1>5. s.of \in Bin => Up(s) = s.row["zone"] /\ s.row["zone"] \in Zone \cup {None}
    BY <1>3 DEF Held, Fit, Needed, Target, Up
<1>6. s.row["warehouse"] \in Warehouse \cup {None}
    BY <1>1, <1>3 DEF Held, Fit, Needed, Target
<1>7. Area \subseteq Id /\ Zone \subseteq Id
    BY DEF Id
<1> QED BY <1>1, <1>2, <1>4, <1>5, <1>6, <1>7

LEMMA HousedOn ==
    ASSUME NEW d, NEW e, NEW m, NEW S, Kept(d, e, S), NEW s, StepOK(s), Nests(s), Housed(d, m, s)
    PROVE  Housed(e, m \cup S, s)
<1> DEFINE up == Up(s)
<1>1. up \in Area \cup Zone /\ up \in Id
    BY NestsIs
<1>2. KeptRow(up, d.rows[up], e.rows[up], S)
    BY <1>1 DEF Kept
<1> HIDE DEF up
<1>3. d.rows[up] = Gone => e.rows[up] = Gone
    BY <1>2 DEF KeptRow
<1>4. There(d.rows[up]) /\ up \notin S =>
         \/ e.rows[up] = Gone
         \/ There(e.rows[up]) /\ e.rows[up].warehouse = d.rows[up].warehouse
    BY <1>1, <1>2 DEF KeptRow
<1>5. \/ up \in m \/ d.rows[up] = Gone
      \/ There(d.rows[up]) /\ d.rows[up].warehouse = s.row.warehouse
    BY DEF Housed, up
<1>6. \/ up \in m \cup S \/ e.rows[up] = Gone
      \/ There(e.rows[up]) /\ e.rows[up].warehouse = s.row.warehouse
    BY <1>3, <1>4, <1>5
<1> QED BY <1>6 DEF Housed, up

LEMMA HousesOn ==
    ASSUME NEW F, NEW d, NEW e, NEW m, NEW S, Kept(d, e, S), NEW q, Formed(q),
           Houses(F, d, m, q)
    PROVE  Houses(F, e, m \cup S, q)
<1>1. \A i \in 1..Len(q.todo) : StepOK(q.todo[i])
    BY DEF Formed
<1> QED BY <1>1, HousedOn DEF Houses

LEMMA OwnedOn ==
    ASSUME NEW d, NEW e, NEW S, Kept(d, e, S), NEW s, NEW p \in Product, NEW v \in Supplier
    PROVE  /\ Named(d, s, p) => Named(e, s, p)
           /\ Owned(d, s, p, v) => Owned(e, s, p, v)
<1>1. p \in Id /\ v \in Id
    BY DEF Id
<1>2. /\ KeptRow(p, d.rows[p], e.rows[p], S)
      /\ KeptRow(v, d.rows[v], e.rows[v], S)
    BY <1>1 DEF Kept
<1>3. Named(d, s, p) => Named(e, s, p)
    BY <1>2 DEF Named, KeptRow
<1>4. /\ d.rows[v] = Gone => e.rows[v] = Gone
      /\ There(d.rows[v]) => \/ e.rows[v] = Gone
                             \/ There(e.rows[v]) /\ e.rows[v].customer = d.rows[v].customer
    BY <1>2 DEF KeptRow
<1>5. /\ d.rows[p] = Gone => e.rows[p] = Gone
      /\ There(d.rows[p]) => \/ e.rows[p] = Gone
                             \/ There(e.rows[p]) /\ e.rows[p].customer = d.rows[p].customer
    BY <1>2 DEF KeptRow
<1>6. Owned(d, s, p, v) => Owned(e, s, p, v)
    BY <1>4, <1>5 DEF Owned
<1> QED BY <1>3, <1>6

LEMMA SuitsOn ==
    ASSUME NEW F, NEW d, NEW e, NEW S, Kept(d, e, S), NEW q, Suits(F, d, q)
    PROVE  Suits(F, e, q)
BY OwnedOn DEF Suits

LEMMA OthersKeep ==
    ASSUME NEW F, NEW d, NEW e, NEW m, NEW S, Kept(d, e, S), NEW q, ReqInv(F, d, m, q)
    PROVE  ReqInv(F, e, m \cup S, [q EXCEPT !.raced = TRUE])
<1> DEFINE p == [q EXCEPT !.raced = TRUE]
<1>1. /\ Formed(q) /\ Houses(F, e, m \cup S, q) /\ Suits(F, e, q) /\ Spares(d, q)
      /\ Tallied(d, q)
    BY HousesOn, SuitsOn DEF ReqInv
<1>2. /\ p = [todo |-> p.todo, scope |-> p.scope, raced |-> p.raced, wrote |-> p.wrote,
              sums |-> p.sums, reach |-> p.reach]
      /\ p.todo = q.todo /\ p.scope = q.scope /\ p.raced = TRUE /\ p.wrote = q.wrote
      /\ p.sums = q.sums /\ p.reach = q.reach
    <2>1. q = [todo |-> q.todo, scope |-> q.scope, raced |-> q.raced, wrote |-> q.wrote,
               sums |-> q.sums, reach |-> q.reach]
        BY <1>1 DEF Formed
    <2> DEFINE a == q.todo
               b == q.scope
               c == q.wrote
               f == q.sums
               g == q.reach
               h == q.raced
    <2>2. q = [todo |-> a, scope |-> b, raced |-> h, wrote |-> c, sums |-> f, reach |-> g]
        BY <2>1
    <2> HIDE DEF a, b, c, f, g, h
    <2>3. p = [todo |-> a, scope |-> b, raced |-> TRUE, wrote |-> c, sums |-> f, reach |-> g]
        <3> DEFINE x == [todo |-> a, scope |-> b, raced |-> h, wrote |-> c, sums |-> f,
                         reach |-> g]
        <3>1. \A t : [x EXCEPT !.raced = t] =
                 [todo |-> a, scope |-> b, raced |-> t, wrote |-> c, sums |-> f, reach |-> g]
            OBVIOUS
        <3>2. q = x
            BY <2>2
        <3> HIDE DEF x
        <3> QED BY <3>1, <3>2
    <2> HIDE DEF p
    <2> QED BY <2>3 DEF a, b, c, f, g
<1> HIDE DEF p
<1>3. Formed(p)
    BY <1>1, <1>2 DEF Formed
<1>4. Houses(F, e, m \cup S, p)
    BY <1>1, <1>2 DEF Houses
<1>5. Suits(F, e, p)
    BY <1>1, <1>2 DEF Suits
<1>6. Reaches(F, e, p)
    BY <1>2 DEF Reaches
<1>7. Spares(e, p)
    BY <1>1, <1>2 DEF Spares
<1>8. Tallied(e, p)
    BY <1>1, <1>2 DEF Tallied
<1>9. ReqInv(F, e, m \cup S, p)
    BY <1>3, <1>4, <1>5, <1>6, <1>7, <1>8 DEF ReqInv
<1> QED BY <1>9 DEF p

(* What a statement adds to the reach of a set of warehouses.              *)
LEMMA ReachAfter ==
    ASSUME NEW s, Typed(db), Sound(s), After(s) # Refused, NEW R, Brings(s) \subseteq R,
           NEW W \in SUBSET Warehouse, ReachOf(db, W) \subseteq R
    PROVE  ReachOf(After(s), W) \subseteq R
<1> DEFINE e == After(s)
<1> SUFFICES ASSUME NEW c \in Customer, NEW w \in W,
                    (There(e.rows[w]) /\ e.rows[w].customer = c) \/ <<w, c>> \in e.on
             PROVE  c \in R
    BY DEF ReachOf
<1>1. w \in Warehouse
    OBVIOUS
<1>2. (There(db.rows[w]) /\ db.rows[w].customer = c) \/ <<w, c>> \in db.on => c \in R
    BY DEF ReachOf
<1>3. CASE Proper(s) /\ e = Ran(db, s) /\ Ran(db, s) # Refused
    <2>1. There(e.rows[w]) /\ e.rows[w].customer = c =>
             (There(db.rows[w]) /\ db.rows[w].customer = c) \/ c \in Brings(s)
        BY <1>1, <1>3, RanBrings
    <2>2. <<w, c>> \in e.on => <<w, c>> \in db.on \/ (AddsLinks(s) /\ <<w, c>> \in s.links)
        BY <1>3, RanLinked
    <2>3. AddsLinks(s) /\ <<w, c>> \in s.links => c \in Brings(s)
        BY <1>1 DEF Brings
    <2> QED BY <1>2, <2>1, <2>2, <2>3
<1>4. CASE /\ InOne(s) /\ \A i \in 1..Len(s.all) : Calm(s.all[i])
           /\ e = All(db, s.all) /\ All(db, s.all) # Refused
    <2>1. There(e.rows[w]) /\ e.rows[w].customer = c =>
             There(db.rows[w]) /\ db.rows[w].customer = c
        BY <1>1, <1>4, AllBrings
    <2>2. <<w, c>> \in e.on =>
             \/ <<w, c>> \in db.on
             \/ \E i \in 1..Len(s.all) : AddsLinks(s.all[i]) /\ <<w, c>> \in s.all[i].links
        BY <1>4, AllLinked
    <2>3. ASSUME NEW i \in 1..Len(s.all), AddsLinks(s.all[i]), <<w, c>> \in s.all[i].links
          PROVE  FALSE
        <3>1. c \in Brings(s.all[i])
            BY <1>1, <2>3 DEF Brings
        <3>2. Calm(s.all[i])
            BY <1>4
        <3> QED BY <3>1, <3>2 DEF Calm
    <2> QED BY <1>2, <2>1, <2>2, <2>3
<1> QED BY <1>3, <1>4, AfterForms

(* A statement that takes effect.                                          *)
LEMMA SoundIs ==
    ASSUME NEW s, Typed(db), Sound(s), After(s) # Refused
    PROVE  /\ Typed(After(s)) /\ Valid(After(s)) /\ Kept(db, After(s), Moves(s))
           /\ Moves(s) \subseteq Id
<1>1. (s.do # "tx" /\ Proper(s)) \/ InOne(s)
    BY AfterForms
<1>2. Moves(s) \subseteq Id
    BY <1>1 DEF Moves, Proper, InOne
<1> QED BY <1>1, <1>2, AfterIs

(* A statement that keeps what its request has checked keeps the database  *)
(* and the other requests.                                                 *)
LEMMA CommitKeeps ==
    ASSUME IInv, NEW r \in Req, NEW s, Sound(s), NEW next, Commit(r, s, next),
           Nests(s) => Housed(db, moved, s),
           \A p \in Product, v \in Supplier :
               Supplies(s, p, v) => Named(db, s, p) /\ Owned(db, s, p, v),
           next = Idle \/ ReqInv(focus, After(s), moved \cup Moves(s), next)
    PROVE  IInv'
<1> DEFINE e == After(s)
           S == Moves(s)
<1>1. /\ focus \in Focus /\ moved \subseteq Id /\ Typed(db) /\ Valid(db)
      /\ left \in 0..MaxRequests
      /\ PlacedIn(db, moved) /\ SuppliedIn(db)
      /\ \A q \in Req : req[q] # Idle => ReqInv(focus, db, moved, req[q])
    BY StatedOver DEF IInv
<1>2. /\ e # Refused /\ db' = e
      /\ req' = [q \in Req |-> IF q = r THEN next
                               ELSE IF req[q] = Idle THEN Idle ELSE [req[q] EXCEPT !.raced = TRUE]]
      /\ focus' = focus /\ left' = left
    BY DEF Commit
<1>3. moved' = moved \cup S
    BY DEF Commit, Moves, Ups
<1>4. Typed(e) /\ Valid(e) /\ Kept(db, e, S) /\ S \subseteq Id
    BY <1>1, <1>2, SoundIs
<1>5. PlacedIn(e, moved \cup S)
    <2>1. ASSUME NEW x \in Zone \cup Bin, There(e.rows[x]), ~There(db.rows[x])
          PROVE  LET up == Above(e, x)
                 IN  \/ up = None \/ up \in moved \/ db.rows[up] = Gone
                     \/ There(db.rows[up]) /\ db.rows[up].warehouse = e.rows[x].warehouse
        <3>1. s.do = "insert" /\ s.of = x /\ e.rows[x] = s.row
            BY <1>1, <1>2, <2>1, Born
        <3>2. Above(e, x) = Up(s)
            BY <3>1 DEF Above, Up
        <3>3. Up(s) # None => Housed(db, moved, s)
            BY <3>1 DEF Nests
        <3> QED BY <3>1, <3>2, <3>3 DEF Housed
    <2> HIDE DEF e, S
    <2> QED BY <1>1, <1>4, <2>1, PlacedStays
<1>6. SuppliedIn(e)
    <2>1. ASSUME NEW p \in Product, NEW v \in Supplier, <<p, v>> \in e.links,
                 <<p, v>> \notin db.links
          PROVE  e.rows[p].customer = e.rows[v].customer
        BY <1>1, <1>2, <2>1, NewlySupplied
    <2> HIDE DEF e, S
    <2> QED BY <1>1, <1>4, <2>1, SuppliedStays
<1> HIDE DEF e, S
<1>7. ASSUME NEW q \in Req, req'[q] # Idle PROVE ReqInv(focus, e, moved \cup S, req'[q])
    <2>1. CASE q = r
        BY <1>2, <1>7, <2>1 DEF e, S
    <2>2. CASE q # r
        <3>1. req[q] # Idle /\ req'[q] = [req[q] EXCEPT !.raced = TRUE]
            BY <1>2, <1>7, <2>2
        <3>2. ReqInv(focus, db, moved, req[q])
            BY <1>1, <3>1
        <3> QED BY <1>4, <3>1, <3>2, OthersKeep
    <2> QED BY <2>1, <2>2
<1>8. req' = [q \in Req |-> req'[q]]
    BY <1>2
<1>9. moved \cup S \subseteq Id
    BY <1>1, <1>4
<1>10. PlacedTogetherUnlessMoved' /\ SuppliersAreOwn'
    BY <1>2, <1>3, <1>5, <1>6, StatedOver
<1> QED BY <1>1, <1>2, <1>3, <1>4, <1>7, <1>8, <1>9, <1>10 DEF IInv

(* The first step of a request.                                            *)
LEMMA HeadIs ==
    ASSUME NEW F, NEW d, NEW m, NEW q, ReqInv(F, d, m, q)
    PROVE  LET s == Head(q.todo)
           IN  /\ s = q.todo[1] /\ 1 \in 1..Len(q.todo) /\ StepOK(s)
               /\ Len(q.todo) \in Nat \ {0} /\ Len(q.todo) \in Nat
               /\ Nests(s) => Housed(d, m, s)
               /\ \A p \in Product, v \in Supplier :
                     Supplies(s, p, v) => Named(d, s, p) /\ Owned(d, s, p, v)
               /\ q.scope # None /\ ~q.raced =>
                     /\ q.scope.warehouses \subseteq Warehouse
                     /\ ReachOf(d, q.scope.warehouses) \subseteq q.reach
                     /\ Brings(s) \subseteq q.reach
               /\ Account(s) => Len(q.todo) = 1 /\ (~q.raced => Spared(d, s))
<1> DEFINE s == q.todo[1]
<1>1. Formed(q) /\ IsSeq(q.todo) /\ Len(q.todo) \in Nat \ {0}
    BY DEF ReqInv, Formed
<1>2. Head(q.todo) = s /\ 1 \in 1..Len(q.todo) /\ 1..(1 - 1) = {}
    BY <1>1, TailIs
<1>3. StepOK(s)
    BY <1>1, <1>2 DEF Formed
<1>4. Nests(s) => Housed(d, m, s)
    BY <1>2 DEF ReqInv, Houses
<1>5. ASSUME NEW p \in Product, NEW v \in Supplier, Supplies(s, p, v)
      PROVE  Named(d, s, p) /\ Owned(d, s, p, v)
    BY <1>2, <1>5 DEF ReqInv, Suits
<1>6. ASSUME q.scope # None, ~q.raced
      PROVE  /\ q.scope.warehouses \subseteq Warehouse
             /\ ReachOf(d, q.scope.warehouses) \subseteq q.reach
             /\ Brings(s) \subseteq q.reach
    <2>1. Reaches(F, d, q)
        BY DEF ReqInv
    <2>2. \A c \in Brings(s) : \/ c \in q.reach
                               \/ \E j \in 1..(1 - 1) : q.todo[j] = CustomerCheck(c)
                                                        /\ ~Skips(F, q.scope, q.todo[j])
        BY <1>2, <1>6, <2>1 DEF Reaches
    <2>3. Brings(s) \subseteq q.reach
        BY <1>2, <2>2
    <2> QED BY <1>6, <2>1, <2>3 DEF Reaches
<1>7. ASSUME Account(s) PROVE Len(q.todo) = 1 /\ (~q.raced => Spared(d, s))
    <2>1. Spares(d, q)
        BY DEF ReqInv
    <2>2. /\ \A j \in 1..Len(q.todo) : j # 1 => IsCheck(q.todo[j])
          /\ ~q.raced => Spared(d, s)
        BY <1>2, <1>7, <2>1 DEF Spares
    <2>3. ~IsCheck(q.todo[Len(q.todo)])
        BY <1>1 DEF Formed
    <2>4. Len(q.todo) \in 1..Len(q.todo)
        BY <1>1
    <2> QED BY <2>2, <2>3, <2>4
<1> HIDE DEF s
<1> QED BY <1>1, <1>2, <1>3, <1>4, <1>5, <1>6, <1>7 DEF s

(* The statement a request is at, and one of an array.                     *)
LEMMA HeadSound ==
    ASSUME NEW s, StepOK(s), IsStatement(s)
    PROVE  Sound(s)
BY DEF StepOK, IsStatement, IsCheck, Sound

LEMMA PartSound ==
    ASSUME NEW s, StepOK(s), s.do = "batch", NEW e \in s.any
    PROVE  /\ Proper(e) /\ Lone(e) /\ Calm(e) /\ Sound(e)
           /\ ~Nests(e) /\ Brings(e) = {} /\ \A p, v : ~Supplies(e, p, v)
<1>1. Proper(e) /\ Lone(e) /\ Calm(e)
    BY DEF StepOK, Proper, IsCheck, InOne
<1>2. e.do # "tx"
    BY <1>1 DEF Proper
<1> QED BY <1>1, <1>2 DEF Sound, Calm, Nests, Supplies

(* What is left of a request once its first step, no check, is done.       *)
LEMMA RestKeeps ==
    ASSUME NEW r \in Req, ReqInv(focus, db, moved, req[r]), NEW e, NEW S, Kept(db, e, S),
           ~IsCheck(Head(req[r].todo)), Head(req[r].todo).do \notin {"sum", "answer"},
           req[r].scope # None /\ ~req[r].raced =>
               ReachOf(e, req[r].scope.warehouses) \subseteq req[r].reach,
           Rest(r) # Idle
    PROVE  ReqInv(focus, e, moved \cup S, Rest(r))
<1> DEFINE q == req[r]
           p == Rest(r)
           F == focus
           m == moved \cup S
<1>1. Formed(q) /\ Len(q.todo) \in Nat \ {0} /\ Len(q.todo) \in Nat /\ Head(q.todo) = q.todo[1]
      /\ 1 \in 1..Len(q.todo)
    BY HeadIs DEF ReqInv
<1>2. Cut(F, q, p) /\ p.sums = q.sums /\ \E w \in BOOLEAN : p = Onward(q, p.todo, w)
    BY <1>1, RestIs
<1>3. ~IsCheck(q.todo[1]) /\ q.todo[1].do \notin {"sum", "answer"}
    BY <1>1
<1>4. /\ Houses(F, e, m, q) /\ Suits(F, e, q) /\ Reaches(F, db, q)
      /\ Spares(db, q) /\ Tallied(db, q)
    BY <1>1, HousesOn, SuitsOn DEF ReqInv
<1>5. q.scope # None /\ ~q.raced => ReachOf(e, q.scope.warehouses) \subseteq q.reach
    OBVIOUS
<1> HIDE DEF q, p, F, m
<1>6. Formed(p)
    BY <1>1, <1>2, FormedCut
<1>7. Houses(F, e, m, p)
    <2>1. \A s : q.todo[1] # UpCheck(s)
        BY <1>3 DEF UpCheck, IsCheck
    <2> QED BY <1>1, <1>2, <1>4, <2>1, HouseCut
<1>8. Suits(F, e, p)
    <2>1. \A s, u, v : ~Vouches(q.todo[1], s, u, v)
        BY <1>3 DEF Vouches, IsCheck
    <2> QED BY <1>1, <1>2, <1>4, <2>1, SuitsCut
<1>9. Reaches(F, e, p)
    <2>1. \A c : q.todo[1] # CustomerCheck(c)
        BY <1>3 DEF CustomerCheck, IsCheck
    <2>2. q.scope # None /\ ~q.raced =>
             /\ q.scope.warehouses \subseteq Warehouse
             /\ \A i \in 1..Len(q.todo) : \A c \in Brings(q.todo[i]) :
                   \/ c \in q.reach
                   \/ \E j \in 1..(i - 1) :
                         q.todo[j] = CustomerCheck(c) /\ ~Skips(F, q.scope, q.todo[j])
        BY <1>4 DEF Reaches
    <2> QED BY <1>1, <1>2, <1>5, <2>1, <2>2, ReachCut
<1>10. Spares(e, p)
    BY <1>1, <1>2, <1>3, <1>4, SparesCut
<1>11. Tallied(e, p)
    BY <1>1, <1>2, <1>3, <1>4, TalliedCut
<1>12. ReqInv(F, e, m, p)
    BY <1>6, <1>7, <1>8, <1>9, <1>10, <1>11 DEF ReqInv
<1> QED BY <1>12 DEF p, F, m

(* ... and of an array of statements once one of them has run.             *)
LEMMA ArrayLeft ==
    ASSUME NEW q, Formed(q), q.todo[1].do = "batch", NEW rest \in SUBSET q.todo[1].any
    PROVE  LET p == Onward(q, [q.todo EXCEPT ![1].any = rest], TRUE)
           IN  /\ Formed(p) /\ Len(p.todo) = Len(q.todo) /\ Len(q.todo) \in Nat \ {0}
               /\ p.todo[1] = [do |-> "batch", any |-> rest]
               /\ \A i \in 1..Len(q.todo) : i # 1 => p.todo[i] = q.todo[i]
               /\ p.scope = q.scope /\ p.raced = q.raced /\ p.sums = q.sums
               /\ p.reach = q.reach
<1> DEFINE n == Len(q.todo)
           h == q.todo[1]
           g == [do |-> "batch", any |-> rest]
           todo == [q.todo EXCEPT ![1].any = rest]
           t == q.todo
           R == {t[i] : i \in DOMAIN t}
           p == Onward(q, todo, TRUE)
<1>1. t \in Seq(R) /\ n \in Nat \ {0} /\ 1 \in 1..n /\ ~IsCheck(t[n]) /\ StepOK(h)
      /\ \A i \in 1..n : StepOK(t[i])
    BY DEF Formed, IsSeq
<1>2. h = [do |-> "batch", any |-> h.any] /\ \A e \in h.any : Proper(e) /\ Lone(e) /\ Calm(e)
    BY <1>1 DEF StepOK, Proper, IsCheck, InOne
<1>3. [h EXCEPT !.any = rest] = g
    <2> DEFINE a == h.any
    <2>1. h = [do |-> "batch", any |-> a]
        BY <1>2
    <2> HIDE DEF a, h
    <2> QED BY <2>1
<1>4. todo = [t EXCEPT ![1] = g]
    BY <1>3
<1> HIDE DEF R, g, h, n, todo
<1>5. Len(t) = n
    BY DEF n
<1> HIDE DEF t
<1>6. todo \in Seq(R \cup {g}) /\ Len(todo) = n /\ todo[1] = g
      /\ \A i \in 1..n : i # 1 => todo[i] = t[i]
    BY <1>1, <1>4, <1>5
<1>7. IsSeq(todo)
    BY <1>6, Sequences
<1>8. StepOK(g) /\ ~IsCheck(g)
    <2>1. g = [do |-> "batch", any |-> g.any] /\ \A e \in g.any : e \in h.any
        BY DEF g, h
    <2> QED BY <1>2, <2>1 DEF StepOK, IsCheck
<1>9. \A i \in 1..n : StepOK(todo[i])
    BY <1>1, <1>6, <1>8
<1>10. ~IsCheck(todo[n])
    BY <1>1, <1>6, <1>8
<1>11. q.raced \in BOOLEAN /\ q.reach \subseteq Customer
    BY DEF Formed
<1>12. /\ p = [todo |-> p.todo, scope |-> p.scope, raced |-> p.raced, wrote |-> p.wrote,
               sums |-> p.sums, reach |-> p.reach]
       /\ p.todo = todo /\ p.scope = q.scope /\ p.raced = q.raced /\ p.wrote = TRUE
       /\ p.sums = q.sums /\ p.reach = q.reach
    BY DEF Onward
<1> HIDE DEF p
<1>13. Formed(p)
    BY <1>1, <1>6, <1>7, <1>9, <1>10, <1>11, <1>12 DEF Formed
<1> QED BY <1>1, <1>5, <1>6, <1>12, <1>13 DEF p, todo, g, t

LEMMA ArrayKeeps ==
    ASSUME NEW F, NEW m, NEW q, ReqInv(F, db, m, q), NEW e, NEW S, Kept(db, e, S),
           q.todo[1].do = "batch", NEW rest \in SUBSET q.todo[1].any,
           q.scope # None /\ ~q.raced => ReachOf(e, q.scope.warehouses) \subseteq q.reach
    PROVE  ReqInv(F, e, m \cup S, Onward(q, [q.todo EXCEPT ![1].any = rest], TRUE))
<1> DEFINE p == Onward(q, [q.todo EXCEPT ![1].any = rest], TRUE)
           n == Len(q.todo)
           k == m \cup S
<1>1. /\ Formed(q) /\ Houses(F, e, k, q) /\ Suits(F, e, q) /\ Reaches(F, db, q)
      /\ Spares(db, q) /\ Tallied(db, q)
    BY HousesOn, SuitsOn DEF ReqInv
<1>2. /\ Formed(p) /\ Len(p.todo) = n /\ n \in Nat \ {0}
      /\ p.todo[1] = [do |-> "batch", any |-> rest]
      /\ \A i \in 1..n : i # 1 => p.todo[i] = q.todo[i]
      /\ p.scope = q.scope /\ p.raced = q.raced /\ p.sums = q.sums /\ p.reach = q.reach
    BY <1>1, ArrayLeft
<1> HIDE DEF p, n, k
<1>3. \A b : b.do = "batch" =>
          /\ ~Nests(b) /\ Brings(b) = {} /\ ~Account(b) /\ ~IsCheck(b)
          /\ b.do \notin {"sum", "answer"}
          /\ \A u, v : ~Supplies(b, u, v)
          /\ \A s : b # UpCheck(s)
          /\ \A c : b # CustomerCheck(c)
          /\ \A s, u, v : ~Vouches(b, s, u, v)
    BY DEF Nests, Brings, AddsLinks, Account, IsCheck, Supplies, UpCheck, CustomerCheck, Vouches
<1>4. p.todo[1].do = "batch"
    BY <1>2
<1>5. n = Len(q.todo) /\ 1 \in 1..n
    BY <1>2 DEF n
<1>6. \A i \in 1..n : i = 1 \/ p.todo[i] = q.todo[i]
    BY <1>2
<1>7. \A i \in 1..n : \A j \in 1..(i - 1) : j \in 1..n
    BY <1>2
<1>8. Houses(F, e, k, p)
    <2> SUFFICES ASSUME NEW i \in 1..n, Nests(p.todo[i])
                 PROVE  /\ p.todo[i].row.warehouse # None
                        /\ \/ Housed(e, k, p.todo[i])
                           \/ \E j \in 1..(i - 1) : p.todo[j] = UpCheck(p.todo[i])
                                                    /\ ~Skips(F, p.scope, p.todo[j])
        BY <1>2 DEF Houses
    <2>1. p.todo[i] = q.todo[i]
        BY <1>3, <1>4, <1>6
    <2>2. /\ q.todo[i].row.warehouse # None
          /\ \/ Housed(e, k, q.todo[i])
             \/ \E j \in 1..(i - 1) : q.todo[j] = UpCheck(q.todo[i])
                                      /\ ~Skips(F, q.scope, q.todo[j])
        BY <1>1, <1>5, <2>1 DEF Houses
    <2>3. \A j \in 1..(i - 1) : q.todo[j] = UpCheck(q.todo[i]) => p.todo[j] = q.todo[j]
        BY <1>3, <1>6, <1>7
    <2> QED BY <1>2, <2>1, <2>2, <2>3
<1>9. Suits(F, e, p)
    <2> SUFFICES ASSUME NEW i \in 1..n, NEW u \in Product, NEW v \in Supplier,
                        Supplies(p.todo[i], u, v)
                 PROVE  /\ Named(e, p.todo[i], u)
                        /\ \/ Owned(e, p.todo[i], u, v)
                           \/ \E j \in 1..(i - 1) : Vouches(p.todo[j], p.todo[i], u, v)
                                                    /\ ~Skips(F, p.scope, p.todo[j])
        BY <1>2 DEF Suits
    <2>1. p.todo[i] = q.todo[i]
        BY <1>3, <1>4, <1>6
    <2>2. /\ Named(e, q.todo[i], u)
          /\ \/ Owned(e, q.todo[i], u, v)
             \/ \E j \in 1..(i - 1) : Vouches(q.todo[j], q.todo[i], u, v)
                                      /\ ~Skips(F, q.scope, q.todo[j])
        BY <1>1, <1>5, <2>1 DEF Suits
    <2>3. \A j \in 1..(i - 1) : Vouches(q.todo[j], q.todo[i], u, v) => p.todo[j] = q.todo[j]
        BY <1>3, <1>6, <1>7
    <2> QED BY <1>2, <2>1, <2>2, <2>3
<1>10. Reaches(F, e, p)
    <2> SUFFICES ASSUME q.scope # None, ~q.raced
                 PROVE  /\ q.scope.warehouses \subseteq Warehouse
                        /\ ReachOf(e, q.scope.warehouses) \subseteq q.reach
                        /\ \A i \in 1..n : \A c \in Brings(p.todo[i]) :
                              \/ c \in q.reach
                              \/ \E j \in 1..(i - 1) :
                                    p.todo[j] = CustomerCheck(c) /\ ~Skips(F, q.scope, p.todo[j])
        BY <1>2 DEF Reaches
    <2>1. ASSUME NEW i \in 1..n, NEW c \in Brings(p.todo[i])
          PROVE  \/ c \in q.reach
                 \/ \E j \in 1..(i - 1) :
                       p.todo[j] = CustomerCheck(c) /\ ~Skips(F, q.scope, p.todo[j])
        <3>1. p.todo[i] = q.todo[i]
            BY <1>3, <1>4, <1>6, <2>1
        <3>2. \/ c \in q.reach
              \/ \E j \in 1..(i - 1) :
                    q.todo[j] = CustomerCheck(c) /\ ~Skips(F, q.scope, q.todo[j])
            BY <1>1, <1>5, <2>1, <3>1 DEF Reaches
        <3>3. \A j \in 1..(i - 1) : q.todo[j] = CustomerCheck(c) => p.todo[j] = q.todo[j]
            BY <1>3, <1>6, <1>7
        <3> QED BY <3>2, <3>3
    <2>2. q.scope.warehouses \subseteq Warehouse
        BY <1>1 DEF Reaches
    <2> QED BY <2>1, <2>2
<1>11. Spares(e, p)
    <2> SUFFICES ASSUME NEW i \in 1..n, Account(p.todo[i]) PROVE FALSE
        BY <1>2 DEF Spares
    <2>1. i # 1 /\ Account(q.todo[i])
        BY <1>3, <1>4, <1>6
    <2> QED BY <1>1, <1>3, <1>5, <2>1 DEF Spares
<1>12. Tallied(e, p)
    <2> DEFINE last == q.todo[n]
    <2>1. last.do # "answer"
        <3> SUFFICES ASSUME last.do = "answer" PROVE FALSE
            OBVIOUS
        <3>1. n # 1
            BY <1>3
        <3>2. 1 \in 1..(n - 1)
            BY <1>2, <3>1
        <3>3. /\ 1 < n - 2 => IsCheck(q.todo[1])
              /\ 1 >= n - 2 => q.todo[1].do = "sum"
            BY <1>1, <1>5, <3>2 DEF Tallied
        <3> QED BY <1>2, <1>3, <3>3
    <2>2. p.todo[n].do # "answer"
        BY <1>2, <1>4, <1>6, <2>1
    <2>3. /\ IsSeq(q.sums) /\ Len(q.sums) = 0
          /\ \A i \in 1..n : q.todo[i].do = "answer" => i = n
          /\ \A i \in 1..n : q.todo[i].do # "sum"
        BY <1>1, <1>5, <2>1 DEF Tallied
    <2>4. /\ \A i \in 1..n : p.todo[i].do = "answer" => i = n
          /\ \A i \in 1..n : p.todo[i].do # "sum"
        BY <1>3, <1>4, <1>6, <2>3
    <2> HIDE DEF last
    <2> QED BY <1>2, <2>2, <2>3, <2>4 DEF Tallied
<1>13. ReqInv(F, e, k, p)
    BY <1>2, <1>8, <1>9, <1>10, <1>11, <1>12 DEF ReqInv
<1> QED BY <1>13 DEF p, k

(* A write by a request that was not raced stays within its reach.         *)
LEMMA WriteReach ==
    ASSUME IInv, NEW r \in Req, req[r] # Idle, NEW s, Sound(s), After(s) # Refused,
           req[r].scope # None, ~req[r].raced,
           Brings(s) \subseteq Brings(Head(req[r].todo))
    PROVE  ReachOf(After(s), req[r].scope.warehouses) \subseteq req[r].reach
<1>1. Typed(db) /\ ReqInv(focus, db, moved, req[r])
    BY DEF IInv
<1>2. /\ req[r].scope.warehouses \in SUBSET Warehouse
      /\ ReachOf(db, req[r].scope.warehouses) \subseteq req[r].reach
      /\ Brings(Head(req[r].todo)) \subseteq req[r].reach
    BY <1>1, HeadIs
<1> QED BY <1>1, <1>2, ReachAfter

LEMMA WriteKeeps ==
    ASSUME IInv, NEW r \in Req, Write(r)
    PROVE  IInv'
<1> DEFINE s == Head(req[r].todo)
           next == Rest(r)
<1>1. req[r] # Idle /\ IsStatement(s) /\ Commit(r, s, next)
    BY DEF Write
<1>2. Typed(db) /\ ReqInv(focus, db, moved, req[r])
    BY <1>1 DEF IInv
<1>3. /\ StepOK(s)
      /\ Nests(s) => Housed(db, moved, s)
      /\ \A p \in Product, v \in Supplier :
            Supplies(s, p, v) => Named(db, s, p) /\ Owned(db, s, p, v)
    BY <1>2, HeadIs
<1>4. Sound(s)
    BY <1>1, <1>3, HeadSound
<1>5. After(s) # Refused
    BY <1>1 DEF Commit
<1>6. Kept(db, After(s), Moves(s))
    BY <1>2, <1>4, <1>5, SoundIs
<1>7. ~IsCheck(s) /\ s.do \notin {"sum", "answer"}
    BY <1>1 DEF IsStatement, IsCheck
<1>8. req[r].scope # None /\ ~req[r].raced =>
          ReachOf(After(s), req[r].scope.warehouses) \subseteq req[r].reach
    BY <1>1, <1>4, <1>5, WriteReach
<1>9. next = Idle \/ ReqInv(focus, After(s), moved \cup Moves(s), next)
    BY <1>2, <1>6, <1>7, <1>8, RestKeeps
<1> HIDE DEF s, next
<1> QED BY <1>1, <1>3, <1>4, <1>9, CommitKeeps

LEMMA WriteOneKeeps ==
    ASSUME IInv, NEW r \in Req, WriteOne(r)
    PROVE  IInv'
<1> DEFINE h == Head(req[r].todo)
<1>1. PICK s \in h.any :
          LET rest == h.any \ {s}
              next == IF rest = {} THEN Rest(r)
                      ELSE Onward(req[r], [req[r].todo EXCEPT ![1].any = rest], TRUE)
          IN  \/ Commit(r, s, next)
              \/ /\ After(s) = Refused
                 /\ req' = [req EXCEPT ![r] = next]
                 /\ UNCHANGED <<db, focus, left, moved>>
    BY DEF WriteOne
<1>2. req[r] # Idle /\ h.do = "batch"
    BY DEF WriteOne
<1> DEFINE rest == h.any \ {s}
           next == IF rest = {} THEN Rest(r)
                   ELSE Onward(req[r], [req[r].todo EXCEPT ![1].any = rest], TRUE)
<1>3. Typed(db) /\ ReqInv(focus, db, moved, req[r]) /\ left \in 0..MaxRequests
    BY <1>2 DEF IInv
<1>4. /\ StepOK(h) /\ h = req[r].todo[1]
      /\ req[r].scope # None /\ ~req[r].raced =>
            ReachOf(db, req[r].scope.warehouses) \subseteq req[r].reach
    BY <1>3, HeadIs
<1>5. /\ Sound(s) /\ ~Nests(s) /\ Brings(s) = {}
      /\ \A p \in Product, v \in Supplier : ~Supplies(s, p, v)
    BY <1>2, <1>4, PartSound
<1>6. ~IsCheck(h) /\ h.do \notin {"sum", "answer"}
    BY <1>2 DEF IsCheck
<1>7. ASSUME NEW e, NEW S, Kept(db, e, S),
             req[r].scope # None /\ ~req[r].raced =>
                 ReachOf(e, req[r].scope.warehouses) \subseteq req[r].reach
      PROVE  next = Idle \/ ReqInv(focus, e, moved \cup S, next)
    <2>1. CASE rest = {}
        BY <1>3, <1>6, <1>7, <2>1, RestKeeps
    <2>2. CASE rest # {}
        <3>1. rest \in SUBSET req[r].todo[1].any /\ req[r].todo[1].do = "batch"
            BY <1>2, <1>4
        <3>2. next = Onward(req[r], [req[r].todo EXCEPT ![1].any = rest], TRUE)
            BY <2>2
        <3> HIDE DEF next, rest
        <3> QED BY <1>3, <1>7, <3>1, <3>2, ArrayKeeps
    <2> QED BY <2>1, <2>2
<1>8. CASE Commit(r, s, next)
    <2>1. After(s) # Refused
        BY <1>8 DEF Commit
    <2>2. Kept(db, After(s), Moves(s))
        BY <1>3, <1>5, <2>1, SoundIs
    <2>3. req[r].scope # None /\ ~req[r].raced =>
              ReachOf(After(s), req[r].scope.warehouses) \subseteq req[r].reach
        BY <1>2, <1>5, <2>1, WriteReach
    <2>4. next = Idle \/ ReqInv(focus, After(s), moved \cup Moves(s), next)
        BY <1>7, <2>2, <2>3
    <2> HIDE DEF next
    <2> QED BY <1>5, <1>8, <2>4, CommitKeeps
<1>9. CASE /\ After(s) = Refused
           /\ req' = [req EXCEPT ![r] = next]
           /\ UNCHANGED <<db, focus, left, moved>>
    <2>1. Kept(db, db, {})
        BY SameKept DEF Kept
    <2>2. next = Idle \/ ReqInv(focus, db, moved \cup {}, next)
        BY <1>4, <1>7, <2>1
    <2>3. moved \cup {} = moved
        OBVIOUS
    <2> HIDE DEF next
    <2> QED BY <1>3, <1>9, <2>2, <2>3, RequestStep
<1> QED BY <1>1, <1>8, <1>9

(* A request that ends.                                                    *)
LEMMA EndKeeps ==
    ASSUME IInv, NEW r \in Req, req' = [req EXCEPT ![r] = Idle],
           UNCHANGED <<db, focus, left, moved>>
    PROVE  IInv'
<1>1. left \in 0..MaxRequests
    BY DEF IInv
<1> QED BY <1>1, RequestStep

(* Something that is no check is left as long as the last step is.         *)
LEMMA Lasts ==
    ASSUME NEW scope, NEW steps, IsSeq(steps), Len(steps) \in Nat \ {0},
           ~IsCheck(steps[Len(steps)])
    PROVE  Pending(scope, steps) # <<>>
<1> DEFINE n == Len(steps)
           open == {i \in DOMAIN steps : ~Skipped(scope, steps[i])}
           k == Min(open)
           R == {steps[i] : i \in DOMAIN steps}
<1>1. DOMAIN steps = 1..n /\ steps \in Seq(R)
    BY DEF IsSeq
<1>2. n \in open
    BY <1>1 DEF Skipped, Settled, IsScope, IsCheck
<1>3. k \in 1..n
    <2>1. open \in SUBSET Nat /\ open # {} /\ open \subseteq 1..n
        BY <1>1, <1>2
    <2> HIDE DEF open
    <2> QED BY <2>1, Least
<1>4. Pending(scope, steps) = SubSeq(steps, k, n)
    BY <1>2 DEF Pending
<1> HIDE DEF k, open, R, n
<1>5. n \in Nat /\ n = Len(steps)
    BY DEF n
<1>6. Len(SubSeq(steps, k, n)) = n - k + 1
    BY <1>1, <1>3, <1>5
<1>7. n - k + 1 # 0
    BY <1>3, <1>5
<1>8. Len(<<>>) = 0
    OBVIOUS
<1> QED BY <1>4, <1>6, <1>7, <1>8

(* A sum finds every live transaction, however it spells its month.        *)
LEMMA SumCounts ==
    ASSUME Typed(db), NEW c, NEW key, NEW scope
    PROVE  Cardinality({t \in Transaction : Live(t, c, scope)
                                            /\ Row(t).period \in PeriodKeyCandidates(key)})
           = Count(db, c, scope)
<1>1. ASSUME NEW t \in Transaction
      PROVE  Live(t, c, scope) <=> LiveIn(db, t, c, scope)
    BY DEF Live, LiveIn, Row
<1>2. ASSUME NEW t \in Transaction, There(db.rows[t])
      PROVE  Row(t).period \in PeriodKeyCandidates(key)
    <2>1. t \in Id
        BY DEF Id
    <2>2. Held(t, db.rows[t])
        BY <1>2, <2>1, Values DEF Typed
    <2>3. db.rows[t]["period"] \in {"padded", "bare"}
        BY <2>2 DEF Held, Fit, Needed, Spelling
    <2>4. PeriodKeyCandidates(key) = {"padded", "bare"}
        BY DEF PeriodKeyCandidates, CanonicalPeriodKey
    <2> QED BY <2>3, <2>4 DEF Row
<1>3. \A t \in Transaction : LiveIn(db, t, c, scope) => There(db.rows[t])
    BY DEF LiveIn
<1>4. {t \in Transaction : Live(t, c, scope) /\ Row(t).period \in PeriodKeyCandidates(key)}
      = {t \in Transaction : LiveIn(db, t, c, scope)}
    BY <1>1, <1>2, <1>3
<1> QED BY <1>4 DEF Count

(* A summary is at one of its two sums.                                    *)
LEMMA SumLeft ==
    ASSUME NEW r \in Req, ReqInv(focus, db, moved, req[r]), Head(req[r].todo).do = "sum"
    PROVE  LET q == req[r]
               p == Rest(r)
               n == Len(q.todo)
           IN  /\ n \in 2..3 /\ q.todo[n].do = "answer" /\ q.todo[1].of = q.todo[n].of
               /\ p # Idle /\ Formed(p) /\ Cut(focus, q, p) /\ p.sums = q.sums
               /\ Len(p.todo) = n - 1 /\ \A i \in 1..(n - 1) : p.todo[i] = q.todo[i + 1]
<1> DEFINE q == req[r]
           p == Rest(r)
           n == Len(q.todo)
           todo == Pending(q.scope, Tail(q.todo))
           w == q.wrote \/ IsStatement(Head(q.todo))
<1>1. Formed(q) /\ IsSeq(q.todo) /\ n \in Nat \ {0} /\ Head(q.todo) = q.todo[1] /\ Tallied(db, q)
      /\ 1 \in 1..n /\ ~IsCheck(q.todo[n])
    BY HeadIs DEF ReqInv, Formed
<1>2. q.todo[1].do = "sum" /\ q.todo[n].do = "answer" /\ 1 >= n - 2
    BY <1>1 DEF Tallied
<1>3. n \in 2..3
    <2>1. n # 1
        BY <1>2
    <2> HIDE DEF n
    <2> QED BY <1>1, <1>2, <2>1
<1>4. \A i \in 1..(n - 1) : q.todo[i].do = "sum" /\ q.todo[i].of = q.todo[n].of
    <2> SUFFICES ASSUME NEW i \in 1..(n - 1)
                 PROVE  q.todo[i].do = "sum" /\ q.todo[i].of = q.todo[n].of
        OBVIOUS
    <2>1. i >= n - 2
        <3> HIDE DEF n
        <3> QED BY <1>3
    <2> QED BY <1>1, <1>2, <2>1 DEF Tallied
<1>5. todo # <<>>
    <2> DEFINE t == Tail(q.todo)
    <2>1. IsSeq(t) /\ Len(t) = n - 1 /\ \A i \in 1..(n - 1) : t[i] = q.todo[i + 1]
        BY <1>1, TailIs
    <2> HIDE DEF t, n
    <2>2. Len(t) \in Nat \ {0} /\ n - 1 \in 1..(n - 1) /\ (n - 1) + 1 = n
        BY <1>3, <2>1
    <2>3. t[Len(t)] = q.todo[n]
        BY <2>1, <2>2
    <2>4. ~IsCheck(t[Len(t)])
        BY <1>1, <2>3
    <2> QED BY <2>1, <2>2, <2>4, Lasts DEF t
<1>6. p = Onward(q, todo, w)
    BY <1>5 DEF Rest
<1>7. p # Idle
    <2>1. "todo" \in DOMAIN p
        BY <1>6 DEF Onward
    <2>2. "todo" \notin DOMAIN Idle
        BY DEF Idle
    <2> QED BY <2>1, <2>2
<1>8. Cut(focus, q, p) /\ p.sums = q.sums /\ \E x \in BOOLEAN : p = Onward(q, p.todo, x)
    BY <1>1, <1>7, RestIs
<1> HIDE DEF q, p, todo, w
<1>9. Formed(p)
    BY <1>1, <1>8, FormedCut
<1>10. PICK k \in 2..n :
          /\ Len(p.todo) = n - k + 1
          /\ \A l \in 1..Len(p.todo) : p.todo[l] = q.todo[l + k - 1]
          /\ \A j \in 2..(k - 1) : Skips(focus, q.scope, q.todo[j])
    BY <1>8 DEF Cut
<1>11. q.todo[2].do \in {"sum", "answer"}
    <2>1. n = 2 \/ 2 \in 1..(n - 1)
        BY <1>3
    <2> QED BY <1>2, <1>4, <2>1
<1>12. k = 2
    <2> SUFFICES ASSUME k # 2 PROVE FALSE
        OBVIOUS
    <2>1. 2 \in 2..(k - 1)
        BY <1>3, <1>10
    <2>2. IsCheck(q.todo[2])
        BY <1>10, <2>1, Kinds
    <2> QED BY <1>11, <2>2, Kinds
<1>13. Len(p.todo) = n - 1
    BY <1>3, <1>10, <1>12
<1>14. ASSUME NEW i \in 1..(n - 1) PROVE p.todo[i] = q.todo[i + 1]
    <2>1. i + k - 1 = i + 1
        BY <1>3, <1>12
    <2> QED BY <1>10, <1>13, <2>1
<1>15. q.todo[1].of = q.todo[n].of
    <2>1. 1 \in 1..(n - 1)
        BY <1>3
    <2> QED BY <1>4, <2>1
<1> QED BY <1>2, <1>3, <1>7, <1>8, <1>9, <1>13, <1>14, <1>15 DEF q, p

LEMMA TalliedOn ==
    ASSUME NEW d, NEW q, Tallied(d, q), NEW n, n \in 2..3, Len(q.todo) = n,
           q.todo[n].do = "answer",
           NEW p, Len(p.todo) = n - 1, \A i \in 1..(n - 1) : p.todo[i] = q.todo[i + 1],
           p.scope = q.scope, p.raced = q.raced,
           p.sums = Append(q.sums, Count(d, q.todo[n].of, q.scope))
    PROVE  Tallied(d, p)
<1> DEFINE last == q.todo[n]
           c == Count(d, last.of, q.scope)
           s == q.sums
           R == {s[i] : i \in DOMAIN s}
           m == n - 1
<1>1. /\ IsSeq(s) /\ \A i \in 1..n : q.todo[i].do = "answer" => i = n
      /\ Len(s) = IF n >= 3 THEN 0 ELSE 3 - n
      /\ \A i \in 1..(n - 1) : i >= n - 2 => q.todo[i].do = "sum" /\ q.todo[i].of = last.of
      /\ ~q.raced => \A i \in 1..Len(s) : s[i] = c
    BY DEF Tallied
<1>2. s \in Seq(R)
    BY <1>1 DEF IsSeq
<1> HIDE DEF R, c, s, last
<1>3. Len(s) = 3 - n
    BY <1>1
<1> DEFINE t == Append(s, c)
<1>4. /\ t \in Seq(R \cup {c}) /\ Len(t) = Len(s) + 1 /\ Len(s) \in Nat
      /\ \A i \in 1..Len(s) : t[i] = s[i]
      /\ t[Len(s) + 1] = c
    BY <1>2
<1>5. IsSeq(t)
    <2> HIDE DEF t
    <2> QED BY <1>4, Sequences
<1>6. p.sums = t
    BY DEF s, c, last
<1> HIDE DEF t
<1>7. ~q.raced => \A i \in 1..Len(t) : t[i] = c
    <2> SUFFICES ASSUME ~q.raced, NEW i \in 1..Len(t) PROVE t[i] = c
        OBVIOUS
    <2>1. i \in 1..Len(s) \/ i = Len(s) + 1
        BY <1>4
    <2> QED BY <1>1, <1>4, <2>1
<1>8. m \in 1..2 /\ m \in 1..(n - 1) /\ m + 1 = n /\ Len(p.todo) = m
    OBVIOUS
<1>9. p.todo[m] = last
    BY <1>8 DEF last
<1>10. \A i \in 1..m : p.todo[i].do = "answer" => i = m
    <2> SUFFICES ASSUME NEW i \in 1..m, p.todo[i].do = "answer" PROVE i = m
        OBVIOUS
    <2>1. i + 1 \in 1..n /\ q.todo[i + 1].do = "answer"
        OBVIOUS
    <2>2. i + 1 = n
        BY <1>1, <2>1
    <2> QED BY <2>2
<1>11. \A i \in 1..(m - 1) : p.todo[i].do = "sum" /\ p.todo[i].of = last.of
    <2> SUFFICES ASSUME NEW i \in 1..(m - 1)
                 PROVE  p.todo[i].do = "sum" /\ p.todo[i].of = last.of
        OBVIOUS
    <2>1. i + 1 \in 1..(n - 1) /\ i + 1 >= n - 2 /\ i \in 1..(n - 1)
        OBVIOUS
    <2>2. p.todo[i] = q.todo[i + 1]
        BY <2>1
    <2> QED BY <1>1, <2>1, <2>2
<1>12. Len(t) = IF m >= 3 THEN 0 ELSE 3 - m
    BY <1>3, <1>4, <1>8
<1>13. last.do = "answer" /\ \A i \in 1..m : i >= m - 2 /\ ~(i < m - 2)
    BY <1>8 DEF last
<1>14. ~p.raced => \A i \in 1..Len(p.sums) : p.sums[i] = Count(d, p.todo[m].of, p.scope)
    BY <1>6, <1>7, <1>9 DEF c
<1>15. IsSeq(p.sums) /\ Len(p.sums) = Len(t)
    BY <1>5, <1>6
<1> HIDE DEF m
<1>16. \A i \in 1..(m - 1) : i \in 1..m
    BY <1>8
<1> QED BY <1>8, <1>9, <1>10, <1>11, <1>12, <1>13, <1>14, <1>15, <1>16 DEF Tallied

LEMMA SumKeeps ==
    ASSUME IInv, NEW r \in Req, Sum(r)
    PROVE  IInv'
<1> DEFINE q == req[r]
           s == Head(q.todo)
           c == Count(db, s.of, q.scope)
           p == Rest(r)
           next == [p EXCEPT !.sums = Append(q.sums, c)]
           n == Len(q.todo)
<1>1. q # Idle /\ s.do = "sum" /\ UNCHANGED <<db, focus, left, moved>>
    BY DEF Sum
<1>2. Typed(db) /\ ReqInv(focus, db, moved, q) /\ left \in 0..MaxRequests
    BY <1>1 DEF IInv
<1>3. /\ n \in 2..3 /\ q.todo[n].do = "answer" /\ q.todo[1].of = q.todo[n].of
      /\ Formed(p) /\ Cut(focus, q, p) /\ p.sums = q.sums
      /\ Len(p.todo) = n - 1 /\ \A i \in 1..(n - 1) : p.todo[i] = q.todo[i + 1]
    BY <1>1, <1>2, SumLeft
<1>4. s = q.todo[1] /\ n \in Nat
    BY <1>2, HeadIs
<1>5. req' = [req EXCEPT ![r] = next]
    <2>1. Cardinality({t \in Transaction :
                          Live(t, s.of, q.scope) /\ Row(t).period \in PeriodKeyCandidates(s.key)})
          = c
        BY <1>2, SumCounts
    <2>2. req' = [req EXCEPT ![r] = [p EXCEPT !.sums = Append(@, Cardinality(
              {t \in Transaction :
                  Live(t, s.of, q.scope) /\ Row(t).period \in PeriodKeyCandidates(s.key)}))]]
        BY DEF Sum
    <2>3. req' = [req EXCEPT ![r] = [p EXCEPT !.sums = Append(p.sums, c)]]
        BY <2>1, <2>2
    <2> QED BY <1>3, <2>3
<1>6. /\ next.todo = p.todo /\ next.scope = p.scope /\ next.raced = p.raced
      /\ next.wrote = p.wrote /\ next.reach = p.reach /\ next.sums = Append(q.sums, c)
      /\ next = [todo |-> next.todo, scope |-> next.scope, raced |-> next.raced,
                 wrote |-> next.wrote, sums |-> next.sums, reach |-> next.reach]
    <2> DEFINE z == Append(q.sums, c)
    <2> DEFINE a == p.todo
               b == p.scope
               d == p.raced
               e == p.wrote
               f == p.sums
               g == p.reach
    <2>1. p = [todo |-> a, scope |-> b, raced |-> d, wrote |-> e, sums |-> f, reach |-> g]
        BY <1>3 DEF Formed
    <2> HIDE DEF z, a, b, d, e, f, g
    <2>2. \A y : [p EXCEPT !.sums = y]
                 = [todo |-> a, scope |-> b, raced |-> d, wrote |-> e, sums |-> y, reach |-> g]
        BY <2>1
    <2>3. next = [todo |-> a, scope |-> b, raced |-> d, wrote |-> e, sums |-> z, reach |-> g]
        BY <2>2 DEF z
    <2> HIDE DEF next
    <2> QED BY <2>3 DEF z, a, b, d, e, g
<1>7. /\ Houses(focus, db, moved, q) /\ Suits(focus, db, q) /\ Reaches(focus, db, q)
      /\ Spares(db, q) /\ Tallied(db, q)
    BY <1>2 DEF ReqInv
<1> HIDE DEF q, p, next, c, s
<1>8. /\ Cut(focus, q, next)
      /\ next.scope = q.scope /\ next.raced = q.raced
    BY <1>3, <1>6 DEF Cut
<1>9. Formed(next)
    BY <1>3, <1>6 DEF Formed
<1>10. q.todo[1].do = "sum"
    BY <1>1, <1>4
<1>11. Houses(focus, db, moved, next)
    <2>1. \A x : q.todo[1] # UpCheck(x)
        BY <1>10 DEF UpCheck
    <2> QED BY <1>4, <1>7, <1>8, <2>1, HouseCut
<1>12. Suits(focus, db, next)
    <2>1. \A x, u, v : ~Vouches(q.todo[1], x, u, v)
        BY <1>10 DEF Vouches
    <2> QED BY <1>4, <1>7, <1>8, <2>1, SuitsCut
<1>13. Reaches(focus, db, next)
    <2>1. \A x : q.todo[1] # CustomerCheck(x)
        BY <1>10 DEF CustomerCheck
    <2> QED BY <1>4, <1>7, <1>8, <2>1, ReachCut DEF Reaches
<1>14. Spares(db, next)
    BY <1>4, <1>7, <1>8, SparesCut
<1>15. Tallied(db, next)
    <2>1. c = Count(db, q.todo[n].of, q.scope)
        BY <1>3, <1>4 DEF c
    <2>2. /\ Len(next.todo) = n - 1 /\ \A i \in 1..(n - 1) : next.todo[i] = q.todo[i + 1]
          /\ next.sums = Append(q.sums, Count(db, q.todo[n].of, q.scope))
        BY <1>3, <1>6, <2>1
    <2>3. Len(q.todo) = n /\ n \in 2..3 /\ q.todo[n].do = "answer"
        BY <1>3
    <2>4. Tallied(db, q) /\ next.scope = q.scope /\ next.raced = q.raced
        BY <1>7, <1>8
    <2> HIDE DEF n
    <2> QED BY <2>2, <2>3, <2>4, TalliedOn
<1>16. ReqInv(focus, db, moved, next)
    BY <1>9, <1>11, <1>12, <1>13, <1>14, <1>15 DEF ReqInv
<1> QED BY <1>1, <1>2, <1>5, <1>16, RequestStep

(* A step of a request in flight keeps the invariant.                      *)
LEMMA StepKeeps ==
    ASSUME IInv, NEW r \in Req, Step(r) \/ Sum(r) \/ Answer(r)
    PROVE  IInv'
<1>1. CASE Check(r)
    BY <1>1, CheckKeeps
<1>2. CASE Write(r)
    BY <1>2, WriteKeeps
<1>3. CASE WriteOne(r)
    BY <1>3, WriteOneKeeps
<1>4. CASE Fail(r)
    BY <1>4, EndKeeps DEF Fail
<1>5. CASE Sum(r)
    BY <1>5, SumKeeps
<1>6. CASE Answer(r)
    BY <1>6, EndKeeps DEF Answer
<1> QED BY <1>1, <1>2, <1>3, <1>4, <1>5, <1>6 DEF Step

(* What the script of a request has to be.                                 *)
Script(t) ==
    LET n == Len(t)
    IN  /\ IsSeq(t) /\ n \in Nat \ {0} /\ ~IsCheck(t[n])
        /\ \A i \in 1..n : StepOK(t[i])
        /\ \A i \in 1..n : Nests(t[i]) =>
              t[i].row.warehouse # None /\ \E j \in 1..(i - 1) : t[j] = UpCheck(t[i])
        /\ \A i \in 1..n : \A p \in Product, v \in Supplier : Supplies(t[i], p, v) =>
              Named(db, t[i], p) /\ \E j \in 1..(i - 1) : Vouches(t[j], t[i], p, v)
        /\ \A i \in 1..n : \A c \in Brings(t[i]) : \E j \in 1..(i - 1) : t[j] = CustomerCheck(c)
        /\ \A i \in 1..n : Account(t[i]) =>
              Spared(db, t[i]) /\ \A j \in 1..n : j # i => IsCheck(t[j])
        /\ \A i \in 1..n : t[i].do = "answer" => i = n
        /\ \A i \in 1..n : t[i].do = "sum" => t[n].do = "answer" /\ i >= n - 2
        /\ t[n].do = "answer" =>
              /\ n >= 3 /\ \A i \in 1..(n - 1) : i < n - 2 => IsCheck(t[i])
              /\ \A i \in 1..(n - 1) : i >= n - 2 => t[i].do = "sum" /\ t[i].of = t[n].of

(* p is a request that has just begun.                                     *)
Begun(t, scope, p, k) ==
    /\ p = [todo |-> p.todo, scope |-> scope, raced |-> FALSE, wrote |-> FALSE, sums |-> <<>>,
            reach |-> IF scope = None THEN {} ELSE Reach(scope.warehouses)]
    /\ IsSeq(p.todo) /\ k \in 1..Len(t) /\ Len(p.todo) = Len(t) - k + 1
    /\ \A i \in 1..Len(p.todo) : p.todo[i] = t[i + k - 1]
    /\ \A j \in 1..(k - 1) : Skips(focus, scope, t[j])
    /\ \A i \in 1..Len(t) : Settled(t[i]) => Passes(scope, t[i])
    /\ scope # None => scope.warehouses \subseteq Warehouse

(* Step e of the script is step i of p; those before it were skipped or    *)
(* come before it in p.                                                    *)
Since(t, scope, p, i, e) ==
    /\ p.todo[i] = t[e]
    /\ \A j \in 1..(e - 1) : /\ j \in 1..Len(t)
                             /\ \/ Skips(focus, scope, t[j])
                                \/ \E l \in 1..(i - 1) : p.todo[l] = t[j]

-----------------------------------------------------------------------------
(* A request that begins: its script with the settled checks left out.     *)
LEMMA BegunAt ==
    ASSUME NEW t, NEW scope, NEW p, NEW k, Begun(t, scope, p, k), Len(t) \in Nat \ {0},
           NEW i \in 1..Len(p.todo)
    PROVE  \E e \in 1..Len(t) : Since(t, scope, p, i, e)
<1>1. /\ k \in 1..Len(t) /\ Len(p.todo) = Len(t) - k + 1
      /\ \A l \in 1..Len(p.todo) : p.todo[l] = t[l + k - 1]
      /\ \A j \in 1..(k - 1) : Skips(focus, scope, t[j])
    BY DEF Begun
<1> DEFINE e == i + k - 1
<1>2. e \in 1..Len(t)
    BY <1>1
<1>3. p.todo[i] = t[e]
    BY <1>1
<1>4. ASSUME NEW j \in 1..(e - 1), j >= k
      PROVE  \E l \in 1..(i - 1) : p.todo[l] = t[j]
    <2> DEFINE l == j - k + 1
    <2>1. l \in 1..(i - 1) /\ l \in 1..Len(p.todo) /\ l + k - 1 = j
        BY <1>1, <1>4
    <2> QED BY <1>1, <2>1
<1>5. ASSUME NEW j \in 1..(e - 1), ~(j >= k)
      PROVE  Skips(focus, scope, t[j])
    <2>1. j \in 1..(k - 1)
        BY <1>1, <1>5
    <2> QED BY <1>1, <2>1
<1>6. \A j \in 1..(e - 1) : j \in 1..Len(t)
    BY <1>1, <1>2
<1>7. Since(t, scope, p, i, e)
    BY <1>3, <1>4, <1>5, <1>6 DEF Since
<1> QED BY <1>2, <1>7

LEMMA SettledPasses ==
    ASSUME NEW t, NEW scope, NEW p, NEW k, Begun(t, scope, p, k), NEW j \in 1..Len(t),
           Skips(focus, scope, t[j]), scope # None \/ t[j].do # "scope"
    PROVE  Passes(scope, t[j])
BY DEF Skips, Begun, Settled, IsScope

LEMMA BegunHouses ==
    ASSUME NEW t, NEW scope, NEW p, NEW k, Begun(t, scope, p, k), Script(t)
    PROVE  Houses(focus, db, moved, p)
<1> SUFFICES ASSUME NEW i \in 1..Len(p.todo), Nests(p.todo[i])
             PROVE  /\ p.todo[i].row.warehouse # None
                    /\ \/ Housed(db, moved, p.todo[i])
                       \/ \E j \in 1..(i - 1) : p.todo[j] = UpCheck(p.todo[i])
                                                /\ ~Skips(focus, p.scope, p.todo[j])
    BY DEF Houses
<1>1. Len(t) \in Nat \ {0} /\ p.scope = scope
    BY DEF Script, Begun
<1>2. PICK e \in 1..Len(t) : Since(t, scope, p, i, e)
    BY <1>1, BegunAt
<1>3. /\ t[e].row.warehouse # None /\ \E j \in 1..(e - 1) : t[j] = UpCheck(t[e])
    BY <1>2 DEF Script, Since
<1>4. PICK j \in 1..(e - 1) : t[j] = UpCheck(t[e])
    BY <1>3
<1>5. CASE Skips(focus, scope, t[j])
    <2>1. t[j].do # "scope"
        BY <1>4 DEF UpCheck
    <2>2. Passes(scope, t[j])
        BY <1>2, <1>5, <2>1, SettledPasses DEF Since
    <2>3. Housed(db, moved, t[e])
        BY <1>3, <1>4, <2>2, HousedByCheck
    <2> QED BY <1>2, <1>3, <2>3 DEF Since
<1>6. CASE ~Skips(focus, scope, t[j])
    BY <1>1, <1>2, <1>3, <1>4, <1>6 DEF Since
<1> QED BY <1>5, <1>6

LEMMA BegunSuits ==
    ASSUME NEW t, NEW scope, NEW p, NEW k, Begun(t, scope, p, k), Script(t), Typed(db)
    PROVE  Suits(focus, db, p)
<1> SUFFICES ASSUME NEW i \in 1..Len(p.todo), NEW u \in Product, NEW v \in Supplier,
                    Supplies(p.todo[i], u, v)
             PROVE  /\ Named(db, p.todo[i], u)
                    /\ \/ Owned(db, p.todo[i], u, v)
                       \/ \E j \in 1..(i - 1) : Vouches(p.todo[j], p.todo[i], u, v)
                                                /\ ~Skips(focus, p.scope, p.todo[j])
    BY DEF Suits
<1>1. Len(t) \in Nat \ {0} /\ p.scope = scope
    BY DEF Script, Begun
<1>2. PICK e \in 1..Len(t) : Since(t, scope, p, i, e)
    BY <1>1, BegunAt
<1>3. Named(db, t[e], u) /\ \E j \in 1..(e - 1) : Vouches(t[j], t[e], u, v)
    BY <1>2 DEF Script, Since
<1>4. PICK j \in 1..(e - 1) : Vouches(t[j], t[e], u, v)
    BY <1>3
<1>5. CASE Skips(focus, scope, t[j])
    <2>1. t[j].do # "scope"
        BY <1>4 DEF Vouches
    <2>2. Passes(scope, t[j])
        BY <1>2, <1>5, <2>1, SettledPasses DEF Since
    <2>3. Owned(db, t[e], u, v)
        BY <1>3, <1>4, <2>2, OwnedByCheck
    <2> QED BY <1>2, <1>3, <2>3 DEF Since
<1>6. CASE ~Skips(focus, scope, t[j])
    BY <1>1, <1>2, <1>3, <1>4, <1>6 DEF Since
<1> QED BY <1>5, <1>6

LEMMA BegunReaches ==
    ASSUME NEW t, NEW scope, NEW p, NEW k, Begun(t, scope, p, k), Script(t)
    PROVE  Reaches(focus, db, p)
<1>1. Len(t) \in Nat \ {0} /\ p.scope = scope
    BY DEF Script, Begun
<1> SUFFICES ASSUME scope # None
             PROVE  /\ scope.warehouses \subseteq Warehouse
                    /\ ReachOf(db, scope.warehouses) \subseteq p.reach
                    /\ \A i \in 1..Len(p.todo) : \A c \in Brings(p.todo[i]) :
                          \/ c \in p.reach
                          \/ \E j \in 1..(i - 1) : p.todo[j] = CustomerCheck(c)
                                                   /\ ~Skips(focus, scope, p.todo[j])
    BY <1>1 DEF Reaches
<1>2. scope.warehouses \subseteq Warehouse /\ p.reach = ReachOf(db, scope.warehouses)
    <2>1. p.reach = Reach(scope.warehouses)
        BY DEF Begun
    <2> QED BY <2>1 DEF Begun, Reach, ReachOf, Row
<1>3. ASSUME NEW i \in 1..Len(p.todo), NEW c \in Brings(p.todo[i])
      PROVE  \/ c \in p.reach
             \/ \E j \in 1..(i - 1) : p.todo[j] = CustomerCheck(c)
                                      /\ ~Skips(focus, scope, p.todo[j])
    <2>1. PICK e \in 1..Len(t) : Since(t, scope, p, i, e)
        BY <1>1, BegunAt
    <2>2. PICK j \in 1..(e - 1) : t[j] = CustomerCheck(c)
        BY <1>3, <2>1 DEF Script, Since
    <2>3. CASE Skips(focus, scope, t[j])
        <3>1. Passes(scope, CustomerCheck(c)) /\ c \in Customer
            BY <1>3, <2>1, <2>2, <2>3, SettledPasses DEF Brings, Since
        <3> QED BY <1>2, <3>1, ReachedByCheck
    <2>4. CASE ~Skips(focus, scope, t[j])
        BY <2>1, <2>2, <2>4 DEF Since
    <2> QED BY <2>3, <2>4
<1> QED BY <1>2, <1>3

LEMMA BegunFormed ==
    ASSUME NEW t, NEW scope, NEW p, NEW k, Begun(t, scope, p, k), Script(t)
    PROVE  Formed(p) /\ Spares(db, p)
<1> DEFINE n == Len(t)
           m == Len(p.todo)
<1>1. /\ k \in 1..n /\ m = n - k + 1 /\ \A i \in 1..m : p.todo[i] = t[i + k - 1]
      /\ IsSeq(p.todo)
    BY DEF Begun
<1>2. /\ p = [todo |-> p.todo, scope |-> p.scope, raced |-> p.raced, wrote |-> p.wrote,
              sums |-> p.sums, reach |-> p.reach]
      /\ p.raced = FALSE /\ p.wrote = FALSE /\ p.scope = scope
      /\ p.reach = IF scope = None THEN {} ELSE Reach(scope.warehouses)
    <2> DEFINE a == p.todo
               g == IF scope = None THEN {} ELSE Reach(scope.warehouses)
    <2>1. p = [todo |-> a, scope |-> scope, raced |-> FALSE, wrote |-> FALSE, sums |-> <<>>,
               reach |-> g]
        BY DEF Begun
    <2> HIDE DEF a, g
    <2>2. p.raced = FALSE /\ p.wrote = FALSE /\ p.scope = scope /\ p.reach = g
          /\ p.sums = <<>> /\ p.todo = a
        BY <2>1
    <2>3. p = [todo |-> p.todo, scope |-> p.scope, raced |-> p.raced, wrote |-> p.wrote,
               sums |-> p.sums, reach |-> p.reach]
        BY <2>1, <2>2
    <2> QED BY <2>2, <2>3 DEF g
<1>3. p.reach \subseteq Customer
    BY <1>2 DEF Reach
<1> HIDE DEF m, n
<1>4. n \in Nat \ {0} /\ n = Len(t) /\ m = Len(p.todo)
    BY DEF n, m, Script
<1>5. m \in Nat \ {0} /\ m + k - 1 = n /\ m \in 1..m
    BY <1>1, <1>4
<1>6. ASSUME NEW i \in 1..m PROVE i + k - 1 \in 1..n /\ p.todo[i] = t[i + k - 1]
    <2>1. i + k - 1 \in 1..n
        BY <1>1, <1>4
    <2> QED BY <1>1, <2>1
<1>7. Formed(p)
    <2>1. \A i \in 1..m : StepOK(p.todo[i])
        BY <1>4, <1>6 DEF Script
    <2>2. p.todo[m] = t[n]
        BY <1>1, <1>5
    <2>3. ~IsCheck(p.todo[m])
        BY <1>4, <2>2 DEF Script
    <2> QED BY <1>1, <1>2, <1>3, <1>4, <1>5, <2>1, <2>3 DEF Formed
<1>8. Spares(db, p)
    <2> SUFFICES ASSUME NEW i \in 1..m, Account(p.todo[i])
                 PROVE  /\ \A j \in 1..m : j # i => IsCheck(p.todo[j])
                        /\ Spared(db, p.todo[i])
        BY <1>4 DEF Spares
    <2> DEFINE e == i + k - 1
    <2>1. e \in 1..n /\ p.todo[i] = t[e]
        BY <1>6
    <2> HIDE DEF e
    <2>2. Spared(db, t[e]) /\ \A j \in 1..n : j # e => IsCheck(t[j])
        BY <1>4, <2>1 DEF Script
    <2>3. ASSUME NEW j \in 1..m, j # i PROVE IsCheck(p.todo[j])
        <3>1. j + k - 1 \in 1..n /\ p.todo[j] = t[j + k - 1]
            BY <1>6
        <3>2. j + k - 1 # e
            BY <1>1, <1>4, <2>3 DEF e
        <3> QED BY <2>2, <3>1, <3>2
    <2> QED BY <2>1, <2>2, <2>3
<1> QED BY <1>7, <1>8

LEMMA BegunTallied ==
    ASSUME NEW t, NEW scope, NEW p, NEW k, Begun(t, scope, p, k), Script(t)
    PROVE  Tallied(db, p)
<1> DEFINE n == Len(t)
           m == Len(p.todo)
           last == t[n]
<1>1. /\ k \in 1..n /\ m = n - k + 1 /\ \A i \in 1..m : p.todo[i] = t[i + k - 1]
      /\ \A j \in 1..(k - 1) : Skips(focus, scope, t[j])
    BY DEF Begun
<1>2. p.sums = <<>> /\ IsSeq(p.sums) /\ Len(p.sums) = 0 /\ 1..Len(p.sums) = {}
    <2>1. p.sums = <<>>
        BY DEF Begun
    <2> QED BY <2>1, EmptyIsSeq
<1>3. /\ n \in Nat \ {0}
      /\ \A i \in 1..n : t[i].do = "answer" => i = n
      /\ \A i \in 1..n : t[i].do = "sum" => last.do = "answer" /\ i >= n - 2
      /\ last.do = "answer" =>
            /\ n >= 3 /\ \A i \in 1..(n - 1) : i < n - 2 => IsCheck(t[i])
            /\ \A i \in 1..(n - 1) : i >= n - 2 => t[i].do = "sum" /\ t[i].of = last.of
    BY DEF Script
<1> HIDE DEF n, m, last
<1>4. m \in 1..n /\ m + k - 1 = n
    BY <1>1, <1>3
<1>5. ASSUME NEW i \in 1..m
      PROVE  i + k - 1 \in 1..n /\ p.todo[i] = t[i + k - 1] /\ (i < m => i + k - 1 < n)
    <2>1. i + k - 1 \in 1..n /\ (i < m => i + k - 1 < n)
        BY <1>1, <1>3
    <2> QED BY <1>1, <2>1
<1>6. p.todo[m] = last
    BY <1>4, <1>5 DEF last
<1>7. last.do = "answer" => k <= n - 2
    <2> SUFFICES ASSUME last.do = "answer", k > n - 2 PROVE FALSE
        BY <1>1, <1>3
    <2>1. n - 2 \in 1..(k - 1) /\ n - 2 \in 1..(n - 1) /\ n - 2 >= n - 2
        BY <1>1, <1>3
    <2>2. t[n - 2].do = "sum" /\ IsCheck(t[n - 2])
        BY <1>1, <1>3, <2>1, Kinds
    <2> QED BY <2>2, Kinds
<1>8. \A i \in 1..m : p.todo[i].do = "answer" => i = m
    <2> SUFFICES ASSUME NEW i \in 1..m, p.todo[i].do = "answer" PROVE i = m
        OBVIOUS
    <2>1. i + k - 1 = n
        BY <1>3, <1>5
    <2> QED BY <1>1, <1>3, <2>1
<1>9. \A i \in 1..m : p.todo[i].do = "sum" => last.do = "answer" /\ i >= m - 2
    <2> SUFFICES ASSUME NEW i \in 1..m, p.todo[i].do = "sum"
                 PROVE  last.do = "answer" /\ i >= m - 2
        OBVIOUS
    <2>1. last.do = "answer" /\ i + k - 1 >= n - 2
        BY <1>3, <1>5
    <2> QED BY <1>1, <1>3, <2>1
<1>10. ASSUME last.do = "answer", NEW i \in 1..(m - 1)
       PROVE  /\ i < m - 2 => IsCheck(p.todo[i])
              /\ i >= m - 2 => p.todo[i].do = "sum" /\ p.todo[i].of = last.of
    <2> DEFINE g == i + k - 1
    <2>1. i \in 1..m /\ i < m
        BY <1>4
    <2>2. g \in 1..n /\ g < n /\ p.todo[i] = t[g]
        BY <1>5, <2>1
    <2>3. g \in 1..(n - 1) /\ (i < m - 2 <=> g < n - 2) /\ (i >= m - 2 <=> g >= n - 2)
        BY <1>1, <1>3, <2>2
    <2> HIDE DEF g
    <2> QED BY <1>3, <1>10, <2>2, <2>3
<1>11. last.do = "answer" => m >= 3
    BY <1>1, <1>3, <1>7
<1>12. m = Len(p.todo)
    BY DEF m
<1> QED BY <1>2, <1>6, <1>8, <1>9, <1>10, <1>11, <1>12 DEF Tallied

(* A request whose script is a proper one may begin.                       *)
LEMMA BeginKeeps ==
    ASSUME IInv, NEW r \in Req, NEW table, NEW script, Begin(r, table, script), Script(script)
    PROVE  IInv'
<1>1. left \in 0..MaxRequests /\ Typed(db) /\ MaxRequests \in Nat
    BY RecordsAssumption DEF IInv
<1>2. left' = left - 1 /\ left > 0 /\ UNCHANGED <<db, focus, moved>>
    BY DEF Begin
<1> DEFINE todo(scope) == Pending(scope, script)
           next(scope) == [todo |-> todo(scope), scope |-> scope, raced |-> FALSE,
                           wrote |-> FALSE, sums |-> <<>>,
                           reach |-> IF scope = None THEN {} ELSE Reach(scope.warehouses)]
<1>3. PICK scope \in Scopes \cup {None} :
          /\ \A i \in DOMAIN script : Settled(script[i]) => Passes(scope, script[i])
          /\ req' = [req EXCEPT ![r] = next(scope)]
    BY DEF Begin
<1>4. scope # None => scope.warehouses \subseteq Warehouse
    <2>1. ASSUME NEW x \in Scopes, x # None PROVE x.warehouses \subseteq Warehouse
        <3>1. PICK u \in User : x = [warehouses |-> WarehousesOf(u), operator |-> Row(u).operator]
            BY <2>1 DEF Scopes
        <3>2. x.warehouses = WarehousesOf(u)
            BY <3>1
        <3> QED BY <3>2 DEF WarehousesOf
    <2> HIDE DEF next
    <2> QED BY <1>3, <2>1
<1>5. IsSeq(script) /\ Len(script) \in Nat \ {0} /\ ~IsCheck(script[Len(script)])
      /\ DOMAIN script = 1..Len(script)
    BY DEF Script, IsSeq
<1> DEFINE p == next(scope)
<1>6. p.todo = Pending(scope, script)
    OBVIOUS
<1>7. p = [todo |-> p.todo, scope |-> scope, raced |-> FALSE, wrote |-> FALSE, sums |-> <<>>,
           reach |-> IF scope = None THEN {} ELSE Reach(scope.warehouses)]
    OBVIOUS
<1> HIDE DEF p, next, todo
<1>8. p.todo # <<>>
    BY <1>5, <1>6, Lasts
<1>9. IsSeq(p.todo)
    BY <1>5, <1>6, <1>8, PendingIs
<1>10. PICK k \in 1..Len(script) : From(scope, script, p.todo, k)
    BY <1>5, <1>6, <1>8, PendingIs
<1>11. Begun(script, scope, p, k)
    <2>1. \A j \in 1..(k - 1) : Skips(focus, scope, script[j])
        BY <1>10, SkipsIs DEF From
    <2>2. \A i \in 1..Len(script) : Settled(script[i]) => Passes(scope, script[i])
        BY <1>3, <1>5
    <2> QED BY <1>4, <1>7, <1>9, <1>10, <2>1, <2>2 DEF Begun, From
<1>12. ReqInv(focus, db, moved, p)
    BY <1>1, <1>11, BegunFormed, BegunHouses, BegunSuits, BegunReaches, BegunTallied DEF ReqInv
<1>13. left' \in 0..MaxRequests
    BY <1>1, <1>2
<1>14. req' = [req EXCEPT ![r] = p]
    BY <1>3 DEF p
<1> QED BY <1>2, <1>12, <1>13, <1>14, RequestStep

Checks(t) == IsSeq(t) /\ \A i \in DOMAIN t : IsCheck(t[i])
Holds(t, s) == \E i \in DOMAIN t : t[i] = s

-----------------------------------------------------------------------------
(* Scripts: checks, and then a statement that they guard.                  *)
LEMMA SeqIs ==
    ASSUME NEW t, IsSeq(t)
    PROVE  Len(t) \in Nat /\ DOMAIN t = 1..Len(t)
BY DEF IsSeq

LEMMA ChecksOne == ASSUME NEW s, IsCheck(s) PROVE Checks(<<s>>)
BY Single DEF Checks

LEMMA ChecksNone == Checks(<<>>)
BY EmptyIsSeq DEF Checks

LEMMA ChecksJoin ==
    ASSUME NEW a, NEW b, Checks(a), Checks(b)
    PROVE  Checks(a \o b)
<1>1. IsSeq(a) /\ IsSeq(b)
    BY DEF Checks
<1>2. IsSeq(a \o b)
      /\ \A i \in DOMAIN (a \o b) :
            \/ i \in DOMAIN a /\ (a \o b)[i] = a[i]
            \/ i - Len(a) \in DOMAIN b /\ (a \o b)[i] = b[i - Len(a)]
    BY <1>1, Joined
<1> QED BY <1>2 DEF Checks

LEMMA ChecksWhen ==
    ASSUME NEW g \in BOOLEAN, NEW t, g => Checks(t)
    PROVE  Checks(When(g, t))
BY ChecksNone DEF When

LEMMA HoldsOne == \A s : Holds(<<s>>, s)
BY Single DEF Holds

LEMMA HoldsJoin ==
    ASSUME NEW a, NEW b, IsSeq(a), IsSeq(b), NEW s, Holds(a, s) \/ Holds(b, s)
    PROVE  Holds(a \o b, s)
<1> DEFINE t == a \o b
           m == Len(a)
           n == Len(b)
<1>1. /\ m \in Nat /\ n \in Nat /\ Len(t) = m + n /\ IsSeq(t)
      /\ \A i \in 1..m : t[i] = a[i]
      /\ \A i \in 1..n : t[m + i] = b[i]
    BY Joined
<1>2. DOMAIN a = 1..m /\ DOMAIN b = 1..n /\ DOMAIN t = 1..(m + n)
    BY <1>1, SeqIs
<1> HIDE DEF t, m, n
<1>3. CASE Holds(a, s)
    <2>1. PICK i \in 1..m : a[i] = s
        BY <1>2, <1>3 DEF Holds
    <2>2. i \in 1..(m + n) /\ t[i] = s
        BY <1>1, <2>1
    <2> QED BY <1>2, <2>2 DEF Holds, t
<1>4. CASE Holds(b, s)
    <2>1. PICK i \in 1..n : b[i] = s
        BY <1>2, <1>4 DEF Holds
    <2>2. m + i \in 1..(m + n) /\ t[m + i] = s
        BY <1>1, <2>1
    <2> QED BY <1>2, <2>2 DEF Holds, t
<1> QED BY <1>3, <1>4

(* The checks of a script.                                                 *)
LEMMA Lookups ==
    /\ \A x : Checks(Exists(x))
    /\ \A x : Checks(Active(x))
    /\ \A S : Checks(AllActive(S))
    /\ \A x, f, y : Checks(Within(x, f, y))
    /\ \A S, x : Checks(AllOf(S, x))
    /\ \A w : Checks(Shared(w))
    /\ \A w, c : Checks(Admits(w, c))
    /\ \A m : Checks(NoChild(m))
BY ChecksOne DEF IsCheck, Exists, Active, AllActive, Within, AllOf, Shared, Admits, NoChild

LEMMA Asked ==
    /\ Checks(AdminOnly) /\ Checks(SomeScope)
    /\ \A w : Checks(Allowed(w))
    /\ \A x : Checks(AllowedAt(x))
    /\ \A c : Checks(AllowedCustomer(c))
    /\ \A x : Checks(AllowedCustomerOf(x))
    /\ \A o : Checks(AllowedOperator(o))
    /\ \A o, p : Checks(AllowedOwnerOperator(o, p))
BY ChecksOne DEF IsCheck, AdminOnly, SomeScope, Allowed, AllowedAt, AllowedCustomer,
                 AllowedCustomerOf, AllowedOperator, AllowedOwnerOperator

(* A script of checks and one statement.                                   *)
Guarded(a, s) ==
    /\ StepOK(s) /\ ~IsCheck(s) /\ s.do \notin {"sum", "answer"}
    /\ Nests(s) => s.row.warehouse # None /\ Holds(a, UpCheck(s))
    /\ \A p \in Product, v \in Supplier : Supplies(s, p, v) =>
          Named(db, s, p) /\ \E i \in DOMAIN a : Vouches(a[i], s, p, v)
    /\ \A c \in Brings(s) : Holds(a, CustomerCheck(c))
    /\ Account(s) => Spared(db, s)

(* A statement that needs some of the checks before it.                    *)
LEMMA GuardedScript ==
    ASSUME NEW a, Checks(a), NEW s, Guarded(a, s)
    PROVE  Script(a \o <<s>>)
<1> DEFINE b == <<s>>
           t == a \o b
           m == Len(a)
           n == Len(t)
<1>1. IsSeq(b) /\ Len(b) = 1 /\ b[1] = s
    BY Single
<1>2. IsSeq(a) /\ m \in Nat /\ DOMAIN a = 1..m /\ \A i \in 1..m : IsCheck(a[i])
    BY SeqIs DEF Checks
<1> HIDE DEF b
<1>3. /\ IsSeq(t) /\ n = m + 1
      /\ \A i \in 1..m : t[i] = a[i]
      /\ \A i \in 1..Len(b) : t[m + i] = b[i]
    <2>1. IsSeq(a) /\ IsSeq(b)
        BY <1>1, <1>2
    <2>2. IsSeq(t) /\ n = m + Len(b)
        BY <2>1, Joined
    <2>3. \A i \in 1..m : t[i] = a[i]
        BY <2>1, Joined
    <2>4. \A i \in 1..Len(b) : t[m + i] = b[i]
        BY <2>1, Joined
    <2> QED BY <1>1, <2>2, <2>3, <2>4
<1> HIDE DEF t, m, n
<1>4. t[m + 1] = s /\ t[n] = s
    BY <1>1, <1>3
<1>5. \A i \in 1..m : IsCheck(t[i]) /\ t[i] = a[i]
    BY <1>2, <1>3
<1>6. n \in Nat \ {0} /\ n - 1 = m /\ n = Len(t) /\ \A i \in 1..n : i \in 1..m \/ i = n
    BY <1>2, <1>3 DEF n
<1>7. \A x : IsCheck(x) => /\ StepOK(x) /\ ~Nests(x) /\ Brings(x) = {} /\ ~Account(x)
                           /\ x.do \notin {"sum", "answer"}
                           /\ \A p, v : ~Supplies(x, p, v)
    BY DEF IsCheck, StepOK, Nests, Brings, AddsLinks, Account, Supplies
<1>8. \A x : Holds(a, x) => \E j \in 1..m : t[j] = x
    BY <1>2, <1>3 DEF Holds
<1>9. ~IsCheck(t[n]) /\ \A i \in 1..n : StepOK(t[i])
    BY <1>4, <1>5, <1>6, <1>7 DEF Guarded
<1>10. \A i \in 1..n : Nests(t[i]) =>
           t[i].row.warehouse # None /\ \E j \in 1..(i - 1) : t[j] = UpCheck(t[i])
    BY <1>4, <1>5, <1>6, <1>7, <1>8 DEF Guarded
<1>11. ASSUME NEW i \in 1..n, NEW p \in Product, NEW v \in Supplier, Supplies(t[i], p, v)
       PROVE  Named(db, t[i], p) /\ \E j \in 1..(i - 1) : Vouches(t[j], t[i], p, v)
    <2>1. i = n /\ t[i] = s
        BY <1>4, <1>5, <1>6, <1>7, <1>11
    <2>2. Named(db, s, p) /\ \E j \in 1..m : Vouches(a[j], s, p, v)
        BY <1>2, <1>11, <2>1 DEF Guarded
    <2> QED BY <1>5, <1>6, <2>1, <2>2
<1>12. \A i \in 1..n : \A c \in Brings(t[i]) : \E j \in 1..(i - 1) : t[j] = CustomerCheck(c)
    BY <1>4, <1>5, <1>6, <1>7, <1>8 DEF Guarded
<1>13. \A i \in 1..n : Account(t[i]) =>
           Spared(db, t[i]) /\ \A j \in 1..n : j # i => IsCheck(t[j])
    BY <1>4, <1>5, <1>6, <1>7 DEF Guarded
<1>14. \A i \in 1..n : t[i].do \notin {"sum", "answer"}
    BY <1>4, <1>5, <1>6, <1>7 DEF Guarded
<1>15. t[n].do # "answer"
    BY <1>6, <1>14
<1>16. Script(t)
    BY <1>3, <1>6, <1>9, <1>10, <1>11, <1>12, <1>13, <1>14, <1>15 DEF Script
<1> QED BY <1>16 DEF t, b

(* A statement that no check need precede.                                 *)
Gentle(s) ==
    /\ StepOK(s) /\ ~IsCheck(s) /\ s.do \notin {"sum", "answer"}
    /\ ~Nests(s) /\ Brings(s) = {} /\ ~Account(s)
    /\ \A p \in Product, v \in Supplier : ~Supplies(s, p, v)

(* ... and one that needs none.                                            *)
LEMMA GentleScript ==
    ASSUME NEW a, Checks(a), NEW s, Gentle(s)
    PROVE  Script(a \o <<s>>)
<1>1. Guarded(a, s)
    BY DEF Gentle, Guarded
<1> QED BY <1>1, GuardedScript

LEMMA GentleInsert ==
    ASSUME NEW x \in Id, x \notin Zone \cup Bin \cup Warehouse, NEW row, Held(x, row)
    PROVE  Gentle([do |-> "insert", of |-> x, row |-> row])
<1> DEFINE s == [do |-> "insert", of |-> x, row |-> row]
<1>1. s.do = "insert" /\ s.of = x /\ s.row = row
    OBVIOUS
<1> HIDE DEF s
<1>2. Proper(s) /\ Lone(s)
    BY <1>1 DEF Proper, Lone, AddsLinks
<1>3. Brings(s) = {}
    BY <1>1 DEF Brings, AddsLinks
<1>4. Gentle(s)
    BY <1>1, <1>2, <1>3 DEF Gentle, StepOK, IsCheck, Nests, Account, Supplies
<1> QED BY <1>4 DEF s

LEMMA GentleChange ==
    ASSUME NEW x \in Id \ PlatformUser, NEW fields, Fit(fields),
           "customer" \in DOMAIN fields => x \notin Product \cup Supplier \cup Warehouse
    PROVE  Gentle([do |-> "change", of |-> x, fields |-> fields])
<1> DEFINE s == [do |-> "change", of |-> x, fields |-> fields]
<1>1. s.do = "change" /\ s.of = x /\ s.fields = fields
    OBVIOUS
<1> HIDE DEF s
<1>2. Proper(s) /\ Lone(s)
    BY <1>1 DEF Proper, Lone, AddsLinks
<1>3. Brings(s) = {}
    BY <1>1 DEF Brings, AddsLinks
<1>4. Gentle(s)
    BY <1>1, <1>2, <1>3 DEF Gentle, StepOK, IsCheck, Nests, Account, Supplies
<1> QED BY <1>4 DEF s

LEMMA GentleErase ==
    ASSUME NEW x \in Id \ PlatformUser
    PROVE  Gentle([do |-> "erase", of |-> x])
<1> DEFINE s == [do |-> "erase", of |-> x]
<1>1. s.do = "erase" /\ s.of = x
    OBVIOUS
<1> HIDE DEF s
<1>2. Proper(s) /\ Lone(s)
    BY <1>1 DEF Proper, Lone, AddsLinks
<1>3. Brings(s) = {}
    BY <1>1 DEF Brings, AddsLinks
<1>4. Gentle(s)
    BY <1>1, <1>2, <1>3 DEF Gentle, StepOK, IsCheck, Nests, Account, Supplies
<1> QED BY <1>4 DEF s

(* Statements for an array or a transaction.                               *)
Part(s) == Proper(s) /\ Lone(s) /\ Calm(s) /\ Moves(s) = {}
Parts(t, low, high) ==
    IsSeq(t) /\ Len(t) \in low..high /\ \A i \in DOMAIN t : Part(t[i])

(* Arrays and transactions of statements that need none.                   *)
LEMMA PartsJoin ==
    ASSUME NEW i \in Nat, NEW j \in Nat, NEW k \in Nat, NEW l \in Nat,
           NEW a, NEW b, Parts(a, i, j), Parts(b, k, l)
    PROVE  Parts(a \o b, i + k, j + l)
<1>1. IsSeq(a) /\ IsSeq(b) /\ Len(a) \in i..j /\ Len(b) \in k..l
    BY DEF Parts
<1>2. IsSeq(a \o b) /\ Len(a \o b) = Len(a) + Len(b)
    BY <1>1, Joined
<1>3. \A g \in DOMAIN (a \o b) :
            \/ g \in DOMAIN a /\ (a \o b)[g] = a[g]
            \/ g - Len(a) \in DOMAIN b /\ (a \o b)[g] = b[g - Len(a)]
    BY <1>1, Joined
<1>4. Len(a \o b) \in (i + k)..(j + l)
    BY <1>1, <1>2
<1> QED BY <1>2, <1>3, <1>4 DEF Parts

LEMMA PartsOne == ASSUME NEW s, Part(s) PROVE Parts(<<s>>, 1, 1)
BY Single DEF Parts

LEMMA PartsWhen ==
    ASSUME NEW g \in BOOLEAN, NEW t, NEW n \in Nat, NEW m \in Nat, g => Parts(t, m, n)
    PROVE  Parts(When(g, t), 0, n)
<1>1. IsSeq(<<>>) /\ Len(<<>>) \in 0..n /\ DOMAIN <<>> = {}
    BY EmptyIsSeq
<1>2. g => Parts(t, 0, n)
    BY DEF Parts
<1> QED BY <1>1, <1>2 DEF When, Parts

LEMMA TransactScript ==
    ASSUME NEW a, Checks(a), NEW all, Parts(all, 1, 3),
           \A i \in DOMAIN all : AddsLinks(all[i]) => all[i].links \cap (Product \X Supplier) = {}
    PROVE  Script(a \o Transact(all))
<1> DEFINE s == [do |-> "tx", all |-> all]
<1>1. s.do = "tx" /\ s.all = all
    OBVIOUS
<1> HIDE DEF s
<1>2. Len(all) \in 1..3 /\ DOMAIN all = 1..Len(all) /\ \A i \in 1..Len(all) : Part(all[i])
    BY SeqIs DEF Parts
<1>3. StepOK(s)
    BY <1>1, <1>2 DEF StepOK, InOne, Part
<1>4. Brings(s) = {}
    BY <1>1 DEF Brings, AddsLinks
<1>5. ASSUME NEW p \in Product, NEW v \in Supplier PROVE ~Supplies(s, p, v)
    <2> SUFFICES ASSUME NEW i \in 1..Len(all), AddsLinks(all[i]), <<p, v>> \in all[i].links
                 PROVE  FALSE
        BY <1>1 DEF Supplies
    <2>1. <<p, v>> \in all[i].links \cap (Product \X Supplier)
        OBVIOUS
    <2> QED BY <1>2, <2>1
<1>6. Gentle(s)
    BY <1>1, <1>3, <1>4, <1>5 DEF Gentle, IsCheck, Nests, Account
<1> QED BY <1>6, GentleScript DEF Transact, s

LEMMA BatchScript ==
    ASSUME NEW a, Checks(a), NEW t, NEW m \in Nat, NEW n \in Nat, Parts(t, m, n)
    PROVE  Script(a \o Batch(t))
<1> DEFINE s == [do |-> "batch", any |-> ToSet(t)]
<1>1. s.do = "batch" /\ s.any = ToSet(t) /\ s = [do |-> "batch", any |-> s.any]
    OBVIOUS
<1> HIDE DEF s
<1>2. \A e \in s.any : Part(e)
    BY <1>1 DEF Parts, ToSet
<1>3. StepOK(s)
    BY <1>1, <1>2 DEF StepOK, Part
<1>4. Brings(s) = {}
    BY <1>1 DEF Brings, AddsLinks
<1>5. Gentle(s)
    BY <1>1, <1>3, <1>4 DEF Gentle, IsCheck, Nests, Account, Supplies
<1> QED BY <1>5, GentleScript DEF Batch, s

(* The usual scripts.                                                      *)
LEMMA InsertScript ==
    ASSUME NEW a, Checks(a), NEW x \in Id, x \notin Zone \cup Bin \cup Warehouse, NEW row,
           Held(x, row)
    PROVE  Script(a \o Insert(x, row))
BY GentleInsert, GentleScript DEF Insert

LEMMA ChangeScript ==
    ASSUME NEW a, Checks(a), NEW x \in Id \ PlatformUser, NEW fields, Fit(fields),
           "customer" \in DOMAIN fields => x \notin Product \cup Supplier \cup Warehouse
    PROVE  Script(a \o Change(x, fields))
BY GentleChange, GentleScript DEF Change

LEMMA EraseScript ==
    ASSUME NEW a, Checks(a), NEW x \in Id \ PlatformUser
    PROVE  Script(a \o Erase(x))
BY GentleErase, GentleScript DEF Erase

LEMMA Actives ==
    /\ Fit([active |-> TRUE]) /\ Fit([active |-> FALSE])
    /\ DOMAIN [active |-> TRUE] = {"active"} /\ DOMAIN [active |-> FALSE] = {"active"}
    /\ \A on \in Activity : Fit(on) /\ DOMAIN on = {"active"}
<1>1. ASSUME NEW on \in Activity PROVE Fit(on) /\ DOMAIN on = {"active"}
    <2>1. PICK v \in BOOLEAN : on = [g \in {"active"} |-> v]
        BY DEF Activity, OneField
    <2>2. DOMAIN on = {"active"} /\ on["active"] = v
        BY <2>1
    <2> HIDE DEF OneField
    <2> QED BY <2>2 DEF Fit, Target
<1> QED BY <1>1 DEF Fit, Target

LEMMA DeleteScript ==
    ASSUME NEW a, Checks(a), NEW x \in Id \ PlatformUser, NEW hard \in BOOLEAN
    PROVE  Script(a \o Delete(x, hard))
<1>1. Script(a \o Erase(x))
    BY EraseScript
<1>2. Script(a \o Change(x, [active |-> FALSE]))
    BY Actives, ChangeScript
<1> QED BY <1>1, <1>2 DEF Delete

(* Fields of updates.                                                      *)
LEMMA FitWith ==
    ASSUME NEW a, NEW b, Fit(a), Fit(b)
    PROVE  Fit(With(a, b)) /\ DOMAIN With(a, b) = DOMAIN a \cup DOMAIN b
BY DEF Fit, With

LEMMA FitGiven ==
    ASSUME NEW f \in DOMAIN Target, NEW v \in Target[f] \cup {None}
    PROVE  Fit(Given(f, v)) /\ DOMAIN Given(f, v) \subseteq {f}
<1>1. f \notin {"active", "period"}
    BY DEF Target
<1> QED BY <1>1 DEF Fit, Given

LEMMA HeldIs ==
    ASSUME NEW x \in Id, NEW row, Fit(row), "active" \in DOMAIN row,
           x \in Warehouse \cup Product \cup Supplier => "customer" \in DOMAIN row,
           x \in Area \cup Zone \cup Bin => "warehouse" \in DOMAIN row,
           x \in Zone => "area" \in DOMAIN row,
           x \in Bin => "zone" \in DOMAIN row,
           x \in Transaction => "period" \in DOMAIN row
    PROVE  Held(x, row)
BY DEF Held, Needed

LEMMA JoinNone ==
    ASSUME NEW s
    PROVE  <<>> \o <<s>> = <<s>>
OBVIOUS

LEMMA JoinJoin ==
    ASSUME NEW a, NEW b, NEW c, IsSeq(a), IsSeq(b), IsSeq(c)
    PROVE  a \o (b \o c) = (a \o b) \o c
<1> DEFINE R(s) == {s[i] : i \in DOMAIN s}
           S == R(a) \cup R(b) \cup R(c)
<1>1. a \in Seq(S) /\ b \in Seq(S) /\ c \in Seq(S)
    <2>1. a \in Seq(R(a)) /\ b \in Seq(R(b)) /\ c \in Seq(R(c))
        BY DEF IsSeq
    <2> HIDE DEF R
    <2> QED BY <2>1
<1> HIDE DEF S
<1> QED BY <1>1

LEMMA LoneScript ==
    ASSUME NEW s, Guarded(<<>>, s)
    PROVE  Script(<<s>>)
BY ChecksNone, JoinNone, GuardedScript

LEMMA LoneInsert ==
    ASSUME NEW x \in Id, x \notin Zone \cup Bin \cup Warehouse, NEW row, Held(x, row)
    PROVE  Script(Insert(x, row))
<1> DEFINE s == [do |-> "insert", of |-> x, row |-> row]
<1>1. Gentle(s)
    BY GentleInsert
<1> HIDE DEF s
<1>2. Guarded(<<>>, s)
    BY <1>1 DEF Gentle, Guarded
<1> QED BY <1>2, LoneScript DEF Insert, s

LEMMA Ids ==
    /\ Customer \subseteq Id /\ Company \subseteq Id /\ Warehouse \subseteq Id /\ Area \subseteq Id
    /\ Zone \subseteq Id /\ Bin \subseteq Id /\ Product \subseteq Id /\ Supplier \subseteq Id
    /\ Uom \subseteq Id /\ Conversion \subseteq Id /\ User \subseteq Id /\ Role \subseteq Id
    /\ Menu \subseteq Id /\ PlatformUser \subseteq Id /\ Contract \subseteq Id /\ Rate \subseteq Id
    /\ Transaction \subseteq Id
BY DEF Id

LEMMA Parents ==
    /\ Target["customer"] = Customer /\ Target["owner"] = Company /\ Target["operator"] = Company
    /\ Target["warehouse"] = Warehouse /\ Target["area"] = Area /\ Target["zone"] = Zone
    /\ Target["product"] = Product /\ Target["from"] = Uom /\ Target["to"] = Uom
    /\ Target["base"] = Uom /\ Target["parent"] = Menu /\ Target["contract"] = Contract
    /\ DOMAIN Target = {"customer", "owner", "operator", "warehouse", "area", "zone", "product",
                        "from", "to", "base", "parent", "contract"}
BY DEF Target

LEMMA FitMore ==
    ASSUME NEW fields, Fit(fields), NEW f \in DOMAIN Target, NEW v \in Target[f] \cup {None}
    PROVE  /\ Fit(With(fields, Given(f, v)))
           /\ DOMAIN With(fields, Given(f, v)) \subseteq DOMAIN fields \cup {f}
<1>1. Fit(Given(f, v)) /\ DOMAIN Given(f, v) \subseteq {f}
    BY FitGiven
<1> QED BY <1>1, FitWith

LEMMA FitUpdate ==
    ASSUME NEW on \in Activity, NEW f \in DOMAIN Target, NEW v \in Target[f] \cup {None}
    PROVE  /\ Fit(With(on, Given(f, v)))
           /\ DOMAIN With(on, Given(f, v)) \subseteq {"active", f}
<1>1. Fit(on) /\ DOMAIN on = {"active"}
    BY Actives
<1> QED BY <1>1, FitMore

(* Parts of arrays and transactions.                                       *)
LEMMA LinkParts ==
    /\ \A x, others : Parts(SwitchOff(x, others), 1, 1) /\ Parts(DeleteMany(x, others), 1, 1)
    /\ \A links : /\ links \subseteq LinkType
                  /\ \A w \in Warehouse, c \in Customer : <<w, c>> \notin links
                  /\ \A p \in Product, v \in Supplier : <<p, v>> \notin links
                  => Parts(Upsert(links), 1, 1) /\ Parts(CreateMany(links), 1, 1)
<1>1. ASSUME NEW x, NEW others
      PROVE  Parts(SwitchOff(x, others), 1, 1) /\ Parts(DeleteMany(x, others), 1, 1)
    <2>1. Part([do |-> "off", of |-> x, others |-> others])
        BY DEF Part, Proper, Lone, Calm, Moves, Brings, AddsLinks
    <2>2. Part([do |-> "unlink", of |-> x, others |-> others])
        BY DEF Part, Proper, Lone, Calm, Moves, Brings, AddsLinks
    <2> QED BY <2>1, <2>2, PartsOne DEF SwitchOff, DeleteMany
<1>2. ASSUME NEW links, links \subseteq LinkType,
             \A w \in Warehouse, c \in Customer : <<w, c>> \notin links,
             \A p \in Product, v \in Supplier : <<p, v>> \notin links
      PROVE  Parts(Upsert(links), 1, 1) /\ Parts(CreateMany(links), 1, 1)
    <2>1. links \cap (Product \X Supplier) = {}
        BY <1>2
    <2>2. Part([do |-> "upsert", links |-> links])
        BY <1>2, <2>1 DEF Part, Proper, Lone, Calm, Moves, Brings, AddsLinks
    <2>3. Part([do |-> "createMany", links |-> links])
        BY <1>2, <2>1 DEF Part, Proper, Lone, Calm, Moves, Brings, AddsLinks
    <2> QED BY <2>2, <2>3, PartsOne DEF Upsert, CreateMany
<1> QED BY <1>1, <1>2

LEMMA RowParts ==
    /\ \A x \in Id \ PlatformUser : Parts(Erase(x), 1, 1)
    /\ \A S \in SUBSET Rate : \A f, x : Parts(EraseAll(S, f, x), 1, 1)
    /\ \A x \in Id : \A row :
          /\ x \notin Warehouse \cup Zone \cup Bin \cup PlatformUser
          /\ Held(x, row)
          => Parts(Insert(x, row), 1, 1)
    /\ \A x \in Id \ PlatformUser : \A fields :
          /\ Fit(fields) /\ "customer" \notin DOMAIN fields /\ DOMAIN fields \cap Ups = {}
          => Parts(Change(x, fields), 1, 1)
<1>1. ASSUME NEW x \in Id \ PlatformUser PROVE Parts(Erase(x), 1, 1)
    <2>1. Part([do |-> "erase", of |-> x])
        BY DEF Part, Proper, Lone, Calm, Moves, Brings, AddsLinks
    <2> QED BY <2>1, PartsOne DEF Erase
<1>2. ASSUME NEW S \in SUBSET Rate, NEW f, NEW x PROVE Parts(EraseAll(S, f, x), 1, 1)
    <2>1. Part([do |-> "eraseAll", of |-> x, field |-> f, in |-> S])
        BY DEF Part, Proper, Lone, Calm, Moves, Brings, AddsLinks
    <2> QED BY <2>1, PartsOne DEF EraseAll
<1>3. ASSUME NEW x \in Id, NEW row, x \notin Warehouse \cup Zone \cup Bin \cup PlatformUser,
             Held(x, row)
      PROVE  Parts(Insert(x, row), 1, 1)
    <2> DEFINE s == [do |-> "insert", of |-> x, row |-> row]
    <2>1. s.do = "insert" /\ s.of = x /\ s.row = row
        OBVIOUS
    <2> HIDE DEF s
    <2>2. Part(s)
        BY <1>3, <2>1 DEF Part, Proper, Lone, Calm, Moves, Brings, AddsLinks
    <2> QED BY <2>2, PartsOne DEF Insert, s
<1>4. ASSUME NEW x \in Id \ PlatformUser, NEW fields, Fit(fields),
             "customer" \notin DOMAIN fields, DOMAIN fields \cap Ups = {}
      PROVE  Parts(Change(x, fields), 1, 1)
    <2> DEFINE s == [do |-> "change", of |-> x, fields |-> fields]
    <2>1. s.do = "change" /\ s.of = x /\ s.fields = fields
        OBVIOUS
    <2> HIDE DEF s
    <2>2. Part(s)
        BY <1>4, <2>1 DEF Part, Proper, Lone, Calm, Moves, Brings, AddsLinks
    <2> QED BY <2>2, PartsOne DEF Change, s
<1> QED BY <1>1, <1>2, <1>3, <1>4

-----------------------------------------------------------------------------
(* Access management: every request of it may begin.                       *)
LEMMA RoleKeeps ==
    ASSUME IInv, NEW r \in Req, NEW o \in Role
    PROVE  /\ CreateRole(r, o) => IInv'
           /\ \A on \in Activity : UpdateRole(r, o, on) => IInv'
           /\ \A hard \in BOOLEAN : DeleteRole(r, o, hard) => IInv'
           /\ \A menus \in SUBSET Menu : AssignRoleMenus(r, o, menus) => IInv'
<1>1. o \in Id \ PlatformUser /\ o \notin Warehouse \cup Area \cup Zone \cup Bin \cup Product
                                          \cup Supplier \cup Transaction
    BY Apart, Ids
<1>2. Script(Insert(o, [active |-> TRUE]))
    <2>1. Held(o, [active |-> TRUE])
        BY <1>1, Actives, HeldIs
    <2> QED BY <1>1, <2>1, LoneInsert
<1>3. ASSUME NEW on \in Activity PROVE Script(Exists(o) \o Change(o, on))
    BY <1>1, Lookups, Actives, ChangeScript
<1>4. Script(Exists(o) \o Batch(DeleteMany(o, User) \o DeleteMany(o, Menu) \o Erase(o)))
    <2>1. Parts(DeleteMany(o, User) \o DeleteMany(o, Menu), 2, 2)
        BY LinkParts, PartsJoin
    <2>2. Parts(DeleteMany(o, User) \o DeleteMany(o, Menu) \o Erase(o), 3, 3)
        BY <1>1, <2>1, RowParts, PartsJoin
    <2> QED BY <2>2, Lookups, BatchScript
<1>5. Script(Exists(o) \o Change(o, [active |-> FALSE]))
    BY <1>1, Lookups, Actives, ChangeScript
<1>6. ASSUME NEW menus \in SUBSET Menu
      PROVE  Script(Active(o) \o When(menus # {}, AllActive(menus))
                 \o Batch(DeleteMany(o, Menu) \o When(menus # {}, CreateMany({o} \X menus))))
    <2>1. Checks(Active(o) \o When(menus # {}, AllActive(menus)))
        BY Lookups, ChecksWhen, ChecksJoin
    <2>2. Parts(CreateMany({o} \X menus), 1, 1)
        <3>1. {o} \X menus \subseteq LinkType
            BY DEF LinkType
        <3>2. /\ \A w \in Warehouse, c \in Customer : <<w, c>> \notin {o} \X menus
              /\ \A p \in Product, v \in Supplier : <<p, v>> \notin {o} \X menus
            BY <1>1
        <3> QED BY <3>1, <3>2, LinkParts
    <2>3. Parts(When(menus # {}, CreateMany({o} \X menus)), 0, 1)
        BY <2>2, PartsWhen
    <2>4. Parts(DeleteMany(o, Menu) \o When(menus # {}, CreateMany({o} \X menus)), 1, 2)
        BY <2>3, LinkParts, PartsJoin
    <2> QED BY <2>1, <2>4, BatchScript
<1>7. CreateRole(r, o) => IInv'
    BY <1>2, BeginKeeps DEF CreateRole
<1>8. ASSUME NEW on \in Activity, UpdateRole(r, o, on) PROVE IInv'
    BY <1>3, <1>8, BeginKeeps DEF UpdateRole
<1>9. ASSUME NEW hard \in BOOLEAN, DeleteRole(r, o, hard) PROVE IInv'
    <2>1. CASE hard
        BY <1>4, <1>9, <2>1, BeginKeeps DEF DeleteRole
    <2>2. CASE ~hard
        BY <1>5, <1>9, <2>2, BeginKeeps DEF DeleteRole
    <2> QED BY <2>1, <2>2
<1>10. ASSUME NEW menus \in SUBSET Menu, AssignRoleMenus(r, o, menus) PROVE IInv'
    BY <1>6, <1>10, BeginKeeps DEF AssignRoleMenus
<1> QED BY <1>7, <1>8, <1>9, <1>10

LEMMA MenuKeeps ==
    ASSUME IInv, NEW r \in Req, NEW m \in Menu
    PROVE  /\ \A parent \in Menu \cup {None} : CreateMenu(r, m, parent) => IInv'
           /\ \A parent \in Menu \cup {None}, on \in Activity :
                 UpdateMenu(r, m, parent, on) => IInv'
           /\ \A hard \in BOOLEAN : DeleteMenu(r, m, hard) => IInv'
<1>1. m \in Id \ PlatformUser /\ m \notin Warehouse \cup Area \cup Zone \cup Bin \cup Product
                                          \cup Supplier \cup Transaction
    BY Apart, Ids
<1>2. ASSUME NEW parent \in Menu \cup {None}, CreateMenu(r, m, parent) PROVE IInv'
    <2> DEFINE row == [active |-> TRUE, parent |-> parent]
    <2>1. DOMAIN row = {"active", "parent"} /\ row["active"] = TRUE /\ row["parent"] = parent
        OBVIOUS
    <2> HIDE DEF row
    <2>2. Held(m, row)
        <3>1. Fit(row)
            BY <2>1, Parents DEF Fit
        <3> QED BY <1>1, <2>1, <3>1, HeldIs
    <2>3. Script(When(parent # None, Active(parent)) \o Insert(m, row))
        BY <1>1, <2>2, Lookups, ChecksWhen, InsertScript
    <2> QED BY <1>2, <2>3, BeginKeeps DEF CreateMenu, row
<1>3. ASSUME NEW parent \in Menu \cup {None}, NEW on \in Activity, UpdateMenu(r, m, parent, on)
      PROVE  IInv'
    <2> DEFINE fields == With(on, Given("parent", parent))
    <2>1. Fit(fields) /\ DOMAIN fields \subseteq {"active", "parent"}
        BY Parents, FitUpdate
    <2> HIDE DEF fields
    <2>2. Checks(Exists(m) \o When(parent # None, Active(parent)))
        BY Lookups, ChecksWhen, ChecksJoin
    <2>3. Script(Exists(m) \o When(parent # None, Active(parent)) \o Change(m, fields))
        BY <1>1, <2>1, <2>2, ChangeScript
    <2> QED BY <1>3, <2>3, BeginKeeps DEF UpdateMenu, fields
<1>4. Script(Exists(m) \o (NoChild(m) \o Batch(DeleteMany(m, Role) \o Erase(m))))
    <2>1. Parts(DeleteMany(m, Role) \o Erase(m), 2, 2)
        BY <1>1, LinkParts, RowParts, PartsJoin
    <2>2. Checks(Exists(m) \o NoChild(m))
        BY Lookups, ChecksJoin
    <2>3. Script((Exists(m) \o NoChild(m)) \o Batch(DeleteMany(m, Role) \o Erase(m)))
        BY <2>1, <2>2, BatchScript
    <2> DEFINE e == Exists(m)
               c == NoChild(m)
               b == Batch(DeleteMany(m, Role) \o Erase(m))
    <2>4. IsSeq(e) /\ IsSeq(c) /\ IsSeq(b)
        BY Single DEF Exists, NoChild, Batch
    <2>5. Script((e \o c) \o b)
        BY <2>3
    <2> HIDE DEF e, c, b
    <2>6. e \o (c \o b) = (e \o c) \o b
        BY <2>4, JoinJoin
    <2>7. Script(e \o (c \o b))
        BY <2>5, <2>6
    <2> QED BY <2>7 DEF e, c, b
<1>5. Script(Exists(m) \o Change(m, [active |-> FALSE]))
    BY <1>1, Lookups, Actives, ChangeScript
<1>6. ASSUME NEW hard \in BOOLEAN, DeleteMenu(r, m, hard) PROVE IInv'
    <2>1. CASE hard
        BY <1>4, <1>6, <2>1, BeginKeeps DEF DeleteMenu
    <2>2. CASE ~hard
        BY <1>5, <1>6, <2>2, BeginKeeps DEF DeleteMenu
    <2> QED BY <2>1, <2>2
<1> QED BY <1>2, <1>3, <1>6

LEMMA UserKeeps ==
    ASSUME IInv, NEW r \in Req, NEW u \in User
    PROVE  /\ \A operator \in Company \cup {None}, warehouses \in SUBSET Warehouse,
                 roles \in SUBSET Role : CreateUser(r, u, operator, warehouses, roles) => IInv'
           /\ \A operator \in Company \cup {None}, warehouses \in SUBSET Warehouse,
                 given \in BOOLEAN, on \in Activity :
                 UpdateUser(r, u, operator, given, warehouses, on) => IInv'
           /\ \A hard \in BOOLEAN : DeleteUser(r, u, hard) => IInv'
           /\ \A roles \in SUBSET Role : AssignUserRoles(r, u, roles) => IInv'
<1>1. u \in Id \ PlatformUser /\ u \notin Warehouse \cup Area \cup Zone \cup Bin \cup Product
                                          \cup Supplier \cup Transaction
    BY Apart, Ids
<1>2. ASSUME NEW S \in SUBSET (Warehouse \cup Role) PROVE Parts(CreateMany({u} \X S), 1, 1)
    <2>1. {u} \X S \subseteq LinkType
        BY DEF LinkType
    <2>2. /\ \A w \in Warehouse, c \in Customer : <<w, c>> \notin {u} \X S
          /\ \A p \in Product, v \in Supplier : <<p, v>> \notin {u} \X S
        BY <1>1
    <2> QED BY <2>1, <2>2, LinkParts
<1>3. ASSUME NEW all, Parts(all, 1, 3), \A i \in DOMAIN all : AddsLinks(all[i]) => Lone(all[i]),
             NEW a, Checks(a)
      PROVE  Script(a \o Transact(all))
    BY <1>3, TransactScript DEF Lone
<1>4. ASSUME NEW operator \in Company \cup {None}, NEW warehouses \in SUBSET Warehouse,
             NEW roles \in SUBSET Role, CreateUser(r, u, operator, warehouses, roles)
      PROVE  IInv'
    <2> DEFINE row == [active |-> TRUE, operator |-> operator]
               links == {u} \X (warehouses \cup roles)
               a == When(operator # None, Active(operator))
                    \o When(warehouses # {}, AllActive(warehouses))
    <2>1. DOMAIN row = {"active", "operator"} /\ row["active"] = TRUE /\ row["operator"] = operator
        OBVIOUS
    <2> HIDE DEF row
    <2>2. Held(u, row)
        <3>1. Fit(row)
            BY <2>1, Parents DEF Fit
        <3> QED BY <1>1, <2>1, <3>1, HeldIs
    <2>3. Checks(a)
        BY Lookups, ChecksWhen, ChecksJoin
    <2> HIDE DEF a
    <2>4. Parts(CreateMany(links), 1, 1)
        BY <1>2
    <2> HIDE DEF links
    <2>5. Parts(Insert(u, row), 1, 1)
        BY <1>1, <2>2, RowParts
    <2>6. Parts(Insert(u, row) \o CreateMany(links), 2, 2)
        BY <2>4, <2>5, PartsJoin
    <2> DEFINE all == Insert(u, row) \o CreateMany(links)
    <2>7. Parts(all, 1, 3) /\ \A i \in DOMAIN all : Lone(all[i])
        <3>1. Parts(all, 2, 2)
            BY <2>6
        <3> HIDE DEF all
        <3> QED BY <3>1 DEF Parts, Part
    <2> HIDE DEF all
    <2>8. Script(a \o Transact(all))
        BY <1>3, <2>3, <2>7
    <2> QED BY <1>4, <2>8, BeginKeeps DEF CreateUser, row, links, a, all
<1>5. ASSUME NEW operator \in Company \cup {None}, NEW warehouses \in SUBSET Warehouse,
             NEW given \in BOOLEAN, NEW on \in Activity,
             UpdateUser(r, u, operator, given, warehouses, on)
      PROVE  IInv'
    <2> DEFINE fields == With(on, Given("operator", operator))
               more == DeleteMany(u, Warehouse) \o CreateMany({u} \X warehouses)
               all == Change(u, fields) \o When(given, more)
               a == Exists(u) \o When(operator # None, Active(operator))
                    \o When(warehouses # {}, AllActive(warehouses))
    <2>1. Fit(fields) /\ DOMAIN fields \subseteq {"active", "operator"}
        BY Parents, FitUpdate
    <2> HIDE DEF fields
    <2>2. Checks(a)
        BY Lookups, ChecksWhen, ChecksJoin
    <2> HIDE DEF a
    <2>3. Parts(more, 2, 2)
        <3>1. Parts(CreateMany({u} \X warehouses), 1, 1)
            BY <1>2
        <3> QED BY <3>1, LinkParts, PartsJoin
    <2>4. Parts(When(given, more), 0, 2)
        <3> HIDE DEF more
        <3> QED BY <2>3, PartsWhen
    <2>5. Parts(Change(u, fields), 1, 1)
        BY <1>1, <2>1, RowParts DEF Ups
    <2>6. Parts(all, 1, 3)
        <3> HIDE DEF more
        <3> QED BY <2>4, <2>5, PartsJoin
    <2> HIDE DEF all
    <2>7. Script(a \o Transact(all))
        BY <1>3, <2>2, <2>6 DEF Parts, Part
    <2> QED BY <1>5, <2>7, BeginKeeps DEF UpdateUser, fields, more, all, a
<1>6. Script(Exists(u) \o Batch(DeleteMany(u, Warehouse) \o DeleteMany(u, Role) \o Erase(u)))
    <2>1. Parts(DeleteMany(u, Warehouse) \o DeleteMany(u, Role), 2, 2)
        BY LinkParts, PartsJoin
    <2>2. Parts(DeleteMany(u, Warehouse) \o DeleteMany(u, Role) \o Erase(u), 3, 3)
        BY <1>1, <2>1, RowParts, PartsJoin
    <2> QED BY <2>2, Lookups, BatchScript
<1>7. Script(Exists(u) \o Change(u, [active |-> FALSE]))
    BY <1>1, Lookups, Actives, ChangeScript
<1>8. ASSUME NEW hard \in BOOLEAN, DeleteUser(r, u, hard) PROVE IInv'
    <2>1. CASE hard
        BY <1>6, <1>8, <2>1, BeginKeeps DEF DeleteUser
    <2>2. CASE ~hard
        BY <1>7, <1>8, <2>2, BeginKeeps DEF DeleteUser
    <2> QED BY <2>1, <2>2
<1>9. ASSUME NEW roles \in SUBSET Role, AssignUserRoles(r, u, roles) PROVE IInv'
    <2>1. Checks(Active(u) \o When(roles # {}, AllActive(roles)))
        BY Lookups, ChecksWhen, ChecksJoin
    <2>2. Parts(When(roles # {}, CreateMany({u} \X roles)), 0, 1)
        BY <1>2, PartsWhen
    <2>3. Parts(DeleteMany(u, Role) \o When(roles # {}, CreateMany({u} \X roles)), 1, 2)
        BY <2>2, LinkParts, PartsJoin
    <2>4. Script(Active(u) \o When(roles # {}, AllActive(roles))
                 \o Batch(DeleteMany(u, Role) \o When(roles # {}, CreateMany({u} \X roles))))
        BY <2>1, <2>3, BatchScript
    <2> QED BY <1>9, <2>4, BeginKeeps DEF AssignUserRoles
<1> QED BY <1>4, <1>5, <1>8, <1>9

LEMMA PlatformKeeps ==
    ASSUME IInv, NEW r \in Req, NEW actor \in PlatformUser, NEW role \in PlatformRoles,
           NEW u \in PlatformUser
    PROVE  /\ CreatePlatformUser(r, actor, u, role) => IInv'
           /\ \A on \in Activity : UpdatePlatformUser(r, actor, u, role, on) => IInv'
<1>1. u \in Id /\ u \notin Warehouse \cup Area \cup Zone \cup Bin \cup Product \cup Supplier
                           \cup Transaction
    BY Apart, Ids
<1>2. ASSUME CreatePlatformUser(r, actor, u, role) PROVE IInv'
    <2> DEFINE row == [active |-> TRUE, role |-> role]
    <2>1. DOMAIN row = {"active", "role"} /\ row["active"] = TRUE
        OBVIOUS
    <2> HIDE DEF row
    <2>2. Held(u, row)
        <3>1. Fit(row)
            BY <2>1, Parents DEF Fit
        <3> QED BY <1>1, <2>1, <3>1, HeldIs
    <2>3. Script(Insert(u, row))
        BY <1>1, <2>2, LoneInsert
    <2> QED BY <1>2, <2>3, BeginKeeps DEF CreatePlatformUser, row
<1>3. ASSUME NEW on \in Activity, UpdatePlatformUser(r, actor, u, role, on) PROVE IInv'
    <2> DEFINE more == [role |-> role]
               fields == With(on, more)
               s == [do |-> "change", of |-> u, fields |-> fields]
    <2>1. Fit(on) /\ DOMAIN on = {"active"}
        BY Actives
    <2>2. Fit(more) /\ DOMAIN more = {"role"}
        BY Parents DEF Fit
    <2> HIDE DEF more
    <2>3. Fit(fields) /\ DOMAIN fields = {"active", "role"}
        <3>1. Fit(fields) /\ DOMAIN fields = DOMAIN on \cup DOMAIN more
            BY <2>1, <2>2, FitWith
        <3> HIDE DEF fields
        <3> QED BY <2>1, <2>2, <3>1
    <2>4. fields["active"] = on["active"]
        BY <2>1, <2>2 DEF With
    <2>5. db.rows[actor].active = TRUE
        BY <1>3 DEF UpdatePlatformUser, MayAdminister, IsActive, Row
    <2>6. u = actor => on["active"] = TRUE
        <3>1. PICK v \in BOOLEAN : on = [g \in {"active"} |-> v]
            BY DEF Activity, OneField
        <3>2. on = [active |-> v] /\ on["active"] = v
            BY <3>1
        <3>3. u = actor => on # [active |-> FALSE]
            BY <1>3 DEF UpdatePlatformUser, NotOwn
        <3> QED BY <3>2, <3>3
    <2>7. s.do = "change" /\ s.of = u /\ s.fields = fields
        OBVIOUS
    <2> HIDE DEF fields, s
    <2>8. Spared(db, s)
        BY <2>3, <2>4, <2>5, <2>6, <2>7 DEF Spared
    <2>9. Proper(s) /\ Lone(s)
        BY <1>1, <2>3, <2>7 DEF Proper, Lone, AddsLinks
    <2>10. Brings(s) = {}
        BY <1>1, <2>7 DEF Brings, AddsLinks
    <2>11. Guarded(Exists(u), s)
        BY <2>7, <2>8, <2>9, <2>10 DEF Guarded, StepOK, IsCheck, Nests, Supplies
    <2>12. Script(Exists(u) \o <<s>>)
        BY <2>11, Lookups, GuardedScript
    <2> QED BY <1>3, <2>12, BeginKeeps DEF UpdatePlatformUser, Change, fields, s, more
<1> QED BY <1>2, <1>3

LEMMA AccessKeeps ==
    ASSUME IInv, NEW r \in Req, AccessRequest(r)
    PROVE  IInv'
<1>1. \A S : Present(S) \subseteq S /\ Fresh(S) \subseteq S
    BY DEF Present, Fresh
<1>2. CASE \/ \E o \in Fresh(Role) : CreateRole(r, o)
           \/ \E o \in Present(Role) :
                 \/ \E on \in Activity : UpdateRole(r, o, on)
                 \/ \E hard \in BOOLEAN : DeleteRole(r, o, hard)
                 \/ \E menus \in SUBSET Present(Menu) : AssignRoleMenus(r, o, menus)
    <2>1. \A menus \in SUBSET Present(Menu) : menus \in SUBSET Menu
        BY <1>1
    <2> QED BY <1>1, <1>2, <2>1, RoleKeeps
<1>3. CASE \/ \E m \in Fresh(Menu), parent \in Present(Menu) \cup {None} : CreateMenu(r, m, parent)
           \/ \E m \in Present(Menu) :
                 \/ \E parent \in (Present(Menu) \ {m}) \cup {None}, on \in Activity :
                       UpdateMenu(r, m, parent, on)
                 \/ \E hard \in BOOLEAN : DeleteMenu(r, m, hard)
    BY <1>1, <1>3, MenuKeeps
<1>4. CASE \/ \E u \in Fresh(User), operator \in Present(Company) \cup {None},
                 warehouses \in SUBSET Present(Warehouse), roles \in SUBSET Present(Role) :
                 CreateUser(r, u, operator, warehouses, roles)
           \/ \E u \in Present(User) :
                 \/ \E operator \in Present(Company) \cup {None},
                       warehouses \in SUBSET Present(Warehouse),
                       given \in BOOLEAN, on \in Activity :
                       (given \/ warehouses = {})
                       /\ UpdateUser(r, u, operator, given, warehouses, on)
                 \/ \E hard \in BOOLEAN : DeleteUser(r, u, hard)
                 \/ \E roles \in SUBSET Present(Role) : AssignUserRoles(r, u, roles)
    <2>1. /\ \A roles \in SUBSET Present(Role) : roles \in SUBSET Role
          /\ \A warehouses \in SUBSET Present(Warehouse) : warehouses \in SUBSET Warehouse
          /\ \A operator \in Present(Company) \cup {None} : operator \in Company \cup {None}
        BY <1>1
    <2>2. CASE \E u \in Fresh(User), operator \in Present(Company) \cup {None},
                  warehouses \in SUBSET Present(Warehouse), roles \in SUBSET Present(Role) :
                  CreateUser(r, u, operator, warehouses, roles)
        BY <1>1, <2>1, <2>2, UserKeeps
    <2>3. CASE \E u \in Present(User), operator \in Present(Company) \cup {None},
                  warehouses \in SUBSET Present(Warehouse), given \in BOOLEAN, on \in Activity :
                  UpdateUser(r, u, operator, given, warehouses, on)
        BY <1>1, <2>1, <2>3, UserKeeps
    <2>4. CASE \E u \in Present(User) :
                  \/ \E hard \in BOOLEAN : DeleteUser(r, u, hard)
                  \/ \E roles \in SUBSET Present(Role) : AssignUserRoles(r, u, roles)
        BY <1>1, <2>1, <2>4, UserKeeps
    <2> QED BY <1>4, <2>2, <2>3, <2>4
<1>5. CASE \E actor \in Present(PlatformUser), role \in PlatformRoles :
              \/ \E u \in Fresh(PlatformUser) : CreatePlatformUser(r, actor, u, role)
              \/ \E u \in Present(PlatformUser), on \in Activity :
                    UpdatePlatformUser(r, actor, u, role, on)
    BY <1>1, <1>5, PlatformKeeps
<1> QED BY <1>2, <1>3, <1>4, <1>5 DEF AccessRequest

-----------------------------------------------------------------------------
(* Billing: every request of it may begin.                                 *)
LEMMA ContractKeeps ==
    ASSUME IInv, NEW r \in Req, NEW k \in Contract
    PROVE  /\ \A c \in Customer : CreateContract(r, k, c) => IInv'
           /\ \A c \in Customer \cup {None}, on \in Activity : UpdateContract(r, k, c, on) => IInv'
           /\ \A hard \in BOOLEAN : DeleteContract(r, k, hard) => IInv'
<1>1. k \in Id \ PlatformUser /\ k \notin Warehouse \cup Area \cup Zone \cup Bin \cup Product
                                          \cup Supplier \cup Transaction
    BY Apart, Ids
<1>2. ASSUME NEW c \in Customer, CreateContract(r, k, c) PROVE IInv'
    <2> DEFINE row == [active |-> TRUE, customer |-> c]
    <2>1. DOMAIN row = {"active", "customer"} /\ row["active"] = TRUE /\ row["customer"] = c
        OBVIOUS
    <2> HIDE DEF row
    <2>2. Held(k, row)
        <3>1. Fit(row)
            BY <2>1, Parents DEF Fit
        <3> QED BY <1>1, <2>1, <3>1, HeldIs
    <2>3. Script(AllowedCustomer(c) \o Active(c) \o Insert(k, row))
        BY <1>1, <2>2, Lookups, Asked, ChecksJoin, InsertScript
    <2> QED BY <1>2, <2>3, BeginKeeps DEF CreateContract, row
<1>3. ASSUME NEW c \in Customer \cup {None}, NEW on \in Activity, UpdateContract(r, k, c, on)
      PROVE  IInv'
    <2> DEFINE fields == With(on, Given("customer", c))
               a == Exists(k) \o AllowedCustomerOf(k)
                    \o When(c # None, AllowedCustomer(c) \o Active(c))
    <2>1. Fit(fields)
        BY Parents, FitUpdate
    <2>2. Checks(a)
        BY Lookups, Asked, ChecksWhen, ChecksJoin
    <2> HIDE DEF fields, a
    <2>3. Script(a \o Change(k, fields))
        BY <1>1, <2>1, <2>2, ChangeScript
    <2> QED BY <1>3, <2>3, BeginKeeps DEF UpdateContract, fields, a
<1>4. ASSUME NEW hard \in BOOLEAN, DeleteContract(r, k, hard) PROVE IInv'
    <2> DEFINE a == Exists(k) \o AllowedCustomerOf(k)
    <2>1. Checks(a)
        BY Lookups, Asked, ChecksJoin
    <2> HIDE DEF a
    <2>2. Parts(EraseAll(Rate, "contract", k) \o Erase(k), 2, 2)
        BY <1>1, RowParts, PartsJoin
    <2>3. Script(a \o Batch(EraseAll(Rate, "contract", k) \o Erase(k)))
        BY <2>1, <2>2, BatchScript
    <2>4. Script(a \o Change(k, [active |-> FALSE]))
        BY <1>1, <2>1, Actives, ChangeScript
    <2>5. CASE hard
        BY <1>4, <2>3, <2>5, BeginKeeps DEF DeleteContract, a
    <2>6. CASE ~hard
        BY <1>4, <2>4, <2>6, BeginKeeps DEF DeleteContract, a
    <2> QED BY <2>5, <2>6
<1> QED BY <1>2, <1>3, <1>4

LEMMA RateKeeps ==
    ASSUME IInv, NEW r \in Req, NEW t \in Rate
    PROVE  /\ \A k \in Contract : CreateRate(r, t, k) => IInv'
           /\ \A k \in Contract \cup {None}, on \in Activity : UpdateRate(r, t, k, on) => IInv'
           /\ \A hard \in BOOLEAN : DeleteRate(r, t, hard) => IInv'
<1>1. t \in Id \ PlatformUser /\ t \notin Warehouse \cup Area \cup Zone \cup Bin \cup Product
                                          \cup Supplier \cup Transaction
    BY Apart, Ids
<1>2. ASSUME NEW k \in Contract, CreateRate(r, t, k) PROVE IInv'
    <2> DEFINE row == [active |-> TRUE, contract |-> k]
    <2>1. DOMAIN row = {"active", "contract"} /\ row["active"] = TRUE /\ row["contract"] = k
        OBVIOUS
    <2> HIDE DEF row
    <2>2. Held(t, row)
        <3>1. Fit(row)
            BY <2>1, Parents DEF Fit
        <3> QED BY <1>1, <2>1, <3>1, HeldIs
    <2>3. Script(AllowedCustomerOf(k) \o Active(k) \o Insert(t, row))
        BY <1>1, <2>2, Lookups, Asked, ChecksJoin, InsertScript
    <2> QED BY <1>2, <2>3, BeginKeeps DEF CreateRate, row
<1>3. ASSUME NEW k \in Contract \cup {None}, NEW on \in Activity, UpdateRate(r, t, k, on)
      PROVE  IInv'
    <2> DEFINE fields == With(on, Given("contract", k))
               a == Exists(t) \o AllowedCustomerOf(Row(t).contract)
                    \o When(k # None, AllowedCustomerOf(k) \o Active(k))
    <2>1. Fit(fields) /\ DOMAIN fields \subseteq {"active", "contract"}
        BY Parents, FitUpdate
    <2>2. Checks(a)
        BY Lookups, Asked, ChecksWhen, ChecksJoin
    <2> HIDE DEF fields, a
    <2>3. Script(a \o Change(t, fields))
        BY <1>1, <2>1, <2>2, ChangeScript
    <2> QED BY <1>3, <2>3, BeginKeeps DEF UpdateRate, fields, a
<1>4. ASSUME NEW hard \in BOOLEAN, DeleteRate(r, t, hard) PROVE IInv'
    <2> DEFINE a == Exists(t) \o AllowedCustomerOf(Row(t).contract)
    <2>1. Checks(a)
        BY Lookups, Asked, ChecksJoin
    <2> HIDE DEF a
    <2>2. Script(a \o Delete(t, hard))
        BY <1>1, <2>1, DeleteScript
    <2> QED BY <1>4, <2>2, BeginKeeps DEF DeleteRate, a
<1> QED BY <1>2, <1>3, <1>4

LEMMA TransactionKeeps ==
    ASSUME IInv, NEW r \in Req, NEW t \in Transaction
    PROVE  /\ \A c \in Customer, w \in Warehouse \cup {None}, o \in Company \cup {None} :
              \A key : \A marked \in BOOLEAN :
                 CreateTransaction(r, t, c, w, o, key, marked) => IInv'
           /\ \A dto \in TransactionDto : UpdateTransaction(r, t, dto) => IInv'
           /\ SoftDeleteTransaction(r, t) => IInv'
<1>1. t \in Id \ PlatformUser /\ t \notin Warehouse \cup Area \cup Zone \cup Bin \cup Product
                                          \cup Supplier
    BY Apart, Ids
<1>2. ASSUME NEW c \in Customer, NEW w \in Warehouse \cup {None}, NEW o \in Company \cup {None},
             NEW key, NEW marked \in BOOLEAN, CreateTransaction(r, t, c, w, o, key, marked)
      PROVE  IInv'
    <2> DEFINE row == [active |-> TRUE, customer |-> c, warehouse |-> w, operator |-> o,
                       period |-> CanonicalPeriodKey(key), deleted |-> marked]
               a == Active(c) \o AllowedOperator(o) \o When(w # None, Allowed(w))
                    \o When(w # None, Active(w)) \o When(o # None, Active(o))
    <2>1. /\ DOMAIN row = {"active", "customer", "warehouse", "operator", "period", "deleted"}
          /\ row["active"] = TRUE /\ row["customer"] = c /\ row["warehouse"] = w
          /\ row["operator"] = o /\ row["period"] \in Spelling
        BY DEF CanonicalPeriodKey, Spelling
    <2>2. Checks(a)
        BY Lookups, Asked, ChecksWhen, ChecksJoin
    <2> HIDE DEF row, a
    <2>3. Held(t, row)
        <3>1. Fit(row)
            BY <2>1, Parents DEF Fit
        <3> QED BY <1>1, <2>1, <3>1, HeldIs
    <2>4. Script(a \o Insert(t, row))
        BY <1>1, <2>2, <2>3, InsertScript
    <2> QED BY <1>2, <2>4, BeginKeeps DEF CreateTransaction, row, a
<1>3. ASSUME NEW dto \in TransactionDto PROVE Fit(dto)
    <2>1. ASSUME NEW f, NEW S, dto \in OneField(f, S),
                 \/ f \in DOMAIN Target /\ S \subseteq Target[f]
                 \/ f = "deleted"
                 \/ f = "period" /\ S \subseteq Spelling
          PROVE  Fit(dto)
        <3>1. PICK v \in S : dto = [g \in {f} |-> v]
            BY <2>1 DEF OneField
        <3>2. DOMAIN dto = {f} /\ dto[f] = v
            BY <3>1
        <3>3. f # "active" /\ "period" \notin DOMAIN Target /\ "deleted" \notin DOMAIN Target
            BY <2>1, Parents
        <3> QED BY <2>1, <3>2, <3>3 DEF Fit
    <2>2. \A S : Present(S) \subseteq S
        BY DEF Present
    <2>3. {CanonicalPeriodKey(key) : key \in Spelling} \subseteq Spelling
        BY DEF CanonicalPeriodKey, Spelling
    <2>4. CASE dto \in OneField("customer", Present(Customer))
        BY <2>1, <2>2, <2>4, Parents
    <2>5. CASE dto \in OneField("warehouse", Present(Warehouse))
        BY <2>1, <2>2, <2>5, Parents
    <2>6. CASE dto \in OneField("operator", Present(Company))
        BY <2>1, <2>2, <2>6, Parents
    <2>7. CASE dto \in OneField("deleted", BOOLEAN)
        BY <2>1, <2>7
    <2>8. CASE dto \in OneField("period", {CanonicalPeriodKey(key) : key \in Spelling})
        BY <2>1, <2>3, <2>8
    <2> QED BY <2>4, <2>5, <2>6, <2>7, <2>8 DEF TransactionDto
<1>4. Checks(InItsScope(t))
    BY Asked, ChecksWhen, ChecksJoin DEF InItsScope
<1>5. ASSUME NEW dto \in TransactionDto, UpdateTransaction(r, t, dto) PROVE IInv'
    <2> DEFINE gives(f) == f \in DOMAIN dto
               w == IF gives("warehouse") THEN dto.warehouse ELSE None
               o == IF gives("operator") THEN dto.operator ELSE None
               a == Exists(t) \o InItsScope(t) \o When(gives("customer"), Active(dto.customer))
                    \o AllowedOperator(o) \o When(w # None, Allowed(w) \o Active(w))
                    \o When(o # None, Active(o))
    <2>1. Checks(a)
        <3> HIDE DEF w, o
        <3>1. Checks(Exists(t) \o InItsScope(t) \o When(gives("customer"), Active(dto.customer)))
            <4>1. gives("customer") \in BOOLEAN /\ Checks(Active(dto.customer))
                BY Lookups
            <4> HIDE DEF gives
            <4>2. Checks(When(gives("customer"), Active(dto.customer)))
                BY <4>1, ChecksWhen
            <4> QED BY <1>4, <4>2, Lookups, ChecksJoin
        <3>2. Checks(When(w # None, Allowed(w) \o Active(w)))
            BY Lookups, Asked, ChecksWhen, ChecksJoin
        <3>3. Checks(When(o # None, Active(o)))
            BY Lookups, ChecksWhen
        <3> QED BY <3>1, <3>2, <3>3, Asked, ChecksJoin
    <2> HIDE DEF a
    <2>2. Script(a \o Change(t, dto))
        BY <1>1, <1>3, <2>1, ChangeScript
    <2> QED BY <1>5, <2>2, BeginKeeps DEF UpdateTransaction, a
<1>6. ASSUME SoftDeleteTransaction(r, t) PROVE IInv'
    <2> DEFINE fields == [deleted |-> TRUE]
    <2>1. Fit(fields) /\ DOMAIN fields = {"deleted"}
        BY Parents DEF Fit
    <2> HIDE DEF fields
    <2>2. Checks(Exists(t) \o InItsScope(t))
        BY <1>4, Lookups, ChecksJoin
    <2>3. Script(Exists(t) \o InItsScope(t) \o Change(t, fields))
        BY <1>1, <2>1, <2>2, ChangeScript
    <2> QED BY <1>6, <2>3, BeginKeeps DEF SoftDeleteTransaction, fields
<1> QED BY <1>2, <1>5, <1>6

LEMMA Lengthened ==
    ASSUME NEW u, IsSeq(u), NEW x
    PROVE  /\ IsSeq(u \o <<x>>) /\ Len(u \o <<x>>) = Len(u) + 1
           /\ \A i \in 1..Len(u) : (u \o <<x>>)[i] = u[i]
           /\ (u \o <<x>>)[Len(u) + 1] = x
<1> DEFINE S == {u[i] : i \in DOMAIN u} \cup {x}
<1>1. u \in Seq(S) /\ x \in S
    BY DEF IsSeq
<1> HIDE DEF S
<1>2. u \o <<x>> \in Seq(S)
    BY <1>1
<1>3. Len(u \o <<x>>) = Len(u) + 1
    BY <1>1
<1>4. \A i \in 1..Len(u) : (u \o <<x>>)[i] = u[i]
    BY <1>1
<1>5. (u \o <<x>>)[Len(u) + 1] = x
    BY <1>1
<1> QED BY <1>2, <1>3, <1>4, <1>5, Sequences

(* A summary, which ends with two sums and an answer.                      *)
LEMMA SummaryScript ==
    ASSUME NEW a, Checks(a), NEW s, s.do = "sum", NEW e, e.do = "answer", e.of = s.of
    PROVE  Script(a \o <<s>> \o <<s>> \o <<e>>)
<1> DEFINE b == a \o <<s>>
           c == b \o <<s>>
           t == c \o <<e>>
           m == Len(a)
<1>1. IsSeq(a) /\ m \in Nat /\ DOMAIN a = 1..m /\ \A i \in 1..m : IsCheck(a[i])
    BY SeqIs DEF Checks
<1>2. \A x : IsSeq(<<x>>) /\ Len(<<x>>) = 1 /\ <<x>>[1] = x
    BY Single
<1>3. \A u, x : IsSeq(u) => /\ IsSeq(u \o <<x>>) /\ Len(u \o <<x>>) = Len(u) + 1
                            /\ \A i \in 1..Len(u) : (u \o <<x>>)[i] = u[i]
                            /\ (u \o <<x>>)[Len(u) + 1] = x
    BY Lengthened
<1>4. IsSeq(b) /\ Len(b) = m + 1 /\ (\A i \in 1..m : b[i] = a[i]) /\ b[m + 1] = s
    BY <1>1, <1>3
<1> HIDE DEF b
<1>5. IsSeq(c) /\ Len(c) = m + 2 /\ (\A i \in 1..(m + 1) : c[i] = b[i]) /\ c[m + 2] = s
    <2>1. IsSeq(c) /\ Len(c) = Len(b) + 1 /\ (\A i \in 1..Len(b) : c[i] = b[i])
          /\ c[Len(b) + 1] = s
        BY <1>3, <1>4
    <2> HIDE DEF c
    <2>2. Len(b) + 1 = m + 2
        BY <1>1, <1>4
    <2> QED BY <1>4, <2>1, <2>2
<1> HIDE DEF c
<1>6. IsSeq(t) /\ Len(t) = m + 3 /\ (\A i \in 1..(m + 2) : t[i] = c[i]) /\ t[m + 3] = e
    <2>1. IsSeq(t) /\ Len(t) = Len(c) + 1 /\ (\A i \in 1..Len(c) : t[i] = c[i])
          /\ t[Len(c) + 1] = e
        BY <1>3, <1>5
    <2> HIDE DEF t
    <2>2. Len(c) + 1 = m + 3
        BY <1>1, <1>5
    <2> QED BY <1>5, <2>1, <2>2
<1> HIDE DEF t, m
<1> DEFINE n == m + 3
<1>7. n = Len(t) /\ n \in Nat \ {0} /\ n >= 3 /\ n - 2 = m + 1 /\ n - 1 = m + 2
    BY <1>1, <1>6
<1>8. \A i \in 1..n : i \in 1..m \/ i = m + 1 \/ i = m + 2 \/ i = n
    BY <1>1
<1>9. m + 1 \in 1..(m + 1) /\ m + 1 \in 1..(m + 2) /\ m + 2 \in 1..(m + 2)
      /\ \A i \in 1..m : i \in 1..(m + 1) /\ i \in 1..(m + 2)
    BY <1>1
<1>10. t[m + 1] = s /\ t[m + 2] = s /\ t[n] = e /\ \A i \in 1..m : IsCheck(t[i])
    BY <1>1, <1>4, <1>5, <1>6, <1>9
<1> HIDE DEF n
<1>11. \A x : IsCheck(x) \/ x.do \in {"sum", "answer"} =>
          /\ StepOK(x) /\ ~Nests(x) /\ Brings(x) = {} /\ ~Account(x) /\ \A p, v : ~Supplies(x, p, v)
    BY DEF IsCheck, StepOK, Nests, Brings, AddsLinks, Account, Supplies
<1>12. \A i \in 1..n : IsCheck(t[i]) \/ t[i].do \in {"sum", "answer"}
    BY <1>8, <1>10
<1>13. \A x : IsCheck(x) => x.do \notin {"sum", "answer"}
    BY DEF IsCheck
<1>14. \A i \in 1..n : t[i].do = "answer" => i = n
    BY <1>8, <1>10, <1>13
<1>15. \A i \in 1..n : t[i].do = "sum" => i >= n - 2
    BY <1>1, <1>7, <1>8, <1>10, <1>13
<1>16. \A i \in 1..(n - 1) : i < n - 2 => IsCheck(t[i])
    BY <1>1, <1>7, <1>8, <1>10
<1>17. \A i \in 1..(n - 1) : i >= n - 2 => t[i].do = "sum" /\ t[i].of = t[n].of
    BY <1>1, <1>7, <1>8, <1>10
<1>18. Script(t)
    <2>1. ~IsCheck(t[n])
        BY <1>10, <1>13
    <2> QED BY <1>6, <1>7, <1>10, <1>11, <1>12, <1>14, <1>15, <1>16, <1>17, <2>1 DEF Script
<1> QED BY <1>18 DEF t, c, b

LEMMA SummaryKeeps ==
    ASSUME IInv, NEW r \in Req, NEW c, NEW key, GetSummary(r, c, key)
    PROVE  IInv'
<1> DEFINE s == [do |-> "sum", of |-> c, key |-> key]
           e == [do |-> "answer", of |-> c]
<1>1. s.do = "sum" /\ e.do = "answer" /\ e.of = s.of
    OBVIOUS
<1>2. Checks(Active(c) \o SomeScope)
    BY Lookups, Asked, ChecksJoin
<1> HIDE DEF s, e
<1>3. Script(Active(c) \o SomeScope \o <<s>> \o <<s>> \o <<e>>)
    BY <1>1, <1>2, SummaryScript
<1> QED BY <1>3, BeginKeeps DEF GetSummary, s, e

LEMMA BillingKeeps ==
    ASSUME IInv, NEW r \in Req, BillingRequest(r)
    PROVE  IInv'
<1>1. \A S : Present(S) \subseteq S /\ Fresh(S) \subseteq S
    BY DEF Present, Fresh
<1>2. CASE \/ \E k \in Fresh(Contract), c \in Present(Customer) : CreateContract(r, k, c)
           \/ \E k \in Present(Contract) :
                 \/ \E c \in Present(Customer) \cup {None}, on \in Activity :
                       UpdateContract(r, k, c, on)
                 \/ \E hard \in BOOLEAN : DeleteContract(r, k, hard)
    BY <1>1, <1>2, ContractKeeps
<1>3. CASE \/ \E t \in Fresh(Rate), k \in Present(Contract) : CreateRate(r, t, k)
           \/ \E t \in Present(Rate) :
                 \/ \E k \in Present(Contract) \cup {None}, on \in Activity :
                       UpdateRate(r, t, k, on)
                 \/ \E hard \in BOOLEAN : DeleteRate(r, t, hard)
    BY <1>1, <1>3, RateKeeps
<1>4. CASE \E c \in Present(Customer), key \in Spelling : GetSummary(r, c, key)
    BY <1>4, SummaryKeeps
<1>5. CASE \/ \E t \in Fresh(Transaction), c \in Present(Customer), key \in Spelling,
                 w \in Present(Warehouse) \cup {None}, o \in Present(Company) \cup {None},
                 marked \in BOOLEAN : CreateTransaction(r, t, c, w, o, key, marked)
           \/ \E t \in Present(Transaction) :
                 \/ \E dto \in TransactionDto : UpdateTransaction(r, t, dto)
                 \/ SoftDeleteTransaction(r, t)
    <2>1. CASE \E t \in Fresh(Transaction), c \in Present(Customer), key \in Spelling,
                  w \in Present(Warehouse) \cup {None}, o \in Present(Company) \cup {None},
                  marked \in BOOLEAN : CreateTransaction(r, t, c, w, o, key, marked)
        <3>1. PICK t \in Fresh(Transaction), c \in Present(Customer), key \in Spelling,
                   w \in Present(Warehouse) \cup {None}, o \in Present(Company) \cup {None},
                   marked \in BOOLEAN : CreateTransaction(r, t, c, w, o, key, marked)
            BY <2>1
        <3>2. /\ t \in Transaction /\ c \in Customer
              /\ w \in Warehouse \cup {None} /\ o \in Company \cup {None}
            BY <1>1
        <3> QED BY <3>1, <3>2, TransactionKeeps
    <2>2. CASE \E t \in Present(Transaction) :
                  \/ \E dto \in TransactionDto : UpdateTransaction(r, t, dto)
                  \/ SoftDeleteTransaction(r, t)
        <3>1. \A t \in Present(Transaction) : t \in Transaction
            BY <1>1
        <3> QED BY <2>2, <3>1, TransactionKeeps
    <2> QED BY <1>5, <2>1, <2>2
<1> QED BY <1>2, <1>3, <1>4, <1>5 DEF BillingRequest

(* Scripts with statements that only need the customers C to be asked for. *)
Tame(s, C) ==
    /\ StepOK(s) /\ s.do \notin {"sum", "answer"} /\ ~Nests(s) /\ ~Account(s)
    /\ Brings(s) \subseteq C
    /\ \A p \in Product, v \in Supplier : ~Supplies(s, p, v)
Tamed(t, C) == IsSeq(t) /\ \A i \in DOMAIN t : Tame(t[i], C)

-----------------------------------------------------------------------------
(* Places. The scripts that assign customers to a warehouse first ask      *)
(* whether the user reaches each of them.                                  *)
LEMMA TameCheck ==
    ASSUME NEW s, IsCheck(s), NEW C
    PROVE  Tame(s, C)
BY DEF IsCheck, Tame, StepOK, Nests, Brings, AddsLinks, Account, Supplies

LEMMA TamedChecks ==
    ASSUME NEW t, Checks(t), NEW C
    PROVE  Tamed(t, C)
BY TameCheck DEF Checks, Tamed

LEMMA TamedOne ==
    ASSUME NEW s, NEW C, Tame(s, C)
    PROVE  Tamed(<<s>>, C)
BY Single DEF Tamed

LEMMA TamedJoin ==
    ASSUME NEW a, NEW b, NEW C, Tamed(a, C), Tamed(b, C)
    PROVE  Tamed(a \o b, C)
<1>1. IsSeq(a) /\ IsSeq(b)
    BY DEF Tamed
<1>2. IsSeq(a \o b)
      /\ \A i \in DOMAIN (a \o b) :
            \/ i \in DOMAIN a /\ (a \o b)[i] = a[i]
            \/ i - Len(a) \in DOMAIN b /\ (a \o b)[i] = b[i - Len(a)]
    BY <1>1, Joined
<1> QED BY <1>2 DEF Tamed

(* t ends with a statement.                                                *)
Acts(t) == IsSeq(t) /\ Len(t) > 0 /\ ~IsCheck(t[Len(t)])

LEMMA ActsJoin ==
    ASSUME NEW a, IsSeq(a), NEW b, Acts(b)
    PROVE  Acts(a \o b)
<1> DEFINE t == a \o b
           m == Len(a)
           n == Len(b)
<1>1. /\ IsSeq(b) /\ m \in Nat /\ n \in Nat /\ Len(t) = m + n /\ IsSeq(t)
      /\ \A i \in 1..n : t[m + i] = b[i]
    BY Joined DEF Acts
<1>2. n > 0 /\ ~IsCheck(b[n])
    BY DEF Acts
<1> HIDE DEF t, m, n
<1>3. t[m + n] = b[n]
    BY <1>1, <1>2
<1>4. Acts(t)
    BY <1>1, <1>2, <1>3 DEF Acts
<1> QED BY <1>4 DEF t

LEMMA ActsMore ==
    ASSUME NEW a, Acts(a), NEW b, b = <<>> \/ Acts(b)
    PROVE  Acts(a \o b)
<1>1. IsSeq(a)
    BY DEF Acts
<1>2. CASE b = <<>>
    <2>1. a \o b = a
        BY <1>1, <1>2 DEF IsSeq
    <2> QED BY <2>1
<1>3. CASE Acts(b)
    BY <1>1, <1>3, ActsJoin
<1> QED BY <1>2, <1>3

LEMMA TamedScript ==
    ASSUME NEW a, Checks(a), NEW C, \A c \in C : Holds(a, CustomerCheck(c)),
           NEW b, Tamed(b, C), Acts(b)
    PROVE  Script(a \o b)
<1> DEFINE t == a \o b
           m == Len(a)
           n == Len(t)
<1>1. IsSeq(a) /\ m \in Nat /\ DOMAIN a = 1..m /\ (\A i \in 1..m : IsCheck(a[i]))
      /\ IsSeq(b) /\ Len(b) \in Nat /\ DOMAIN b = 1..Len(b)
    BY SeqIs DEF Checks, Tamed
<1>2. /\ IsSeq(t) /\ n = m + Len(b)
      /\ \A i \in 1..m : t[i] = a[i]
      /\ \A i \in DOMAIN t : \/ i \in DOMAIN a /\ t[i] = a[i]
                             \/ i - m \in DOMAIN b /\ t[i] = b[i - m]
    <2>1. IsSeq(t) /\ n = m + Len(b)
        BY <1>1, Joined
    <2>2. \A i \in 1..m : t[i] = a[i]
        BY <1>1, Joined
    <2>3. \A i \in DOMAIN t : \/ i \in DOMAIN a /\ t[i] = a[i]
                              \/ i - m \in DOMAIN b /\ t[i] = b[i - m]
        BY <1>1, Joined
    <2> QED BY <2>1, <2>2, <2>3
<1>3. Acts(t)
    BY <1>1, ActsJoin
<1>4. Tamed(t, C)
    BY TamedChecks, TamedJoin
<1> HIDE DEF t, m
<1>5. n \in Nat \ {0} /\ n = Len(t) /\ DOMAIN t = 1..n /\ ~IsCheck(t[n])
    BY <1>2, <1>3, SeqIs DEF Acts
<1> HIDE DEF n
<1>6. \A i \in 1..n : Tame(t[i], C)
    BY <1>4, <1>5 DEF Tamed
<1>7. \A x : Holds(a, x) => \E j \in 1..m : t[j] = x
    BY <1>1, <1>2 DEF Holds
<1>8. \A i \in 1..n : IsCheck(t[i]) \/ i > m
    BY <1>1, <1>2, <1>5
<1>9. \A x : IsCheck(x) => Brings(x) = {}
    BY DEF IsCheck, Brings, AddsLinks
<1>10. ASSUME NEW i \in 1..n, NEW c \in Brings(t[i])
       PROVE  \E j \in 1..(i - 1) : t[j] = CustomerCheck(c)
    <2>1. i > m /\ c \in C
        BY <1>6, <1>8, <1>9, <1>10 DEF Tame
    <2>2. PICK j \in 1..m : t[j] = CustomerCheck(c)
        BY <1>7, <2>1
    <2>3. j \in 1..(i - 1)
        BY <1>1, <2>1
    <2> QED BY <2>2, <2>3
<1>11. /\ \A i \in 1..n : StepOK(t[i]) /\ ~Nests(t[i]) /\ ~Account(t[i])
                          /\ t[i].do \notin {"sum", "answer"}
       /\ \A i \in 1..n : \A p \in Product, v \in Supplier : ~Supplies(t[i], p, v)
    BY <1>6 DEF Tame
<1>12. t[n].do # "answer"
    BY <1>5, <1>11
<1>13. Script(t)
    BY <1>2, <1>5, <1>10, <1>11, <1>12 DEF Script
<1> QED BY <1>13 DEF t

(* The customers that a request names, and a scope check for each.         *)
LEMMA MappedIs ==
    ASSUME NEW list, IsSeq(list), NEW f, f = [i \in DOMAIN list |-> f[i]]
    PROVE  IsSeq(f) /\ DOMAIN f = DOMAIN list
<1> DEFINE R == {f[i] : i \in DOMAIN f}
           n == Len(list)
<1>1. n \in Nat /\ DOMAIN list = 1..n
    BY SeqIs
<1> HIDE DEF n
<1>2. DOMAIN f = 1..n
    BY <1>1
<1>3. \A i \in 1..n : f[i] \in R
    BY <1>2
<1> HIDE DEF R
<1>4. f \in [1..n -> R]
    BY <1>1, <1>3
<1>5. f \in Seq(R)
    BY <1>1, <1>4
<1> QED BY <1>1, <1>2, <1>5 DEF IsSeq, R

LEMMA ListIs ==
    ASSUME NEW list \in Lists
    PROVE  /\ IsSeq(list) /\ ToSet(list) \subseteq Customer
           /\ First(list) \in ToSet(list) \cup {None}
<1>1. Present(Customer) \subseteq Customer
    BY DEF Present
<1>2. CASE list = <<>>
    <2>1. ToSet(<<>>) = {}
        BY DEF ToSet
    <2> QED BY <1>2, <2>1, EmptyIsSeq DEF First
<1>3. CASE \E c \in Present(Customer) : list = <<c>>
    <2>1. PICK c \in Present(Customer) : list = <<c>>
        BY <1>3
    <2>2. IsSeq(list) /\ list[1] = c /\ DOMAIN list = {1}
        BY <2>1, Single
    <2>3. ToSet(list) = {c}
        BY <2>2 DEF ToSet
    <2>4. First(list) \in {c, None}
        BY <2>2 DEF First
    <2> QED BY <1>1, <2>2, <2>3, <2>4
<1>4. CASE list \in Present(Customer) \X Present(Customer)
    <2>1. PICK c \in Present(Customer), d \in Present(Customer) : list = <<c, d>>
        BY <1>4
    <2>2. IsSeq(list) /\ list[1] = c /\ list[2] = d /\ DOMAIN list = {1, 2}
        BY <2>1 DEF IsSeq
    <2>3. ToSet(list) = {c, d}
        BY <2>2 DEF ToSet
    <2>4. First(list) \in {c, None}
        BY <2>2 DEF First
    <2> QED BY <1>1, <2>2, <2>3, <2>4
<1> QED BY <1>2, <1>3, <1>4 DEF Lists

LEMMA ScopesAre ==
    ASSUME NEW list, IsSeq(list)
    PROVE  /\ Checks(ScopeOfEach(list))
           /\ \A c \in ToSet(list) : Holds(ScopeOfEach(list), CustomerCheck(c))
<1> DEFINE f == ScopeOfEach(list)
<1>1. \A c : AllowedCustomer(c)[1] = CustomerCheck(c)
    BY Single DEF AllowedCustomer, CustomerCheck
<1>2. /\ f = [i \in DOMAIN list |-> f[i]]
      /\ \A i \in DOMAIN list : f[i] = CustomerCheck(list[i])
    BY <1>1 DEF ScopeOfEach
<1> HIDE DEF f
<1>3. IsSeq(f) /\ DOMAIN f = DOMAIN list
    BY <1>2, MappedIs
<1>4. Checks(f)
    BY <1>2, <1>3 DEF Checks, IsCheck, CustomerCheck
<1>5. \A c \in ToSet(list) : Holds(f, CustomerCheck(c))
    BY <1>2, <1>3 DEF ToSet, Holds
<1> QED BY <1>4, <1>5 DEF f

LEMMA GentleIsTame ==
    ASSUME NEW s, Gentle(s), NEW C
    PROVE  Tamed(<<s>>, C) /\ Acts(<<s>>)
<1>1. Tame(s, C) /\ ~IsCheck(s)
    BY DEF Gentle, Tame
<1> QED BY <1>1, TamedOne, Single DEF Acts

(* Statements about the customers of a warehouse.                          *)
LEMMA WarehouseChange ==
    ASSUME NEW w \in Warehouse, NEW fields, Fit(fields), NEW C,
           "customer" \in DOMAIN fields => fields["customer"] \in C \cup {None}
    PROVE  Tamed(Change(w, fields), C) /\ Acts(Change(w, fields))
<1> DEFINE s == [do |-> "change", of |-> w, fields |-> fields]
<1>1. s.do = "change" /\ s.of = w /\ s.fields = fields
    OBVIOUS
<1> HIDE DEF s
<1>2. w \in Id /\ w \notin Product \cup Supplier \cup PlatformUser
    BY Apart, Ids
<1>3. Proper(s) /\ Lone(s)
    BY <1>1, <1>2 DEF Proper, Lone, AddsLinks
<1>4. \A c \in Customer : c # None
    BY Values, Ids
<1>5. Brings(s) \subseteq C
    BY <1>1, <1>4 DEF Brings, AddsLinks
<1>6. Tame(s, C) /\ ~IsCheck(s)
    BY <1>1, <1>2, <1>3, <1>5 DEF Tame, StepOK, IsCheck, Nests, Account, Supplies
<1> QED BY <1>6, TamedOne, Single DEF Change, Acts, s

LEMMA WarehouseInsert ==
    ASSUME NEW w \in Warehouse, NEW row, Held(w, row), NEW C, row["customer"] \in C \cup {None}
    PROVE  Tamed(Insert(w, row), C) /\ Acts(Insert(w, row))
<1> DEFINE s == [do |-> "insert", of |-> w, row |-> row]
<1>1. s.do = "insert" /\ s.of = w /\ s.row = row
    OBVIOUS
<1> HIDE DEF s
<1>2. w \in Id /\ w \notin Zone \cup Bin
    BY Apart, Ids
<1>3. Proper(s) /\ Lone(s)
    BY <1>1, <1>2 DEF Proper, Lone, AddsLinks
<1>4. \A c \in Customer : c # None
    BY Values, Ids
<1>5. Brings(s) \subseteq C
    BY <1>1, <1>4 DEF Brings, AddsLinks
<1>6. Tame(s, C) /\ ~IsCheck(s)
    BY <1>1, <1>2, <1>3, <1>5 DEF Tame, StepOK, IsCheck, Nests, Account, Supplies
<1> QED BY <1>6, TamedOne, Single DEF Insert, Acts, s

LEMMA TamedMap ==
    ASSUME NEW w \in Warehouse, NEW list, IsSeq(list), ToSet(list) \subseteq Customer
    PROVE  Tamed(MapEach(w, list), ToSet(list))
<1> DEFINE f == MapEach(w, list)
           s(c) == [do |-> "upsert", links |-> {<<w, c>>}]
<1>1. \A c : Upsert({<<w, c>>})[1] = s(c)
    BY Single DEF Upsert
<1>2. /\ f = [i \in DOMAIN list |-> f[i]]
      /\ \A i \in DOMAIN list : f[i] = s(list[i])
    BY <1>1 DEF MapEach
<1> HIDE DEF f
<1>3. IsSeq(f) /\ DOMAIN f = DOMAIN list
    BY <1>2, MappedIs
<1>4. ASSUME NEW c \in ToSet(list) PROVE Tame(s(c), ToSet(list))
    <2> DEFINE e == s(c)
    <2>1. e.do = "upsert" /\ e.links = {<<w, c>>}
        OBVIOUS
    <2> HIDE DEF e
    <2>2. <<w, c>> \in LinkType
        BY DEF LinkType
    <2>3. e.links \cap (Product \X Supplier) = {}
        BY <2>1, Apart
    <2>4. Proper(e) /\ Lone(e)
        BY <2>1, <2>2, <2>3 DEF Proper, Lone
    <2>5. Brings(e) \subseteq {c}
        BY <2>1 DEF Brings
    <2>6. Tame(e, ToSet(list))
        BY <2>1, <2>4, <2>5 DEF Tame, StepOK, Nests, Account, Supplies
    <2> QED BY <2>6 DEF e
<1>5. \A i \in DOMAIN list : list[i] \in ToSet(list)
    BY DEF ToSet
<1> HIDE DEF s
<1>6. Tamed(f, ToSet(list))
    BY <1>2, <1>3, <1>4, <1>5 DEF Tamed
<1> QED BY <1>6 DEF f

LEMMA AssignedIs ==
    ASSUME NEW w \in Warehouse, NEW list \in Lists
    PROVE  Tamed(Assigned(w, list), ToSet(list)) /\ Acts(Assigned(w, list))
<1> DEFINE C == ToSet(list)
           a == When(list # <<>>, AllActive(C))
           b == SwitchOff(w, Customer)
           m == MapEach(w, list)
           fields == [customer |-> First(list)]
<1>1. IsSeq(list) /\ C \subseteq Customer /\ First(list) \in C \cup {None}
    BY ListIs
<1>2. Tamed(a, C)
    BY Lookups, ChecksWhen, TamedChecks
<1>3. Tamed(b, C)
    <2> DEFINE s == [do |-> "off", of |-> w, others |-> Customer]
    <2>1. s.do = "off"
        OBVIOUS
    <2> HIDE DEF s
    <2>2. Proper(s) /\ Lone(s) /\ Brings(s) = {}
        BY <2>1 DEF Proper, Lone, AddsLinks, Brings
    <2>3. Tame(s, C)
        BY <2>1, <2>2 DEF Tame, StepOK, Nests, Account, Supplies
    <2> QED BY <2>3, TamedOne DEF SwitchOff, s
<1>4. Tamed(m, C)
    BY <1>1, TamedMap
<1>5. Tamed(Change(w, fields), C) /\ Acts(Change(w, fields))
    <2>1. DOMAIN fields = {"customer"} /\ fields["customer"] \in C \cup {None}
        BY <1>1
    <2> HIDE DEF fields, C
    <2>2. Fit(fields)
        BY <1>1, <2>1, Parents DEF Fit
    <2> QED BY <2>1, <2>2, WarehouseChange
<1> HIDE DEF C, a, b, m, fields
<1>6. Tamed(a \o b \o m, C)
    BY <1>2, <1>3, <1>4, TamedJoin
<1>7. Tamed(a \o b \o m \o Change(w, fields), C)
    BY <1>5, <1>6, TamedJoin
<1>8. Acts(a \o b \o m \o Change(w, fields))
    BY <1>5, <1>6, ActsJoin DEF Tamed
<1> QED BY <1>7, <1>8 DEF Assigned, a, b, m, C, fields

(* Every request of places may begin.                                      *)
LEMMA ActivityScript ==
    ASSUME NEW a, Checks(a), NEW x \in Id \ PlatformUser, NEW on \in Activity
    PROVE  Script(a \o Transact(Change(x, on)))
<1> DEFINE all == Change(x, on)
<1>1. Parts(all, 1, 1)
    BY Actives, RowParts DEF Ups
<1> HIDE DEF all
<1>2. Parts(all, 1, 3) /\ \A i \in DOMAIN all : Lone(all[i])
    BY <1>1 DEF Parts, Part
<1>3. Script(a \o Transact(all))
    BY <1>2, TransactScript DEF Lone
<1> QED BY <1>3 DEF all

LEMMA CustomerKeeps ==
    ASSUME IInv, NEW r \in Req, NEW c \in Customer
    PROVE  /\ CreateCustomer(r, c) => IInv'
           /\ \A on \in Activity : UpdateCustomer(r, c, on) => IInv'
           /\ \A hard \in BOOLEAN : DeleteCustomer(r, c, hard) => IInv'
<1>1. c \in Id \ PlatformUser /\ c \notin Warehouse \cup Area \cup Zone \cup Bin \cup Product
                                          \cup Supplier \cup Transaction
    BY Apart, Ids
<1>2. Held(c, [active |-> TRUE])
    BY <1>1, Actives, HeldIs
<1>3. Script(AdminOnly \o Insert(c, [active |-> TRUE]))
    BY <1>1, <1>2, Asked, InsertScript
<1>4. Checks(AllowedCustomer(c) \o Exists(c))
    BY Lookups, Asked, ChecksJoin
<1>5. CreateCustomer(r, c) => IInv'
    BY <1>3, BeginKeeps DEF CreateCustomer
<1>6. ASSUME NEW on \in Activity, UpdateCustomer(r, c, on) PROVE IInv'
    <2>1. Script(AllowedCustomer(c) \o Exists(c) \o Transact(Change(c, on)))
        BY <1>1, <1>4, ActivityScript
    <2> QED BY <1>6, <2>1, BeginKeeps DEF UpdateCustomer
<1>7. ASSUME NEW hard \in BOOLEAN, DeleteCustomer(r, c, hard) PROVE IInv'
    <2>1. Script(AllowedCustomer(c) \o Exists(c) \o Delete(c, hard))
        BY <1>1, <1>4, DeleteScript
    <2> QED BY <1>7, <2>1, BeginKeeps DEF DeleteCustomer
<1> QED BY <1>5, <1>6, <1>7

LEMMA CompanyKeeps ==
    ASSUME IInv, NEW r \in Req, NEW o \in Company
    PROVE  /\ CreateOperatorCompany(r, o) => IInv'
           /\ \A on \in Activity : UpdateOperatorCompany(r, o, on) => IInv'
           /\ \A hard \in BOOLEAN : DeleteOperatorCompany(r, o, hard) => IInv'
<1>1. o \in Id \ PlatformUser /\ o \notin Warehouse \cup Area \cup Zone \cup Bin \cup Product
                                          \cup Supplier \cup Transaction
    BY Apart, Ids
<1>2. Held(o, [active |-> TRUE])
    BY <1>1, Actives, HeldIs
<1>3. Script(AdminOnly \o Insert(o, [active |-> TRUE]))
    BY <1>1, <1>2, Asked, InsertScript
<1>4. Checks(AllowedOperator(o) \o Exists(o))
    BY Lookups, Asked, ChecksJoin
<1>5. CreateOperatorCompany(r, o) => IInv'
    BY <1>3, BeginKeeps DEF CreateOperatorCompany
<1>6. ASSUME NEW on \in Activity, UpdateOperatorCompany(r, o, on) PROVE IInv'
    <2>1. Script(AllowedOperator(o) \o Exists(o) \o Transact(Change(o, on)))
        BY <1>1, <1>4, ActivityScript
    <2> QED BY <1>6, <2>1, BeginKeeps DEF UpdateOperatorCompany
<1>7. ASSUME NEW hard \in BOOLEAN, DeleteOperatorCompany(r, o, hard) PROVE IInv'
    <2>1. Script(AllowedOperator(o) \o Exists(o) \o Delete(o, hard))
        BY <1>1, <1>4, DeleteScript
    <2> QED BY <1>7, <2>1, BeginKeeps DEF DeleteOperatorCompany
<1> QED BY <1>5, <1>6, <1>7

LEMMA AssignKeeps ==
    ASSUME IInv, NEW r \in Req, NEW w \in Warehouse, NEW list \in Lists,
           AssignWarehouseCustomers(r, w, list)
    PROVE  IInv'
<1> DEFINE a == Allowed(w) \o Shared(w)
           b == ScopeOfEach(list)
<1>1. IsSeq(list)
    BY ListIs
<1>2. Checks(a) /\ Checks(b) /\ Checks(a \o b)
    BY <1>1, ScopesAre, Lookups, Asked, ChecksJoin
<1>3. \A c \in ToSet(list) : Holds(b, CustomerCheck(c))
    BY <1>1, ScopesAre
<1> HIDE DEF a, b
<1>4. \A c \in ToSet(list) : Holds(a \o b, CustomerCheck(c))
    BY <1>2, <1>3, HoldsJoin DEF Checks
<1>5. Script(a \o b \o Assigned(w, list))
    BY <1>2, <1>4, AssignedIs, TamedScript
<1> QED BY <1>5, BeginKeeps DEF AssignWarehouseCustomers, Assign, a, b

LEMMA CreateWarehouseKeeps ==
    ASSUME IInv, NEW r \in Req, NEW w \in Warehouse, NEW type, NEW owner \in Company,
           NEW operator \in Company \cup {None}, NEW list \in Lists,
           CreateWarehouse(r, w, type, owner, operator, list)
    PROVE  IInv'
<1> DEFINE C == ToSet(list)
           a == AllowedOwnerOperator(owner, operator)
           b == ScopeOfEach(list)
           d == Active(owner)
           e == When(operator # None, Active(operator))
           f == When(list # <<>>, AllActive(C))
           g == a \o b \o d \o e \o f
           row == [active |-> TRUE, type |-> type, customer |-> First(list), owner |-> owner,
                   operator |-> operator]
           more == When(type = "SHARED" /\ list # <<>>, Shared(w) \o Assigned(w, list))
<1>1. IsSeq(list) /\ C \subseteq Customer /\ First(list) \in C \cup {None}
    BY ListIs
<1>2. Checks(a) /\ Checks(b) /\ Checks(d) /\ Checks(e) /\ Checks(f)
    BY <1>1, ScopesAre, Lookups, Asked, ChecksWhen
<1>3. \A c \in C : Holds(b, CustomerCheck(c))
    BY <1>1, ScopesAre
<1>4. /\ DOMAIN row = {"active", "type", "customer", "owner", "operator"}
      /\ row["active"] = TRUE /\ row["customer"] = First(list) /\ row["owner"] = owner
      /\ row["operator"] = operator
    OBVIOUS
<1>5. Tamed(more, C) /\ (more = <<>> \/ Acts(more))
    <2> DEFINE x == Shared(w)
               y == Assigned(w, list)
    <2>1. Tamed(y, C) /\ Acts(y)
        BY AssignedIs
    <2>2. Tamed(x, C) /\ IsSeq(x)
        BY Lookups, TamedChecks DEF Tamed
    <2> HIDE DEF x, y, C
    <2>3. Tamed(x \o y, C) /\ Acts(x \o y)
        BY <2>1, <2>2, TamedJoin, ActsJoin
    <2>4. Tamed(<<>>, C)
        BY EmptyIsSeq DEF Tamed
    <2> QED BY <2>3, <2>4 DEF When, x, y
<1> HIDE DEF row, more, a, b, d, e, f, C
<1>6. Checks(a \o b) /\ \A c \in C : Holds(a \o b, CustomerCheck(c))
    BY <1>2, <1>3, ChecksJoin, HoldsJoin DEF Checks
<1>7. Checks(a \o b \o d) /\ \A c \in C : Holds(a \o b \o d, CustomerCheck(c))
    BY <1>2, <1>6, ChecksJoin, HoldsJoin DEF Checks
<1>8. Checks(a \o b \o d \o e) /\ \A c \in C : Holds(a \o b \o d \o e, CustomerCheck(c))
    BY <1>2, <1>7, ChecksJoin, HoldsJoin DEF Checks
<1>9. Checks(g) /\ \A c \in C : Holds(g, CustomerCheck(c))
    BY <1>2, <1>8, ChecksJoin, HoldsJoin DEF Checks
<1> HIDE DEF g
<1>10. Held(w, row)
    <2>1. Fit(row)
        BY <1>1, <1>4, Parents DEF Fit
    <2>2. w \in Id /\ w \notin Area \cup Zone \cup Bin \cup Transaction
        BY Apart, Ids
    <2> QED BY <1>4, <2>1, <2>2, HeldIs
<1>11. Tamed(Insert(w, row), C) /\ Acts(Insert(w, row))
    BY <1>1, <1>4, <1>10, WarehouseInsert
<1>12. Tamed(Insert(w, row) \o more, C) /\ Acts(Insert(w, row) \o more)
    BY <1>5, <1>11, TamedJoin, ActsMore
<1>13. Script(g \o (Insert(w, row) \o more))
    BY <1>9, <1>12, TamedScript
<1>14. g \o (Insert(w, row) \o more) = g \o Insert(w, row) \o more
    BY <1>5, <1>9, <1>11, JoinJoin DEF Checks, Tamed
<1>15. Script(g \o Insert(w, row) \o more)
    BY <1>13, <1>14
<1> QED BY <1>15, BeginKeeps DEF CreateWarehouse, row, more, a, b, d, e, f, g, C

LEMMA WarehouseKeeps ==
    ASSUME IInv, NEW r \in Req, NEW w \in Warehouse
    PROVE  /\ \A dto \in WarehouseDto : UpdateWarehouse(r, w, dto) => IInv'
           /\ \A hard \in BOOLEAN : DeleteWarehouse(r, w, hard) => IInv'
<1>1. w \in Id \ PlatformUser
    BY Apart, Ids
<1>2. ASSUME NEW dto \in WarehouseDto
      PROVE  Fit(dto) /\ ("customer" \in DOMAIN dto => dto["customer"] \in Customer)
    <2>1. ASSUME NEW f, NEW S, dto \in OneField(f, S),
                 \/ f \in DOMAIN Target /\ S \subseteq Target[f]
                 \/ f = "type"
          PROVE  Fit(dto) /\ ("customer" \in DOMAIN dto => dto["customer"] \in Customer)
        <3>1. PICK v \in S : dto = [g \in {f} |-> v]
            BY <2>1 DEF OneField
        <3>2. DOMAIN dto = {f} /\ dto[f] = v
            BY <3>1
        <3>3. f # "active" /\ f # "period"
            BY <2>1, Parents
        <3> QED BY <2>1, <3>2, <3>3, Parents DEF Fit
    <2>2. \A S : Present(S) \subseteq S
        BY DEF Present
    <2>3. CASE dto \in OneField("type", {"SHARED", "DEDICATED"})
        BY <2>1, <2>3
    <2>4. CASE dto \in OneField("owner", Present(Company))
        BY <2>1, <2>2, <2>4, Parents
    <2>5. CASE dto \in OneField("operator", Present(Company))
        BY <2>1, <2>2, <2>5, Parents
    <2>6. CASE dto \in OneField("customer", Present(Customer))
        BY <2>1, <2>2, <2>6, Parents
    <2>7. CASE dto \in Activity
        BY <2>7, Actives
    <2> QED BY <2>3, <2>4, <2>5, <2>6, <2>7 DEF WarehouseDto
<1>3. ASSUME NEW dto \in WarehouseDto, UpdateWarehouse(r, w, dto) PROVE IInv'
    <2> DEFINE gives(f) == f \in DOMAIN dto
               kept(f) == IF gives(f) THEN dto[f] ELSE Row(w)[f]
               c == dto["customer"]
               a == Allowed(w) \o Exists(w) \o AllowedOwnerOperator(kept("owner"), kept("operator"))
                    \o When(gives("owner"), Active(dto.owner))
                    \o When(gives("operator"), Active(dto.operator))
               b == AllowedCustomer(c)
               d == Active(c)
               e == When(gives("customer"), b \o d)
               C == IF gives("customer") THEN {c} ELSE {}
    <2>1. Checks(a)
        <3>1. Checks(Allowed(w) \o Exists(w)
                     \o AllowedOwnerOperator(kept("owner"), kept("operator")))
            BY Lookups, Asked, ChecksJoin
        <3>2. gives("owner") \in BOOLEAN /\ gives("operator") \in BOOLEAN
            OBVIOUS
        <3> HIDE DEF gives, kept
        <3>3. Checks(When(gives("owner"), Active(dto.owner)))
              /\ Checks(When(gives("operator"), Active(dto.operator)))
            BY <3>2, Lookups, ChecksWhen
        <3> QED BY <3>1, <3>3, ChecksJoin
    <2>2. Checks(b) /\ Checks(d) /\ Holds(b, CustomerCheck(c))
        BY Lookups, Asked, HoldsOne DEF AllowedCustomer, CustomerCheck
    <2>3. gives("customer") \in BOOLEAN /\ (gives("customer") => c \in Customer)
        BY <1>2
    <2> HIDE DEF a, b, d, c
    <2>4. Checks(b \o d) /\ Holds(b \o d, CustomerCheck(c))
        BY <2>2, ChecksJoin, HoldsJoin DEF Checks
    <2>5. Checks(e) /\ \A x \in C : Holds(e, CustomerCheck(x))
        BY <2>3, <2>4, ChecksWhen DEF When
    <2> HIDE DEF e
    <2>6. Checks(a \o e) /\ \A x \in C : Holds(a \o e, CustomerCheck(x))
        BY <2>1, <2>5, ChecksJoin, HoldsJoin DEF Checks
    <2>7. "customer" \in DOMAIN dto => dto["customer"] \in C \cup {None}
        BY DEF c
    <2> HIDE DEF C
    <2>8. Tamed(Change(w, dto), C) /\ Acts(Change(w, dto))
        BY <1>2, <2>7, WarehouseChange
    <2>9. Script(a \o e \o Change(w, dto))
        BY <2>6, <2>8, TamedScript
    <2> QED BY <1>3, <2>9, BeginKeeps DEF UpdateWarehouse, a, b, c, d, e
<1>4. ASSUME NEW hard \in BOOLEAN, DeleteWarehouse(r, w, hard) PROVE IInv'
    <2>1. Script(Allowed(w) \o Exists(w) \o Delete(w, hard))
        BY <1>1, Lookups, Asked, ChecksJoin, DeleteScript
    <2> QED BY <1>4, <2>1, BeginKeeps DEF DeleteWarehouse
<1> QED BY <1>3, <1>4

LEMMA AreaKeeps ==
    ASSUME IInv, NEW r \in Req, NEW a \in Area
    PROVE  /\ \A w \in Warehouse : CreateArea(r, a, w) => IInv'
           /\ \A w \in Warehouse \cup {None}, on \in Activity : UpdateArea(r, a, w, on) => IInv'
           /\ \A hard \in BOOLEAN : DeleteArea(r, a, hard) => IInv'
<1>1. a \in Id \ PlatformUser /\ a \notin Warehouse \cup Zone \cup Bin \cup Product
                                          \cup Supplier \cup Transaction
    BY Apart, Ids
<1>2. ASSUME NEW w \in Warehouse, CreateArea(r, a, w) PROVE IInv'
    <2> DEFINE row == [active |-> TRUE, warehouse |-> w]
    <2>1. DOMAIN row = {"active", "warehouse"} /\ row["active"] = TRUE /\ row["warehouse"] = w
        OBVIOUS
    <2> HIDE DEF row
    <2>2. Held(a, row)
        <3>1. Fit(row)
            BY <2>1, Parents DEF Fit
        <3> QED BY <1>1, <2>1, <3>1, HeldIs
    <2>3. Script(Allowed(w) \o Active(w) \o Insert(a, row))
        BY <1>1, <2>2, Lookups, Asked, ChecksJoin, InsertScript
    <2> QED BY <1>2, <2>3, BeginKeeps DEF CreateArea, row
<1>3. ASSUME NEW w \in Warehouse \cup {None}, NEW on \in Activity, UpdateArea(r, a, w, on)
      PROVE  IInv'
    <2> DEFINE fields == With(on, Given("warehouse", w))
               b == AllowedAt(a) \o When(w # None, Allowed(w)) \o Exists(a)
                    \o When(w # None, Active(w))
    <2>1. Fit(fields) /\ DOMAIN fields \subseteq {"active", "warehouse"}
        BY Parents, FitUpdate
    <2>2. Checks(b)
        BY Lookups, Asked, ChecksWhen, ChecksJoin
    <2> HIDE DEF fields, b
    <2>3. Script(b \o Change(a, fields))
        BY <1>1, <2>1, <2>2, ChangeScript
    <2> QED BY <1>3, <2>3, BeginKeeps DEF UpdateArea, fields, b
<1>4. ASSUME NEW hard \in BOOLEAN, DeleteArea(r, a, hard) PROVE IInv'
    <2>1. Script(AllowedAt(a) \o Exists(a) \o Delete(a, hard))
        BY <1>1, Lookups, Asked, ChecksJoin, DeleteScript
    <2> QED BY <1>4, <2>1, BeginKeeps DEF DeleteArea
<1> QED BY <1>2, <1>3, <1>4

(* A place is inserted after its parent was looked up in the same          *)
(* warehouse.                                                              *)
LEMMA NestScript ==
    ASSUME NEW a, Checks(a), NEW x \in Zone \cup Bin, NEW row, Held(x, row),
           row.warehouse \in Warehouse,
           LET up == IF x \in Zone THEN row.area ELSE row.zone
           IN  up # None => Holds(a, [do |-> "within", of |-> up, field |-> "warehouse",
                                      to |-> row.warehouse])
    PROVE  Script(a \o Insert(x, row))
<1> DEFINE s == [do |-> "insert", of |-> x, row |-> row]
<1>1. s.do = "insert" /\ s.of = x /\ s.row = row
    OBVIOUS
<1> HIDE DEF s
<1>2. x \in Id /\ x \notin Warehouse /\ row.warehouse # None
    BY Apart, Ids, Values
<1>3. Proper(s) /\ Lone(s)
    BY <1>1, <1>2 DEF Proper, Lone, AddsLinks
<1>4. Brings(s) = {}
    BY <1>1, <1>2 DEF Brings, AddsLinks
<1>5. Nests(s) => Holds(a, UpCheck(s))
    BY <1>1 DEF Nests, UpCheck, Up
<1>6. Guarded(a, s)
    BY <1>1, <1>2, <1>3, <1>4, <1>5 DEF Guarded, StepOK, IsCheck, Account, Supplies
<1> QED BY <1>6, GuardedScript DEF Insert, s

LEMMA ZoneKeeps ==
    ASSUME IInv, NEW r \in Req, NEW z \in Zone
    PROVE  /\ \A w \in Warehouse, a \in Area \cup {None} : CreateZone(r, z, w, a) => IInv'
           /\ \A w \in Warehouse \cup {None}, a \in Area \cup {None}, on \in Activity :
                 UpdateZone(r, z, w, a, on) => IInv'
           /\ \A hard \in BOOLEAN : DeleteZone(r, z, hard) => IInv'
<1>1. z \in Id \ PlatformUser /\ z \notin Warehouse \cup Area \cup Bin \cup Product
                                          \cup Supplier \cup Transaction
    BY Apart, Ids
<1>2. ASSUME NEW w \in Warehouse, NEW a \in Area \cup {None}, CreateZone(r, z, w, a)
      PROVE  IInv'
    <2> DEFINE row == [active |-> TRUE, warehouse |-> w, area |-> a]
               s == [do |-> "within", of |-> a, field |-> "warehouse", to |-> w]
               c == Allowed(w) \o Active(w)
               d == AreaOf(w, a)
    <2>1. DOMAIN row = {"active", "warehouse", "area"} /\ row["active"] = TRUE
          /\ row["warehouse"] = w /\ row["area"] = a
        OBVIOUS
    <2>2. Checks(c) /\ Checks(d)
        BY Lookups, Asked, ChecksWhen, ChecksJoin DEF AreaOf
    <2>3. a # None => Holds(d, s)
        BY HoldsOne DEF AreaOf, When, Within
    <2> HIDE DEF row, s, c, d
    <2>4. Checks(c \o d) /\ (a # None => Holds(c \o d, s))
        BY <2>2, <2>3, ChecksJoin, HoldsJoin DEF Checks
    <2>5. Held(z, row)
        <3>1. Fit(row)
            BY <2>1, Parents DEF Fit
        <3> QED BY <1>1, <2>1, <3>1, HeldIs
    <2>6. Script(c \o d \o Insert(z, row))
        BY <2>1, <2>4, <2>5, NestScript DEF s
    <2> QED BY <1>2, <2>6, BeginKeeps DEF CreateZone, row, c, d
<1>3. ASSUME NEW w \in Warehouse \cup {None}, NEW a \in Area \cup {None}, NEW on \in Activity,
             UpdateZone(r, z, w, a, on)
      PROVE  IInv'
    <2> DEFINE some == With(on, Given("area", a))
               fields == With(some, Given("warehouse", w))
               c == AllowedAt(z) \o When(w # None, Allowed(w)) \o Exists(z)
                    \o When(w # None, Active(w)) \o When(a # None, Within(a, "warehouse", w))
    <2>1. Fit(some) /\ DOMAIN some \subseteq {"active", "area"}
        BY Parents, FitUpdate
    <2>2. Checks(c)
        BY Lookups, Asked, ChecksWhen, ChecksJoin
    <2> HIDE DEF some, c
    <2>3. Fit(fields) /\ DOMAIN fields \subseteq {"active", "area", "warehouse"}
        BY <2>1, Parents, FitMore
    <2> HIDE DEF fields
    <2>4. Script(c \o Change(z, fields))
        BY <1>1, <2>2, <2>3, ChangeScript
    <2> QED BY <1>3, <2>4, BeginKeeps DEF UpdateZone, some, fields, c
<1>4. ASSUME NEW hard \in BOOLEAN, DeleteZone(r, z, hard) PROVE IInv'
    <2>1. Script(AllowedAt(z) \o Exists(z) \o Delete(z, hard))
        BY <1>1, Lookups, Asked, ChecksJoin, DeleteScript
    <2> QED BY <1>4, <2>1, BeginKeeps DEF DeleteZone
<1> QED BY <1>2, <1>3, <1>4

LEMMA BinKeeps ==
    ASSUME IInv, NEW r \in Req, NEW b \in Bin
    PROVE  /\ \A w \in Warehouse, z \in Zone : CreateBin(r, b, w, z) => IInv'
           /\ \A w \in Warehouse \cup {None}, z \in Zone \cup {None}, on \in Activity :
                 UpdateBin(r, b, w, z, on) => IInv'
           /\ \A hard \in BOOLEAN : DeleteBin(r, b, hard) => IInv'
<1>1. b \in Id \ PlatformUser /\ b \notin Warehouse \cup Area \cup Zone \cup Product
                                          \cup Supplier \cup Transaction
    BY Apart, Ids
<1>2. ASSUME NEW w \in Warehouse, NEW z \in Zone, CreateBin(r, b, w, z)
      PROVE  IInv'
    <2> DEFINE row == [active |-> TRUE, warehouse |-> w, zone |-> z]
               s == [do |-> "within", of |-> z, field |-> "warehouse", to |-> w]
               c == Allowed(w) \o Active(w)
               d == Within(z, "warehouse", w)
    <2>1. DOMAIN row = {"active", "warehouse", "zone"} /\ row["active"] = TRUE
          /\ row["warehouse"] = w /\ row["zone"] = z
        OBVIOUS
    <2>2. Checks(c) /\ Checks(d)
        BY Lookups, Asked, ChecksJoin
    <2>3. Holds(d, s)
        BY HoldsOne DEF Within
    <2> HIDE DEF row, s, c, d
    <2>4. Checks(c \o d) /\ Holds(c \o d, s)
        BY <2>2, <2>3, ChecksJoin, HoldsJoin DEF Checks
    <2>5. Held(b, row)
        <3>1. Fit(row)
            BY <2>1, Parents DEF Fit
        <3> QED BY <1>1, <2>1, <3>1, HeldIs
    <2>6. Script(c \o d \o Insert(b, row))
        BY <1>1, <2>1, <2>4, <2>5, NestScript DEF s
    <2> QED BY <1>2, <2>6, BeginKeeps DEF CreateBin, row, c, d
<1>3. ASSUME NEW w \in Warehouse \cup {None}, NEW z \in Zone \cup {None}, NEW on \in Activity,
             UpdateBin(r, b, w, z, on)
      PROVE  IInv'
    <2> DEFINE some == With(on, Given("zone", z))
               fields == With(some, Given("warehouse", w))
               c == AllowedAt(b) \o When(w # None, Allowed(w)) \o Exists(b)
                    \o When(w # None, Active(w)) \o When(z # None, Within(z, "warehouse", w))
    <2>1. Fit(some) /\ DOMAIN some \subseteq {"active", "zone"}
        BY Parents, FitUpdate
    <2>2. Checks(c)
        BY Lookups, Asked, ChecksWhen, ChecksJoin
    <2> HIDE DEF some, c
    <2>3. Fit(fields) /\ DOMAIN fields \subseteq {"active", "zone", "warehouse"}
        BY <2>1, Parents, FitMore
    <2> HIDE DEF fields
    <2>4. Script(c \o Change(b, fields))
        BY <1>1, <2>2, <2>3, ChangeScript
    <2> QED BY <1>3, <2>4, BeginKeeps DEF UpdateBin, some, fields, c
<1>4. ASSUME NEW hard \in BOOLEAN, DeleteBin(r, b, hard) PROVE IInv'
    <2>1. Script(AllowedAt(b) \o Exists(b) \o Delete(b, hard))
        BY <1>1, Lookups, Asked, ChecksJoin, DeleteScript
    <2> QED BY <1>4, <2>1, BeginKeeps DEF DeleteBin
<1> QED BY <1>2, <1>3, <1>4

LEMMA BalanceKeeps ==
    ASSUME IInv, NEW r \in Req, NEW c \in Customer, NEW w \in Warehouse, NEW b \in Bin,
           NEW p \in Product, UpsertInventoryBalance(r, c, w, b, p)
    PROVE  IInv'
<1> DEFINE link == <<c, w, b, p>>
           a == Allowed(w) \o Active(c) \o Admits(w, c) \o Within(b, "warehouse", w)
                \o Within(p, "customer", c)
           s == [do |-> "upsert", links |-> {link}]
<1>1. Checks(a)
    BY Lookups, Asked, ChecksJoin
<1>2. s.do = "upsert" /\ s.links = {link}
    OBVIOUS
<1>3. link[1] = c /\ link \in Customer \X Warehouse \X Bin \X Product
    OBVIOUS
<1> HIDE DEF a, s, link
<1>4. {link} \subseteq LinkType
    BY <1>3 DEF LinkType
<1>5. \A x, y : x \notin Customer => <<x, y>> # link
    <2> SUFFICES ASSUME NEW x, NEW y, x \notin Customer, <<x, y>> = link PROVE FALSE
        OBVIOUS
    <2>1. <<x, y>>[1] = x
        OBVIOUS
    <2> QED BY <1>3, <2>1
<1>6. /\ \A x \in Warehouse, y \in Customer : <<x, y>> \notin s.links
      /\ \A x \in Product, y \in Supplier : <<x, y>> \notin s.links
    BY <1>2, <1>5, Apart
<1>7. Brings(s) = {} /\ Proper(s) /\ Lone(s)
    BY <1>2, <1>4, <1>6 DEF Brings, Proper, Lone
<1>8. Gentle(s)
    BY <1>2, <1>7 DEF Gentle, StepOK, IsCheck, Nests, Account, Supplies
<1>9. Script(a \o <<s>>)
    BY <1>1, <1>8, GentleScript
<1> QED BY <1>9, BeginKeeps DEF UpsertInventoryBalance, Upsert, a, s, link

LEMMA PlaceKeeps ==
    ASSUME IInv, NEW r \in Req, PlaceRequest(r)
    PROVE  IInv'
<1>1. \A S : Present(S) \subseteq S /\ Fresh(S) \subseteq S /\ Optional(S) = S \cup {None}
    BY DEF Present, Fresh, Optional
<1>2. CASE \/ \E c \in Fresh(Customer) : CreateCustomer(r, c)
           \/ \E c \in Present(Customer) :
                 \/ \E on \in Activity : UpdateCustomer(r, c, on)
                 \/ \E hard \in BOOLEAN : DeleteCustomer(r, c, hard)
    BY <1>1, <1>2, CustomerKeeps
<1>3. CASE \/ \E o \in Fresh(Company) : CreateOperatorCompany(r, o)
           \/ \E o \in Present(Company) :
                 \/ \E on \in Activity : UpdateOperatorCompany(r, o, on)
                 \/ \E hard \in BOOLEAN : DeleteOperatorCompany(r, o, hard)
    BY <1>1, <1>3, CompanyKeeps
<1>4. CASE \E w \in Fresh(Warehouse), type \in {"SHARED", "DEDICATED"}, owner \in Present(Company),
              operator \in Optional(Present(Company)), list \in Lists :
              CreateWarehouse(r, w, type, owner, operator, list)
    BY <1>1, <1>4, CreateWarehouseKeeps
<1>5. CASE \E w \in Present(Warehouse) :
              \/ \E list \in Lists : AssignWarehouseCustomers(r, w, list)
              \/ \E dto \in WarehouseDto : UpdateWarehouse(r, w, dto)
              \/ \E hard \in BOOLEAN : DeleteWarehouse(r, w, hard)
    BY <1>1, <1>5, AssignKeeps, WarehouseKeeps
<1>6. CASE \/ \E a \in Fresh(Area), w \in Present(Warehouse) : CreateArea(r, a, w)
           \/ \E a \in Present(Area) :
                 \/ \E w \in Optional(Present(Warehouse)), on \in Activity : UpdateArea(r, a, w, on)
                 \/ \E hard \in BOOLEAN : DeleteArea(r, a, hard)
    BY <1>1, <1>6, AreaKeeps
<1>7. CASE \/ \E z \in Fresh(Zone), w \in Present(Warehouse), a \in Optional(Present(Area)) :
                 CreateZone(r, z, w, a)
           \/ \E z \in Present(Zone) :
                 \/ \E w \in Optional(Present(Warehouse)), a \in Optional(Present(Area)),
                       on \in Activity : UpdateZone(r, z, w, a, on)
                 \/ \E hard \in BOOLEAN : DeleteZone(r, z, hard)
    BY <1>1, <1>7, ZoneKeeps
<1>8. CASE \/ \E b \in Fresh(Bin), w \in Present(Warehouse), z \in Present(Zone) :
                 CreateBin(r, b, w, z)
           \/ \E b \in Present(Bin) :
                 \/ \E w \in Optional(Present(Warehouse)), z \in Optional(Present(Zone)),
                       on \in Activity : UpdateBin(r, b, w, z, on)
                 \/ \E hard \in BOOLEAN : DeleteBin(r, b, hard)
    BY <1>1, <1>8, BinKeeps
<1>9. CASE \E b \in Present(Bin), c \in Present(Customer), w \in Present(Warehouse),
              p \in Present(Product) : UpsertInventoryBalance(r, c, w, b, p)
    BY <1>1, <1>9, BalanceKeeps
<1> QED BY <1>2, <1>3, <1>4, <1>5, <1>6, <1>7, <1>8, <1>9 DEF PlaceRequest

-----------------------------------------------------------------------------
(* Catalogue: every request of it may begin.                               *)
LEMMA UomKeeps ==
    ASSUME IInv, NEW r \in Req, NEW u \in Uom
    PROVE  /\ CreateUom(r, u) => IInv'
           /\ \A on \in Activity : UpdateUom(r, u, on) => IInv'
           /\ \A hard \in BOOLEAN : DeleteUom(r, u, hard) => IInv'
<1>1. u \in Id \ PlatformUser /\ u \notin Warehouse \cup Area \cup Zone \cup Bin \cup Product
                                          \cup Supplier \cup Transaction
    BY Apart, Ids
<1>2. Held(u, [active |-> TRUE])
    BY <1>1, Actives, HeldIs
<1>3. Script(AdminOnly \o Insert(u, [active |-> TRUE]))
    BY <1>1, <1>2, Asked, InsertScript
<1>4. Checks(AdminOnly \o Exists(u))
    BY Lookups, Asked, ChecksJoin
<1>5. CreateUom(r, u) => IInv'
    BY <1>3, BeginKeeps DEF CreateUom
<1>6. ASSUME NEW on \in Activity, UpdateUom(r, u, on) PROVE IInv'
    <2>1. Script(AdminOnly \o Exists(u) \o Change(u, on))
        BY <1>1, <1>4, Actives, ChangeScript
    <2> QED BY <1>6, <2>1, BeginKeeps DEF UpdateUom
<1>7. ASSUME NEW hard \in BOOLEAN, DeleteUom(r, u, hard) PROVE IInv'
    <2>1. Script(AdminOnly \o Exists(u) \o Delete(u, hard))
        BY <1>1, <1>4, DeleteScript
    <2> QED BY <1>7, <2>1, BeginKeeps DEF DeleteUom
<1> QED BY <1>5, <1>6, <1>7

LEMMA ConversionKeeps ==
    ASSUME IInv, NEW r \in Req, NEW v \in Conversion
    PROVE  /\ \A p \in Product, from \in Uom, to \in Uom, on \in BOOLEAN :
                 CreateProductUomConversion(r, v, p, from, to, on) => IInv'
           /\ \A from \in Uom \cup {None}, to \in Uom \cup {None}, on \in Activity :
                 UpdateProductUomConversion(r, v, from, to, on) => IInv'
           /\ \A hard \in BOOLEAN : DeleteProductUomConversion(r, v, hard) => IInv'
<1>1. v \in Id \ PlatformUser /\ v \notin Warehouse \cup Area \cup Zone \cup Bin \cup Product
                                          \cup Supplier \cup Transaction
    BY Apart, Ids
<1>2. ASSUME NEW p \in Product, NEW from \in Uom, NEW to \in Uom, NEW on \in BOOLEAN,
             CreateProductUomConversion(r, v, p, from, to, on)
      PROVE  IInv'
    <2> DEFINE row == [active |-> on, product |-> p, from |-> from, to |-> to]
               a == AllowedCustomerOf(p) \o Active(p) \o Active(from) \o Active(to)
    <2>1. DOMAIN row = {"active", "product", "from", "to"} /\ row["active"] = on
          /\ row["product"] = p /\ row["from"] = from /\ row["to"] = to
        OBVIOUS
    <2>2. Checks(a)
        BY Lookups, Asked, ChecksJoin
    <2> HIDE DEF row, a
    <2>3. Held(v, row)
        <3>1. Fit(row)
            BY <2>1, Parents DEF Fit
        <3> QED BY <1>1, <2>1, <3>1, HeldIs
    <2>4. Script(a \o Insert(v, row))
        BY <1>1, <2>2, <2>3, InsertScript
    <2> QED BY <1>2, <2>4, BeginKeeps DEF CreateProductUomConversion, row, a
<1>3. ASSUME NEW from \in Uom \cup {None}, NEW to \in Uom \cup {None}, NEW on \in Activity,
             UpdateProductUomConversion(r, v, from, to, on)
      PROVE  IInv'
    <2> DEFINE some == With(on, Given("to", to))
               fields == With(some, Given("from", from))
               a == Exists(v) \o AllowedCustomerOf(Row(v).product)
                    \o When(from # None, Active(from)) \o When(to # None, Active(to))
    <2>1. Fit(some) /\ DOMAIN some \subseteq {"active", "to"}
        BY Parents, FitUpdate
    <2>2. Checks(a)
        BY Lookups, Asked, ChecksWhen, ChecksJoin
    <2> HIDE DEF some, a
    <2>3. Fit(fields) /\ DOMAIN fields \subseteq {"active", "to", "from"}
        BY <2>1, Parents, FitMore
    <2> HIDE DEF fields
    <2>4. Script(a \o Change(v, fields))
        BY <1>1, <2>2, <2>3, ChangeScript
    <2> QED BY <1>3, <2>4, BeginKeeps DEF UpdateProductUomConversion, some, fields, a
<1>4. ASSUME NEW hard \in BOOLEAN, DeleteProductUomConversion(r, v, hard) PROVE IInv'
    <2> DEFINE a == Exists(v) \o AllowedCustomerOf(Row(v).product)
    <2>1. Checks(a)
        BY Lookups, Asked, ChecksJoin
    <2> HIDE DEF a
    <2>2. Script(a \o Delete(v, hard))
        BY <1>1, <2>1, DeleteScript
    <2> QED BY <1>4, <2>2, BeginKeeps DEF DeleteProductUomConversion, a
<1> QED BY <1>2, <1>3, <1>4

LEMMA SupplierKeeps ==
    ASSUME IInv, NEW r \in Req, NEW s \in Supplier
    PROVE  /\ \A c \in Customer : CreateSupplier(r, s, c) => IInv'
           /\ \A on \in Activity : UpdateSupplier(r, s, on) => IInv'
           /\ \A hard \in BOOLEAN : DeleteSupplier(r, s, hard) => IInv'
<1>1. s \in Id \ PlatformUser /\ s \notin Warehouse \cup Area \cup Zone \cup Bin \cup Product
                                          \cup Transaction
    BY Apart, Ids
<1>2. ASSUME NEW c \in Customer, CreateSupplier(r, s, c) PROVE IInv'
    <2> DEFINE row == [active |-> TRUE, customer |-> c]
    <2>1. DOMAIN row = {"active", "customer"} /\ row["active"] = TRUE /\ row["customer"] = c
        OBVIOUS
    <2> HIDE DEF row
    <2>2. Held(s, row)
        <3>1. Fit(row)
            BY <2>1, Parents DEF Fit
        <3> QED BY <1>1, <2>1, <3>1, HeldIs
    <2>3. Script(AllowedCustomer(c) \o Active(c) \o Insert(s, row))
        BY <1>1, <2>2, Lookups, Asked, ChecksJoin, InsertScript
    <2> QED BY <1>2, <2>3, BeginKeeps DEF CreateSupplier, row
<1>3. Checks(AllowedCustomerOf(s) \o Exists(s))
    BY Lookups, Asked, ChecksJoin
<1>4. ASSUME NEW on \in Activity, UpdateSupplier(r, s, on) PROVE IInv'
    <2>1. Script(AllowedCustomerOf(s) \o Exists(s) \o Transact(Change(s, on)))
        BY <1>1, <1>3, ActivityScript
    <2> QED BY <1>4, <2>1, BeginKeeps DEF UpdateSupplier
<1>5. ASSUME NEW hard \in BOOLEAN, DeleteSupplier(r, s, hard) PROVE IInv'
    <2> DEFINE a == AllowedCustomerOf(s) \o Exists(s)
               b == Delete(s, hard)
               off == [do |-> "off", of |-> s, others |-> Product]
               d == When(~hard, SwitchOff(s, Product))
    <2>1. Tamed(b, {}) /\ Acts(b)
        <3>1. Gentle([do |-> "erase", of |-> s])
            BY <1>1, GentleErase
        <3>2. Gentle([do |-> "change", of |-> s, fields |-> [active |-> FALSE]])
            BY <1>1, Actives, GentleChange
        <3> QED BY <3>1, <3>2, GentleIsTame DEF Delete, Erase, Change
    <2>2. Tamed(d, {}) /\ (d = <<>> \/ Acts(d))
        <3>1. off.do = "off"
            OBVIOUS
        <3> HIDE DEF off
        <3>2. Proper(off) /\ Lone(off) /\ Brings(off) = {}
            BY <3>1 DEF Proper, Lone, AddsLinks, Brings
        <3>3. Gentle(off)
            BY <3>1, <3>2 DEF Gentle, StepOK, IsCheck, Nests, Account, Supplies
        <3>4. Tamed(<<off>>, {}) /\ Acts(<<off>>)
            BY <3>3, GentleIsTame
        <3>5. d = <<off>> \/ d = <<>>
            BY DEF When, SwitchOff, off
        <3>6. Tamed(<<>>, {})
            BY EmptyIsSeq DEF Tamed
        <3> QED BY <3>4, <3>5, <3>6
    <2> HIDE DEF a, b, d
    <2>3. Tamed(b \o d, {}) /\ Acts(b \o d)
        BY <2>1, <2>2, TamedJoin, ActsMore
    <2>4. Checks(a)
        BY <1>3 DEF a
    <2>5. Script(a \o (b \o d))
        BY <2>3, <2>4, TamedScript
    <2>6. a \o (b \o d) = a \o b \o d
        BY <2>1, <2>2, <2>4, JoinJoin DEF Checks, Tamed
    <2>7. Script(a \o b \o d)
        BY <2>5, <2>6
    <2> QED BY <1>5, <2>7, BeginKeeps DEF DeleteSupplier, a, b, d
<1> QED BY <1>2, <1>4, <1>5

(* A product is linked to suppliers after they were looked up as those of  *)
(* its customer.                                                           *)
LEMMA SupplyScript ==
    ASSUME NEW a, Checks(a), NEW p \in Product, NEW S \in SUBSET Supplier, NEW all,
           Len(all) \in 2..3,
           \A i \in 1..Len(all) :
              /\ Proper(all[i]) /\ Calm(all[i]) /\ Moves(all[i]) = {}
              /\ AddsLinks(all[i]) => all[i].links = {p} \X S,
           all[1].of = p, all[1].do \in {"insert", "change"},
           all[1].do = "change" => db.rows[p] # Absent,
           NEW c, S # {} => Holds(a, [do |-> "allOf", of |-> S, as |-> c]),
           IF all[1].do = "insert" THEN c = all[1].row.customer /\ c \in Customer ELSE c = p
    PROVE  Script(a \o Transact(all))
<1> DEFINE s == [do |-> "tx", all |-> all]
           e == [do |-> "allOf", of |-> S, as |-> c]
<1>1. s.do = "tx" /\ s.all = all /\ e.do = "allOf" /\ e.of = S /\ e.as = c
    OBVIOUS
<1>2. S # {} => Holds(a, e)
    OBVIOUS
<1> HIDE DEF s, e
<1>3. StepOK(s)
    <2>1. Len(all) \in 1..3
        OBVIOUS
    <2> QED BY <1>1, <2>1 DEF StepOK, InOne
<1>4. Brings(s) = {}
    BY <1>1 DEF Brings, AddsLinks
<1>5. ASSUME NEW q \in Product, NEW v \in Supplier, Supplies(s, q, v)
      PROVE  Named(db, s, q) /\ \E i \in DOMAIN a : Vouches(a[i], s, q, v)
    <2>1. PICK j \in 1..Len(all) : AddsLinks(all[j]) /\ <<q, v>> \in all[j].links
        BY <1>1, <1>5 DEF Supplies
    <2>2. <<q, v>> \in {p} \X S
        BY <2>1
    <2>3. q = p /\ v \in S
        BY <2>2
    <2>4. PICK i \in DOMAIN a : a[i] = e
        BY <1>2, <2>3 DEF Holds
    <2>5. Named(db, s, q)
        BY <1>1, <2>3 DEF Named, Made
    <2>6. Vouches(e, s, q, v)
        BY <1>1, <2>3 DEF Vouches, Made
    <2> QED BY <2>4, <2>5, <2>6
<1>6. Guarded(a, s)
    BY <1>1, <1>3, <1>4, <1>5 DEF Guarded, IsCheck, Nests, Account
<1> QED BY <1>6, GuardedScript DEF Transact, s

LEMMA Pair ==
    ASSUME NEW x, NEW y, NEW t, t = <<x>> \o <<y>>
    PROVE  IsSeq(t) /\ Len(t) = 2 /\ t[1] = x /\ t[2] = y
<1> DEFINE v == <<x>>
<1>1. IsSeq(v) /\ Len(v) = 1 /\ v[1] = x
    BY Single
<1> HIDE DEF v
<1>2. t = v \o <<y>>
    BY DEF v
<1> DEFINE z == <<y>>
<1>3. IsSeq(z)
    BY Single
<1>4. t = v \o z
    BY <1>2
<1>5. Len(t) = 2 /\ t[1] = x /\ t[2] = y
    BY <1>1, Lengthened DEF v
<1> HIDE DEF z
<1>6. IsSeq(t)
    BY <1>1, <1>3, <1>4, Joined
<1> QED BY <1>5, <1>6

LEMMA Triple ==
    ASSUME NEW x, NEW y, NEW z, NEW t, t = <<x>> \o (<<y>> \o <<z>>)
    PROVE  Len(t) = 3 /\ t[1] = x /\ t[2] = y /\ t[3] = z
<1> DEFINE u == <<x>> \o <<y>>
<1>1. IsSeq(u) /\ Len(u) = 2 /\ u[1] = x /\ u[2] = y
    <2>1. u = <<x>> \o <<y>>
        OBVIOUS
    <2> HIDE DEF u
    <2>2. Len(u) = 2 /\ u[1] = x /\ u[2] = y
        BY <2>1, Pair
    <2>3. IsSeq(u)
        BY <2>1, Pair
    <2> QED BY <2>2, <2>3
<1>2. t = u \o <<z>>
    <2> DEFINE a == <<x>>
               b == <<y>>
               c == <<z>>
    <2>1. IsSeq(a) /\ IsSeq(b) /\ IsSeq(c)
        BY Single
    <2> HIDE DEF a, b, c
    <2>2. a \o (b \o c) = (a \o b) \o c
        BY <2>1, JoinJoin
    <2> QED BY <2>2 DEF a, b, c
<1> HIDE DEF u
<1>3. Len(t) = 3 /\ t[1] = x /\ t[2] = y /\ t[3] = z
    BY <1>1, <1>2, Lengthened
<1> QED BY <1>3

LEMMA JoinEmpty == ASSUME NEW a, IsSeq(a) PROVE a \o <<>> = a
BY DEF IsSeq

LEMMA CreateProductKeeps ==
    ASSUME IInv, NEW r \in Req, NEW p \in Product, NEW c \in Customer,
           NEW S \in SUBSET Supplier, NEW base \in Uom \cup {None},
           CreateProduct(r, p, c, S, base)
    PROVE  IInv'
<1> DEFINE row == [active |-> TRUE, customer |-> c, base |-> base]
           s == [do |-> "insert", of |-> p, row |-> row]
           l == [do |-> "createMany", links |-> {p} \X S]
           k == [do |-> "allOf", of |-> S, as |-> c]
           a == AllowedCustomer(c) \o Active(c)
           b == When(S # {}, SuppliersOf(S, c))
           d == When(base # None, Active(base))
           more == When(S # {}, CreateMany({p} \X S))
<1>1. p \in Id \ PlatformUser /\ p \notin Customer \cup Warehouse \cup Area \cup Zone \cup Bin
                                          \cup Supplier \cup User \cup Transaction
    BY Apart, Ids
<1>2. DOMAIN row = {"active", "customer", "base"} /\ row["active"] = TRUE
      /\ row["customer"] = c /\ row["base"] = base
    OBVIOUS
<1>3. Checks(a) /\ Checks(b) /\ Checks(d) /\ (S # {} => Holds(b, k))
    BY Lookups, Asked, ChecksWhen, ChecksJoin, HoldsOne DEF SuppliersOf, AllOf, When
<1>4. s.do = "insert" /\ s.of = p /\ s.row = row
    OBVIOUS
<1>5. l.do = "createMany" /\ l.links = {p} \X S
    OBVIOUS
<1>6. Insert(p, row) = <<s>> /\ (S # {} => more = <<l>>) /\ (S = {} => more = <<>>)
    BY DEF Insert, When, CreateMany
<1> HIDE DEF row, s, l, k, a, b, d, more
<1>7. Held(p, row)
    <2>1. Fit(row)
        BY <1>2, Parents DEF Fit
    <2> QED BY <1>1, <1>2, <2>1, HeldIs
<1>8. Checks(a \o b) /\ (S # {} => Holds(a \o b, k))
    BY <1>3, ChecksJoin, HoldsJoin DEF Checks
<1>9. Checks(a \o b \o d) /\ (S # {} => Holds(a \o b \o d, k))
    BY <1>3, <1>8, ChecksJoin, HoldsJoin DEF Checks
<1>10. Script(a \o b \o d \o Transact(Insert(p, row) \o more))
    <2>1. CASE S = {}
        <3> DEFINE all == Insert(p, row)
        <3>1. Parts(all, 1, 1)
            BY <1>1, <1>7, RowParts
        <3>2. all \o more = all
            BY <1>6, <2>1, <3>1, JoinEmpty DEF Parts
        <3> HIDE DEF all
        <3>3. Parts(all, 1, 3) /\ \A i \in DOMAIN all : Lone(all[i])
            BY <3>1 DEF Parts, Part
        <3>4. Script(a \o b \o d \o Transact(all))
            BY <1>9, <3>3, TransactScript DEF Lone
        <3> QED BY <3>2, <3>4 DEF all
    <2>2. CASE S # {}
        <3> DEFINE all == Insert(p, row) \o more
        <3>1. all = <<s>> \o <<l>>
            BY <1>6, <2>2
        <3>2. Len(all) = 2 /\ all[1] = s /\ all[2] = l /\ \A i \in 1..2 : i = 1 \/ i = 2
            BY <3>1, Pair
        <3>3. Proper(s) /\ Calm(s) /\ Moves(s) = {} /\ ~AddsLinks(s)
            BY <1>1, <1>4, <1>7 DEF Proper, Calm, Moves, Brings, AddsLinks
        <3>4. Proper(l) /\ Calm(l) /\ Moves(l) = {}
            <4>1. l.links \subseteq LinkType
                BY <1>5 DEF LinkType
            <4>2. \A w \in Warehouse : \A x : <<w, x>> \notin l.links
                BY <1>1, <1>5
            <4> QED BY <1>5, <4>1, <4>2 DEF Proper, Calm, Moves, Brings
        <3> HIDE DEF all
        <3>5. \A i \in 1..Len(all) :
                 /\ Proper(all[i]) /\ Calm(all[i]) /\ Moves(all[i]) = {}
                 /\ AddsLinks(all[i]) => all[i].links = {p} \X S
            BY <1>5, <3>2, <3>3, <3>4
        <3>6. all[1].of = p /\ all[1].do = "insert" /\ c = all[1].row.customer
            BY <1>2, <1>4, <3>2
        <3>7. Holds(a \o b \o d, [do |-> "allOf", of |-> S, as |-> c])
            BY <1>9, <2>2 DEF k
        <3>8. Len(all) \in 2..3
            BY <3>2
        <3>9. Script(a \o b \o d \o Transact(all))
            BY <1>9, <3>5, <3>6, <3>7, <3>8, SupplyScript
        <3> QED BY <3>9 DEF all
    <2> QED BY <2>1, <2>2
<1> QED BY <1>10, BeginKeeps DEF CreateProduct, row, a, b, d, more

LEMMA UpdateProductKeeps ==
    ASSUME IInv, NEW r \in Req, NEW p \in Present(Product), NEW S \in SUBSET Supplier,
           NEW given \in BOOLEAN, NEW base \in Uom \cup {None}, NEW on \in Activity,
           UpdateProduct(r, p, given, S, base, on)
    PROVE  IInv'
<1> DEFINE fields == With(on, Given("base", base))
           s == [do |-> "change", of |-> p, fields |-> fields]
           o == [do |-> "off", of |-> p, others |-> Supplier]
           l == [do |-> "upsert", links |-> {p} \X S]
           k == [do |-> "allOf", of |-> S, as |-> p]
           a == AllowedCustomerOf(p) \o Exists(p)
           b == When(given /\ S # {}, SuppliersOf(S, p))
           d == When(base # None, Active(base))
           more == When(given, SwitchOff(p, Supplier) \o Upsert({p} \X S))
<1>1. p \in Product /\ There(db.rows[p])
    BY DEF Present, Row
<1>2. p \in Id \ PlatformUser /\ p \notin Customer \cup Warehouse \cup Area \cup Zone \cup Bin
                                          \cup Supplier \cup User \cup Transaction
    BY <1>1, Apart, Ids
<1>3. Fit(fields) /\ DOMAIN fields \subseteq {"active", "base"}
    BY Parents, FitUpdate
<1>4. Checks(a) /\ Checks(b) /\ Checks(d) /\ (given /\ S # {} => Holds(b, k))
    BY Lookups, Asked, ChecksWhen, ChecksJoin, HoldsOne DEF SuppliersOf, AllOf, When
<1>5. /\ s.do = "change" /\ s.of = p /\ s.fields = fields
      /\ o.do = "off" /\ l.do = "upsert" /\ l.links = {p} \X S
    OBVIOUS
<1>6. /\ Change(p, fields) = <<s>>
      /\ given => more = <<o>> \o <<l>>
      /\ ~given => more = <<>>
    BY DEF Change, When, SwitchOff, Upsert
<1> HIDE DEF fields, s, o, l, k, a, b, d, more
<1>7. Checks(a \o b) /\ (given /\ S # {} => Holds(a \o b, k))
    BY <1>4, ChecksJoin, HoldsJoin DEF Checks
<1>8. Checks(a \o b \o d) /\ (given /\ S # {} => Holds(a \o b \o d, k))
    BY <1>4, <1>7, ChecksJoin, HoldsJoin DEF Checks
<1>9. Script(a \o b \o d \o Transact(Change(p, fields) \o more))
    <2>1. CASE ~given
        <3> DEFINE all == Change(p, fields)
        <3>1. Parts(all, 1, 1)
            BY <1>2, <1>3, RowParts DEF Ups
        <3>2. all \o more = all
            BY <1>6, <2>1, <3>1, JoinEmpty DEF Parts
        <3> HIDE DEF all
        <3>3. Parts(all, 1, 3) /\ \A i \in DOMAIN all : Lone(all[i])
            BY <3>1 DEF Parts, Part
        <3>4. Script(a \o b \o d \o Transact(all))
            BY <1>8, <3>3, TransactScript DEF Lone
        <3> QED BY <3>2, <3>4 DEF all
    <2>2. CASE given
        <3> DEFINE all == Change(p, fields) \o more
        <3>1. all = <<s>> \o (<<o>> \o <<l>>)
            BY <1>6, <2>2
        <3>2. /\ Len(all) = 3 /\ all[1] = s /\ all[2] = o /\ all[3] = l
              /\ \A i \in 1..3 : i = 1 \/ i = 2 \/ i = 3
            BY <3>1, Triple
        <3>3. Proper(s) /\ Calm(s) /\ Moves(s) = {} /\ ~AddsLinks(s)
            <4>1. "customer" \notin DOMAIN fields /\ DOMAIN fields \cap Ups = {}
                BY <1>3 DEF Ups
            <4> QED BY <1>2, <1>3, <1>5, <4>1 DEF Proper, Calm, Moves, Brings, AddsLinks
        <3>4. Proper(o) /\ Calm(o) /\ Moves(o) = {} /\ ~AddsLinks(o)
            BY <1>5 DEF Proper, Calm, Moves, Brings, AddsLinks
        <3>5. Proper(l) /\ Calm(l) /\ Moves(l) = {}
            <4>1. l.links \subseteq LinkType
                BY <1>1, <1>5 DEF LinkType
            <4>2. \A w \in Warehouse : \A x : <<w, x>> \notin l.links
                BY <1>2, <1>5
            <4> QED BY <1>5, <4>1, <4>2 DEF Proper, Calm, Moves, Brings
        <3> HIDE DEF all
        <3>6. \A i \in 1..Len(all) :
                 /\ Proper(all[i]) /\ Calm(all[i]) /\ Moves(all[i]) = {}
                 /\ AddsLinks(all[i]) => all[i].links = {p} \X S
            BY <1>5, <3>2, <3>3, <3>4, <3>5
        <3>7. all[1].of = p /\ all[1].do = "change" /\ db.rows[p] # Absent
            BY <1>1, <1>5, <3>2, Values
        <3>8. S # {} => Holds(a \o b \o d, [do |-> "allOf", of |-> S, as |-> p])
            BY <1>8, <2>2 DEF k
        <3>9. Len(all) \in 2..3
            BY <3>2
        <3>10. Script(a \o b \o d \o Transact(all))
            BY <1>1, <1>8, <3>6, <3>7, <3>8, <3>9, SupplyScript
        <3> QED BY <3>10 DEF all
    <2> QED BY <2>1, <2>2
<1> QED BY <1>9, BeginKeeps DEF UpdateProduct, fields, a, b, d, more

LEMMA CatalogueKeeps ==
    ASSUME IInv, NEW r \in Req, CatalogueRequest(r)
    PROVE  IInv'
<1>1. \A S : Present(S) \subseteq S /\ Fresh(S) \subseteq S
    BY DEF Present, Fresh
<1>2. CASE \/ \E u \in Fresh(Uom) : CreateUom(r, u)
           \/ \E u \in Present(Uom) :
                 \/ \E on \in Activity : UpdateUom(r, u, on)
                 \/ \E hard \in BOOLEAN : DeleteUom(r, u, hard)
    BY <1>1, <1>2, UomKeeps
<1>3. CASE \E p \in Fresh(Product), c \in Present(Customer), S \in SUBSET Present(Supplier),
              base \in Present(Uom) \cup {None} : CreateProduct(r, p, c, S, base)
    <2>1. \A S \in SUBSET Present(Supplier) : S \in SUBSET Supplier
        BY <1>1
    <2> QED BY <1>1, <1>3, <2>1, CreateProductKeeps
<1>4. CASE \E p \in Present(Product), S \in SUBSET Present(Supplier), given \in BOOLEAN,
              base \in Present(Uom) \cup {None}, on \in Activity :
              UpdateProduct(r, p, given, S, base, on)
    <2>1. \A S \in SUBSET Present(Supplier) : S \in SUBSET Supplier
        BY <1>1
    <2> QED BY <1>1, <1>4, <2>1, UpdateProductKeeps
<1>5. CASE \E p \in Present(Product), hard \in BOOLEAN : DeleteProduct(r, p, hard)
    <2>1. PICK p \in Present(Product), hard \in BOOLEAN : DeleteProduct(r, p, hard)
        BY <1>5
    <2>2. p \in Id \ PlatformUser
        BY <1>1, Apart, Ids
    <2>3. Script(AllowedCustomerOf(p) \o Exists(p) \o Delete(p, hard))
        BY <2>2, Lookups, Asked, ChecksJoin, DeleteScript
    <2> QED BY <2>1, <2>3, BeginKeeps DEF DeleteProduct
<1>6. CASE \/ \E s \in Fresh(Supplier), c \in Present(Customer) : CreateSupplier(r, s, c)
           \/ \E s \in Present(Supplier) :
                 \/ \E on \in Activity : UpdateSupplier(r, s, on)
                 \/ \E hard \in BOOLEAN : DeleteSupplier(r, s, hard)
    BY <1>1, <1>6, SupplierKeeps
<1>7. CASE \E v \in Fresh(Conversion), p \in Present(Product), from, to \in Present(Uom),
              on \in BOOLEAN : CreateProductUomConversion(r, v, p, from, to, on)
    BY <1>1, <1>7, ConversionKeeps
<1>8. CASE \E v \in Present(Conversion) :
              \/ \E from, to \in Present(Uom) \cup {None}, on \in Activity :
                    UpdateProductUomConversion(r, v, from, to, on)
              \/ \E hard \in BOOLEAN : DeleteProductUomConversion(r, v, hard)
    BY <1>1, <1>8, ConversionKeeps
<1> QED BY <1>2, <1>3, <1>4, <1>5, <1>6, <1>7, <1>8 DEF CatalogueRequest

-----------------------------------------------------------------------------
(* The state at first.                                                     *)
LEMMA FirstIs ==
    ASSUME NEW S
    PROVE  FirstOf(S) \in S \cup {None} /\ (S # {} => FirstOf(S) \in S)
BY DEF FirstOf

(* The rows at first.                                                      *)
Stays(x) ==
    \/ x \in Seeded
    \/ x \notin Company \cup PlatformUser /\ \A t \in focus : x \notin t
Seed(x) ==
    CASE x \in Customer \cup Company \cup Uom \cup Role -> [active |-> TRUE]
      [] x \in PlatformUser -> [active |-> TRUE, role |-> "SUPER_ADMIN"]
      [] x \in User -> [active |-> TRUE, operator |-> FirstOf(Company)]
      [] x \in Warehouse ->
            [active |-> TRUE, type |-> "SHARED", customer |-> None,
             owner |-> FirstOf(Company), operator |-> None]
      [] x \in Product /\ Customer \notin focus ->
            [active |-> TRUE, customer |-> FirstOf(Customer), base |-> None]
      [] OTHER -> Absent

LEMMA SeedIs ==
    ASSUME NEW x \in Id
    PROVE  /\ x \in Customer \cup Company \cup Uom \cup Role => Seed(x) = [active |-> TRUE]
           /\ x \in PlatformUser => Seed(x) = [active |-> TRUE, role |-> "SUPER_ADMIN"]
           /\ x \in User => Seed(x) = [active |-> TRUE, operator |-> FirstOf(Company)]
           /\ x \in Warehouse =>
                 Seed(x) = [active |-> TRUE, type |-> "SHARED", customer |-> None,
                            owner |-> FirstOf(Company), operator |-> None]
           /\ x \in Product => \/ Seed(x) = Absent
                               \/ /\ Customer \notin focus
                                  /\ Seed(x) = [active |-> TRUE, customer |-> FirstOf(Customer),
                                                base |-> None]
           /\ x \notin Customer \cup Company \cup Uom \cup Role \cup PlatformUser \cup User
                          \cup Warehouse \cup Product => Seed(x) = Absent
<1> DEFINE a == [active |-> TRUE]
           b == [active |-> TRUE, role |-> "SUPER_ADMIN"]
           c == [active |-> TRUE, operator |-> FirstOf(Company)]
           d == [active |-> TRUE, type |-> "SHARED", customer |-> None,
                 owner |-> FirstOf(Company), operator |-> None]
           e == [active |-> TRUE, customer |-> FirstOf(Customer), base |-> None]
<1>1. Seed(x) = CASE x \in Customer \cup Company \cup Uom \cup Role -> a
                  [] x \in PlatformUser -> b
                  [] x \in User -> c
                  [] x \in Warehouse -> d
                  [] x \in Product /\ Customer \notin focus -> e
                  [] OTHER -> Absent
    BY DEF Seed
<1> HIDE DEF a, b, c, d, e
<1>2. \A i, j \in 1..17 : i # j => Tables[i] \cap Tables[j] = {}
    BY TablesApart
<1>30. x \in Customer =>
          x \notin PlatformUser \cup User \cup Warehouse \cup Product
    BY <1>2, TablesAre, Z3
<1>31. x \in Company =>
          x \notin PlatformUser \cup User \cup Warehouse \cup Product
    BY <1>2, TablesAre, Z3
<1>32. x \in Uom =>
          x \notin PlatformUser \cup User \cup Warehouse \cup Product
    BY <1>2, TablesAre, Z3
<1>33. x \in Role =>
          x \notin PlatformUser \cup User \cup Warehouse \cup Product
    BY <1>2, TablesAre, Z3
<1>3. x \in Customer \cup Company \cup Uom \cup Role => Seed(x) = a
    BY <1>1, <1>30, <1>31, <1>32, <1>33
<1>4. x \in PlatformUser =>
          x \notin Customer \cup Company \cup Uom \cup Role \cup User \cup Warehouse \cup Product
    BY <1>2, TablesAre, Z3
<1>5. x \in User =>
          x \notin Customer \cup Company \cup Uom \cup Role \cup PlatformUser \cup Warehouse
                       \cup Product
    BY <1>2, TablesAre, Z3
<1>6. x \in Warehouse =>
          x \notin Customer \cup Company \cup Uom \cup Role \cup PlatformUser \cup User \cup Product
    BY <1>2, TablesAre, Z3
<1>7. x \in Product =>
          x \notin Customer \cup Company \cup Uom \cup Role \cup PlatformUser \cup User
                       \cup Warehouse
    BY <1>2, TablesAre, Z3
<1>8. x \in PlatformUser => Seed(x) = b
    BY <1>1, <1>4
<1>9. x \in User => Seed(x) = c
    BY <1>1, <1>5
<1>10. x \in Warehouse => Seed(x) = d
    BY <1>1, <1>6
<1>11. x \in Product => Seed(x) = Absent \/ (Customer \notin focus /\ Seed(x) = e)
    BY <1>1, <1>7
<1>12. x \notin Customer \cup Company \cup Uom \cup Role \cup PlatformUser \cup User
                    \cup Warehouse \cup Product => Seed(x) = Absent
    BY <1>1
<1> QED BY <1>3, <1>8, <1>9, <1>10, <1>11, <1>12 DEF a, b, c, d, e

LEMMA SeedHeld ==
    ASSUME NEW x \in Id, Seed(x) # Absent
    PROVE  /\ Held(x, Seed(x)) /\ There(Seed(x))
           /\ x \notin Zone \cup Bin
           /\ \A f \in Fields(Seed(x)) :
                 \/ Seed(x)[f] = None
                 \/ Company # {} /\ Seed(x)[f] = FirstOf(Company)
                 \/ /\ Customer \notin focus /\ Customer # {}
                    /\ Seed(x)[f] = FirstOf(Customer)
<1> DEFINE row == Seed(x)
           fine(f) == \/ row[f] = None
                      \/ Company # {} /\ row[f] = FirstOf(Company)
                      \/ Customer \notin focus /\ Customer # {} /\ row[f] = FirstOf(Customer)
<1>1. /\ FirstOf(Company) \in Company \cup {None} /\ (Company = {} => FirstOf(Company) = None)
      /\ FirstOf(Customer) \in Customer \cup {None} /\ (Customer = {} => FirstOf(Customer) = None)
    BY FirstIs DEF FirstOf
<1>2. CASE x \in Customer \cup Company \cup Uom \cup Role
    <2>1. row = [active |-> TRUE]
        BY <1>2, SeedIs
    <2>2. DOMAIN row = {"active"} /\ row["active"] = TRUE
        BY <2>1
    <2>3. x \notin Warehouse \cup Area \cup Zone \cup Bin \cup Product \cup Supplier
                    \cup Transaction
        BY <1>2, Apart
    <2> HIDE DEF row
    <2>4. Fit(row) /\ Fields(row) = {}
        BY <2>2, Parents DEF Fit, Fields
    <2>5. Held(x, row)
        BY <2>2, <2>3, <2>4, HeldIs
    <2> QED BY <2>2, <2>3, <2>4, <2>5 DEF row, There
<1>3. CASE x \in PlatformUser
    <2>1. row = [active |-> TRUE, role |-> "SUPER_ADMIN"]
        BY <1>3, SeedIs
    <2>2. DOMAIN row = {"active", "role"} /\ row["active"] = TRUE
        BY <2>1
    <2>3. x \notin Warehouse \cup Area \cup Zone \cup Bin \cup Product \cup Supplier
                    \cup Transaction
        BY <1>3, Apart
    <2> HIDE DEF row
    <2>4. Fit(row) /\ Fields(row) = {}
        BY <2>2, Parents DEF Fit, Fields
    <2>5. Held(x, row)
        BY <2>2, <2>3, <2>4, HeldIs
    <2> QED BY <2>2, <2>3, <2>4, <2>5 DEF row, There
<1>4. CASE x \in User
    <2>1. row = [active |-> TRUE, operator |-> FirstOf(Company)]
        BY <1>4, SeedIs
    <2>2. /\ DOMAIN row = {"active", "operator"} /\ row["active"] = TRUE
          /\ row["operator"] = FirstOf(Company)
        BY <2>1
    <2>3. x \notin Warehouse \cup Area \cup Zone \cup Bin \cup Product \cup Supplier
                    \cup Transaction
        BY <1>4, Apart
    <2> HIDE DEF row
    <2>4. Fit(row) /\ Fields(row) = {"operator"}
        BY <1>1, <2>2, Parents DEF Fit, Fields
    <2>5. Held(x, row)
        BY <2>2, <2>3, <2>4, HeldIs
    <2>6. fine("operator")
        BY <1>1, <2>2
    <2> QED BY <2>2, <2>3, <2>4, <2>5, <2>6 DEF row, There
<1>5. CASE x \in Warehouse
    <2>1. row = [active |-> TRUE, type |-> "SHARED", customer |-> None,
                 owner |-> FirstOf(Company), operator |-> None]
        BY <1>5, SeedIs
    <2>2. /\ DOMAIN row = {"active", "type", "customer", "owner", "operator"}
          /\ row["active"] = TRUE /\ row["customer"] = None /\ row["owner"] = FirstOf(Company)
          /\ row["operator"] = None
        BY <2>1
    <2>3. x \notin Area \cup Zone \cup Bin \cup Transaction
        BY <1>5, Apart
    <2> HIDE DEF row
    <2>4. Fit(row) /\ Fields(row) = {"customer", "owner", "operator"}
        BY <1>1, <2>2, Parents DEF Fit, Fields
    <2>5. Held(x, row)
        BY <2>2, <2>3, <2>4, HeldIs
    <2>6. fine("customer") /\ fine("owner") /\ fine("operator")
        BY <1>1, <2>2
    <2> QED BY <2>2, <2>3, <2>4, <2>5, <2>6 DEF row, There
<1>6. CASE x \in Product
    <2>1. Customer \notin focus
          /\ row = [active |-> TRUE, customer |-> FirstOf(Customer), base |-> None]
        BY <1>6, SeedIs
    <2>2. /\ DOMAIN row = {"active", "customer", "base"} /\ row["active"] = TRUE
          /\ row["customer"] = FirstOf(Customer) /\ row["base"] = None
        BY <2>1
    <2>3. x \notin Area \cup Zone \cup Bin \cup Transaction
        BY <1>6, Apart
    <2> HIDE DEF row
    <2>4. Fit(row) /\ Fields(row) = {"customer", "base"}
        BY <1>1, <2>2, Parents DEF Fit, Fields
    <2>5. Held(x, row)
        BY <2>2, <2>3, <2>4, HeldIs
    <2>6. fine("customer") /\ fine("base")
        BY <1>1, <2>1, <2>2
    <2> QED BY <2>2, <2>3, <2>4, <2>5, <2>6 DEF row, There
<1> QED BY <1>2, <1>3, <1>4, <1>5, <1>6, SeedIs

(* The links at first: every user that is there with the first warehouse.  *)
Scoped == {l \in User \X Warehouse : Stays(l[1]) /\ l[2] = FirstOf(Warehouse)}

LEMMA StaysIs ==
    ASSUME Init
    PROVE  /\ \A x \in Customer : Customer \notin focus => Stays(x)
           /\ \A x \in User \cup Warehouse : Stays(x) => There(Seed(x))
           /\ Company # {} => Stays(FirstOf(Company)) /\ There(Seed(FirstOf(Company)))
           /\ \A x \in Customer : There(Seed(x))
           /\ Warehouse # {} => Stays(FirstOf(Warehouse))
<1>1. focus \in Focus
    BY DEF Init
<1>2. \A t \in focus : \E i \in 1..17 : t = Tables[i]
    BY <1>1, RecordsAssumption DEF Tables
<1>3. \A i \in 1..17 : i # 1 => Tables[i] \cap Customer = {}
    BY TablesApart, TablesAre
<1>4. ASSUME NEW x \in Customer, Customer \notin focus PROVE Stays(x)
    <2>1. \A t \in focus : x \notin t
        BY <1>2, <1>3, <1>4, TablesAre
    <2>2. x \notin Company \cup PlatformUser
        BY Apart
    <2> QED BY <2>1, <2>2 DEF Stays
<1>5. \A x : Seed(x) # Absent /\ x \in Id => There(Seed(x))
    BY SeedHeld
<1>6. ASSUME NEW x \in Customer \cup Company \cup User \cup Warehouse PROVE There(Seed(x))
    <2>1. x \in Id
        BY DEF Id
    <2>2. \/ Seed(x) = [active |-> TRUE]
          \/ Seed(x) = [active |-> TRUE, operator |-> FirstOf(Company)]
          \/ Seed(x) = [active |-> TRUE, type |-> "SHARED", customer |-> None,
                        owner |-> FirstOf(Company), operator |-> None]
        BY <2>1, SeedIs
    <2> DEFINE row == Seed(x)
    <2>3. \/ row = [active |-> TRUE]
          \/ row = [active |-> TRUE, operator |-> FirstOf(Company)]
          \/ row = [active |-> TRUE, type |-> "SHARED", customer |-> None,
                    owner |-> FirstOf(Company), operator |-> None]
        BY <2>2
    <2> HIDE DEF row
    <2>4. row.active = TRUE
        BY <2>3
    <2>5. row # Absent
        BY <2>4, Values DEF There
    <2> QED BY <2>1, <2>5, SeedHeld DEF row
<1>7. Company # {} => FirstOf(Company) \in Company
    BY FirstIs
<1> QED BY <1>4, <1>6, <1>7 DEF Stays, Seeded

LEMMA InitTyped ==
    ASSUME Init
    PROVE  Typed(db) /\ Valid(db)
<1> DEFINE first == [x \in Id |-> IF Stays(x) THEN Seed(x) ELSE Absent]
<1>1. db = [rows |-> first, links |-> Scoped, on |-> Scoped]
    BY Zenon DEF Init, Stays, Seed, Scoped
<1>2. /\ db.rows = first /\ db.links = Scoped /\ db.on = Scoped
      /\ db = [rows |-> db.rows, links |-> db.links, on |-> db.on]
    BY <1>1
<1>3. \A x \in Id : db.rows[x] = IF Stays(x) THEN Seed(x) ELSE Absent
    BY <1>2
<1>4. Shaped(db)
    <2>1. db.rows = [x \in Id |-> db.rows[x]]
        BY <1>2
    <2> QED BY <1>2, <2>1 DEF Shaped
<1>5. ASSUME NEW x \in Id
      PROVE  db.rows[x] = Absent \/ Held(x, db.rows[x])
    BY <1>3, SeedHeld
<1>6. Scoped \subseteq LinkType
    BY DEF Scoped, LinkType
<1>7. Typed(db)
    BY <1>2, <1>4, <1>5, <1>6 DEF Typed
<1>8. ASSUME NEW x \in Id, NEW f \in Fields(db.rows[x]), db.rows[x][f] # None
      PROVE  There(db.rows[db.rows[x][f]])
    <2>1. db.rows[x] # Absent
        BY <1>8, Values DEF Fields, Target
    <2>2. db.rows[x] = Seed(x) /\ Seed(x) # Absent
        BY <1>3, <2>1
    <2>3. \/ Company # {} /\ db.rows[x][f] = FirstOf(Company)
          \/ Customer \notin focus /\ Customer # {} /\ db.rows[x][f] = FirstOf(Customer)
        BY <1>8, <2>2, SeedHeld
    <2>4. CASE Company # {} /\ db.rows[x][f] = FirstOf(Company)
        <3>1. FirstOf(Company) \in Id
            BY <2>4, FirstIs DEF Id
        <3> QED BY <1>3, <2>4, <3>1, StaysIs
    <2>5. CASE Customer \notin focus /\ Customer # {} /\ db.rows[x][f] = FirstOf(Customer)
        <3>1. FirstOf(Customer) \in Customer /\ FirstOf(Customer) \in Id
            BY <2>5, FirstIs DEF Id
        <3> QED BY <1>3, <2>5, <3>1, StaysIs
    <2> QED BY <2>3, <2>4, <2>5
<1>9. ASSUME NEW l \in db.links, NEW i \in DOMAIN l
      PROVE  There(db.rows[l[i]])
    <2>1. l \in User \X Warehouse /\ Stays(l[1]) /\ l[2] = FirstOf(Warehouse)
        BY <1>2, <1>9 DEF Scoped
    <2>2. l[1] \in User /\ l[2] \in Warehouse /\ DOMAIN l = {1, 2} /\ Warehouse # {}
        BY <2>1
    <2>3. l[1] \in Id /\ l[2] \in Id
        BY <2>2 DEF Id
    <2>4. Stays(l[2])
        BY <2>1, <2>2, StaysIs
    <2>5. There(db.rows[l[1]]) /\ There(db.rows[l[2]])
        BY <1>3, <2>1, <2>2, <2>3, <2>4, StaysIs
    <2> QED BY <1>9, <2>2, <2>5
<1> QED BY <1>7, <1>8, <1>9 DEF Valid

(* The invariant holds at first, and every step keeps it.                  *)
LEMMA InitHolds == Init => IInv
<1> SUFFICES ASSUME Init PROVE IInv
    OBVIOUS
<1>1. focus \in Focus /\ left \in 0..MaxRequests /\ moved \subseteq Id
    BY RecordsAssumption DEF Init
<1>2. Typed(db) /\ Valid(db)
    BY InitTyped
<1>3. db.links = Scoped
    BY Zenon DEF Init, Scoped, Stays
<1>4. PlacedTogetherUnlessMoved
    <2> SUFFICES ASSUME NEW x \in Zone \cup Bin, There(db.rows[x]) PROVE FALSE
        BY DEF PlacedTogetherUnlessMoved, Row
    <2>1. x \in Id
        BY DEF Id
    <2>2. db.rows[x] = IF Stays(x) THEN Seed(x) ELSE Absent
        BY <2>1, Zenon DEF Init, Stays, Seed
    <2>3. Seed(x) # Absent
        BY <2>2, Values
    <2> QED BY <2>1, <2>3, SeedHeld
<1>5. SuppliersAreOwn
    <2> SUFFICES ASSUME NEW p \in Product, NEW v \in Supplier, <<p, v>> \in db.links PROVE FALSE
        BY DEF SuppliersAreOwn
    <2>1. v \in Warehouse
        BY <1>3 DEF Scoped
    <2> QED BY <2>1, Apart
<1>6. req = [r \in Req |-> Idle]
    BY DEF Init
<1>7. req = [r \in Req |-> req[r]] /\ \A r \in Req : req[r] = Idle
    BY <1>6
<1> QED BY <1>1, <1>2, <1>4, <1>5, <1>7 DEF IInv

LEMMA NextKeeps == IInv /\ [Next]_vars => IInv'
<1> SUFFICES ASSUME IInv, [Next]_vars PROVE IInv'
    OBVIOUS
<1>1. CASE UNCHANGED vars
    BY <1>1 DEF vars, IInv, PlacedTogetherUnlessMoved, PlaceInParent, SuppliersAreOwn, Row
<1>2. ASSUME NEW r \in Req, PlaceRequest(r) PROVE IInv'
    BY <1>2, PlaceKeeps
<1>3. ASSUME NEW r \in Req, CatalogueRequest(r) PROVE IInv'
    BY <1>3, CatalogueKeeps
<1>4. ASSUME NEW r \in Req, AccessRequest(r) PROVE IInv'
    BY <1>4, AccessKeeps
<1>5. ASSUME NEW r \in Req, BillingRequest(r) PROVE IInv'
    BY <1>5, BillingKeeps
<1>6. ASSUME NEW r \in Req, Step(r) \/ Sum(r) \/ Answer(r) PROVE IInv'
    BY <1>6, StepKeeps
<1> QED BY <1>1, <1>2, <1>3, <1>4, <1>5, <1>6 DEF Next

-----------------------------------------------------------------------------
(* The inductive invariant holds: every reference points to a row that is  *)
(* there and of the right table, and each request in flight either still   *)
(* has the check that guards its write before it, or what that check found *)
(* is still so.                                                            *)
THEOREM Invariant == Spec => []IInv
<1>1. Init => IInv
    BY InitHolds
<1>2. IInv /\ [Next]_vars => IInv'
    BY NextKeeps
<1> QED BY <1>1, <1>2, PTL DEF Spec

LEMMA TypeHolds == IInv => TypeOK
<1> SUFFICES ASSUME IInv PROVE TypeOK
    OBVIOUS
<1>1. focus \in Focus /\ left \in 0..MaxRequests /\ moved \subseteq Id /\ Typed(db) /\ Valid(db)
    BY DEF IInv
<1>2. db.on \subseteq db.links /\ db.links \subseteq LinkType
    BY <1>1 DEF Typed
<1>3. ASSUME NEW x \in Id PROVE db.rows[x] \in {Absent, Gone} \/ There(db.rows[x])
    BY <1>1, Values DEF Typed
<1>4. ASSUME NEW x \in Id, NEW f \in Fields(db.rows[x]), db.rows[x][f] # None
      PROVE  db.rows[x][f] \in Target[f] /\ There(db.rows[db.rows[x][f]])
    <2>1. db.rows[x] \notin {Absent, Gone}
        BY <1>4, Values DEF Fields, Target
    <2>2. Fit(db.rows[x])
        BY <1>1, <2>1 DEF Typed, Held
    <2> QED BY <1>1, <1>4, <2>2 DEF Fit, Fields, Valid
<1>5. ASSUME NEW r \in Req, req[r] # Idle
      PROVE  /\ req[r].todo # <<>> /\ req[r].raced \in BOOLEAN /\ req[r].reach \subseteq Customer
             /\ Len(req[r].sums) <= 2
    <2> DEFINE q == req[r]
               n == Len(q.todo)
    <2>1. Formed(q) /\ Tallied(db, q)
        BY <1>5 DEF IInv, ReqInv
    <2>2. n \in Nat \ {0} /\ q.raced \in BOOLEAN /\ q.reach \subseteq Customer
        BY <2>1 DEF Formed
    <2>3. q.todo # <<>>
        BY <2>2
    <2>4. /\ q.todo[n].do # "answer" => Len(q.sums) = 0
          /\ q.todo[n].do = "answer" => Len(q.sums) = IF n >= 3 THEN 0 ELSE 3 - n
        BY <2>1 DEF Tallied
    <2> HIDE DEF n
    <2>5. Len(q.sums) <= 2
        BY <2>2, <2>4
    <2> QED BY <2>2, <2>3, <2>5
<1> QED BY <1>1, <1>2, <1>3, <1>4, <1>5 DEF TypeOK

(* Whatever requests overlap, fail half way or run their statements in any *)
(* order, no reference ever dangles or names a row of another table, and   *)
(* no link is switched on that is not there.                               *)
THEOREM TypeCorrect == Spec => []TypeOK
BY Invariant, TypeHolds, PTL

(* A zone lies in the warehouse of its area and a bin in that of its zone, *)
(* unless one of the two was moved by an update: overlapping requests      *)
(* cannot break what createZone and createBin check.                       *)
THEOREM PlacesAgree == Spec => []PlacedTogetherUnlessMoved
<1>1. IInv => PlacedTogetherUnlessMoved
    BY DEF IInv
<1> QED BY <1>1, Invariant, PTL

(* A product is only ever linked to suppliers of its own customer: what    *)
(* assertSuppliersForCustomer found cannot have changed when the           *)
(* transaction writes, as neither product nor supplier ever changes its    *)
(* customer.                                                               *)
THEOREM SuppliersOwned == Spec => []SuppliersAreOwn
<1>1. IInv => SuppliersAreOwn
    BY DEF IInv
<1> QED BY <1>1, Invariant, PTL

LEMMA SumsAgree == IInv => SummaryIsWholeUnlessRaced
<1> SUFFICES ASSUME IInv, NEW r \in Req, req[r] # Idle, ~req[r].raced,
                    Head(req[r].todo).do = "answer",
                    NEW i \in DOMAIN req[r].sums
             PROVE  req[r].sums[i] =
                        Cardinality({t \in Transaction :
                                        Live(t, Head(req[r].todo).of, req[r].scope)})
    BY DEF SummaryIsWholeUnlessRaced
<1> DEFINE q == req[r]
           n == Len(q.todo)
           c == Head(q.todo).of
<1>1. ReqInv(focus, db, moved, q)
    BY DEF IInv
<1>2. Head(q.todo) = q.todo[1] /\ 1 \in 1..n /\ Tallied(db, q) /\ IsSeq(q.sums)
    BY <1>1, HeadIs DEF ReqInv, Tallied
<1>3. n = 1
    BY <1>2 DEF Tallied
<1>4. \A j \in 1..Len(q.sums) : q.sums[j] = Count(db, c, q.scope)
    BY <1>2, <1>3 DEF Tallied
<1>5. DOMAIN q.sums = 1..Len(q.sums)
    BY <1>2 DEF IsSeq
<1>6. \A t \in Transaction : Live(t, c, q.scope) <=> LiveIn(db, t, c, q.scope)
    BY DEF Live, LiveIn, Row
<1> QED BY <1>4, <1>5, <1>6 DEF Count

(* The two sums of a billing summary both count every live transaction,    *)
(* however its month is spelled, unless a write came in between.           *)
THEOREM SummariesAreWhole == Spec => []SummaryIsWholeUnlessRaced
BY Invariant, SumsAgree, PTL

LEMMA ReachStep ==
    ASSUME IInv, NEW r \in Req, Write(r) \/ WriteOne(r), req[r].scope # None, ~req[r].raced
    PROVE  ReachOf(db', req[r].scope.warehouses) \subseteq req[r].reach
<1> DEFINE h == Head(req[r].todo)
           q == req[r]
<1>1. req[r] # Idle
    BY DEF Write, WriteOne
<1>2. ReqInv(focus, db, moved, q)
    BY <1>1 DEF IInv
<1>3. StepOK(h) /\ ReachOf(db, q.scope.warehouses) \subseteq q.reach
    BY <1>2, HeadIs
<1>4. CASE Write(r)
    <2>1. IsStatement(h) /\ After(h) # Refused /\ db' = After(h)
        BY <1>4 DEF Write, Commit
    <2>2. Sound(h)
        BY <1>3, <2>1, HeadSound
    <2> QED BY <1>1, <2>1, <2>2, WriteReach
<1>5. CASE WriteOne(r)
    <2>1. h.do = "batch"
        BY <1>5 DEF WriteOne
    <2>2. PICK s \in h.any : (After(s) # Refused /\ db' = After(s)) \/ UNCHANGED db
        BY <1>5 DEF WriteOne, Commit
    <2>3. Sound(s) /\ Brings(s) = {}
        BY <1>3, <2>1, PartSound
    <2>4. CASE After(s) # Refused /\ db' = After(s)
        BY <1>1, <2>3, <2>4, WriteReach
    <2>5. CASE UNCHANGED db
        BY <1>3, <2>5
    <2> QED BY <2>2, <2>4, <2>5
<1> QED BY <1>4, <1>5

(* No user widens the set of customers its warehouses reach, unless        *)
(* another request wrote in between.                                       *)
THEOREM ReachNeverGrows == Spec => ReachNeverGrowsUnlessRaced
<1>1. IInv /\ [Next]_vars =>
          [\A r \in Req :
             (Write(r) \/ WriteOne(r)) /\ req[r].scope # None /\ ~req[r].raced =>
                 LET S == req[r].scope.warehouses
                 IN  {c \in Customer : \E w \in S :
                         (There(db'.rows[w]) /\ db'.rows[w].customer = c) \/ <<w, c>> \in db'.on}
                     \subseteq req[r].reach]_vars
    BY ReachStep DEF ReachOf
<1> QED BY <1>1, Invariant, PTL DEF Spec, ReachNeverGrowsUnlessRaced

LEMMA AccountStep ==
    ASSUME IInv, NEW r \in Req, req[r] # Idle, ~req[r].raced, Write(r),
           NEW v \in PlatformUser, IsActive(v)
    PROVE  \E u \in PlatformUser : db'.rows[u].active = TRUE
<1> DEFINE s == Head(req[r].todo)
<1>1. Typed(db) /\ ReqInv(focus, db, moved, req[r])
    BY DEF IInv
<1>2. StepOK(s) /\ (Account(s) => Spared(db, s))
    BY <1>1, HeadIs
<1>3. IsStatement(s) /\ After(s) # Refused /\ db' = After(s)
    BY DEF Write, Commit
<1>4. Sound(s)
    BY <1>2, <1>3, HeadSound
<1>5. db.rows[v].active = TRUE
    BY DEF IsActive, Row
<1> HIDE DEF s
<1>6. CASE Proper(s) /\ Lone(s)
    <2>1. s.do # "tx"
        BY <1>6 DEF Proper
    <2>2. After(s) = One(db, s)
        BY <1>3, <2>1 DEF After
    <2>4. db' = Ran(db, s) /\ Ran(db, s) # Refused
        BY <1>3, <2>2 DEF One
    <2>5. CASE Account(s)
        <3>1. PICK u \in PlatformUser :
                  /\ db.rows[u].active = TRUE
                  /\ s.of = u => "active" \in DOMAIN s.fields /\ s.fields["active"] = TRUE
            BY <1>2, <2>5 DEF Spared
        <3>2. CASE s.of # u
            BY <1>1, <1>6, <2>4, <3>1, <3>2, RanAccounts
        <3>3. CASE s.of = u
            <4>1. u \in Id /\ Shaped(db) /\ s.do = "change"
                BY <1>1, <2>5 DEF Id, Typed, Account
            <4>2. db'.rows[u] = With(db.rows[u], s.fields)
                BY <2>4, <3>3, <4>1, RanChange
            <4>3. db'.rows[u]["active"] = TRUE
                BY <3>1, <3>3, <4>2 DEF With
            <4> QED BY <4>3
        <3> QED BY <3>2, <3>3
    <2>6. CASE ~Account(s)
        <3>1. ~(s.do = "change" /\ s.of = v)
            BY <2>6 DEF Account
        <3> QED BY <1>1, <1>5, <1>6, <2>4, <3>1, RanAccounts
    <2> QED BY <2>5, <2>6
<1>7. CASE InOne(s) /\ \A i \in 1..Len(s.all) : Calm(s.all[i])
    <2>1. s.do = "tx"
        BY <1>7 DEF InOne
    <2>2. db' = All(db, s.all) /\ All(db, s.all) # Refused
        BY <1>3, <2>1 DEF After
    <2> QED BY <1>1, <1>5, <1>7, <2>2, AllAccounts
<1> QED BY <1>4, <1>6, <1>7 DEF Sound

(* No write that was not raced takes the last active platform account.     *)
THEOREM PlatformKeepsAnAccount == Spec => PlatformKeepsAnAccountUnlessRaced
<1>1. IInv /\ [Next]_vars =>
          [\A r \in Req :
             req[r] # Idle /\ ~req[r].raced /\ Write(r) =>
                 \/ \A u \in PlatformUser : ~IsActive(u)
                 \/ \E u \in PlatformUser : db'.rows[u].active = TRUE]_vars
    BY AccountStep
<1> QED BY <1>1, Invariant, PTL DEF Spec, PlatformKeepsAnAccountUnlessRaced
=============================================================================
