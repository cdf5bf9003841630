-------------------------- MODULE CashAndBankProofs --------------------------
(***************************************************************************)
(* Proofs about CashAndBank, for any number of accounts, expenses,         *)
(* payments and entries and any amounts: the balance of every account is   *)
(* its opening balance and its transactions, and every expense and payment *)
(* is on the books once.                                                   *)
(***************************************************************************)
EXTENDS CashAndBank, UnitsProofs

USE BankAssumption

Refs == {"payment", "gateway_charge", "gateway_settlement", "expense", "transfer", "other"}
Made == Spent \cup Entries

-----------------------------------------------------------------------------
(* Facts that the induction needs.                                         *)

\* What was not entered, or received, yet has no transactions, and a payment
\* that was not received has no charge.
UnmadeHasNothing ==
    /\ \A x \in Expenses : expense[x].state = "none" => rows[x] = {}
    /\ \A p \in Payments : payment[p].state = "none" => rows[p] = {} /\ expense[p].state = "none"

\* A payment that names no account has no transaction of its own.
NotOnAccount ==
    \A p \in Payments : payment[p].account = NoAccount => \A r \in rows[p] : r.ref # "payment"

\* Transactions are on accounts that exist, and gateways settle into ones that do.
RefersToOpen ==
    /\ \A x \in Made : \A r \in rows[x] : r.account \in Open
    /\ \A g \in Gateways : config[g].into \in Open \cup {NoAccount}

\* One transaction at most among those of a set posts an expense, and one a payment,
\* which is on account a.
Sole(set) == \A r, s \in set : r.ref = s.ref /\ r.ref \in {"payment", "expense"} => r = s
OnIts(set, a) == \A r \in set : r.ref = "payment" => r.account = a

\* So what a handler finds with limit 1, to take it back, is all that there is.
PostedByOne ==
    /\ \A x \in Spent : Sole(rows[x])
    /\ \A p \in Payments : OnIts(rows[p], payment[p].account)

BooksInv == TypeOK /\ UnmadeHasNothing /\ NotOnAccount /\ RefersToOpen /\ PostedByOne

-----------------------------------------------------------------------------
(* Sets of transactions.                                                   *)

\* A withdrawal or a deposit is one transaction, or none without an account.
LEMMA OneRow ==
    ASSUME NEW ref, NEW a, NEW amount
    PROVE  /\ IsFiniteSet(Withdrawal(ref, a, amount)) /\ IsFiniteSet(DepositIn(ref, a, amount))
           /\ \A r \in Withdrawal(ref, a, amount) :
                 /\ r = [ref |-> ref, account |-> a, amount |-> -amount] /\ a # NoAccount
           /\ \A r \in DepositIn(ref, a, amount) :
                 /\ r = [ref |-> ref, account |-> a, amount |-> amount] /\ a # NoAccount
<1>1. IsFiniteSet(Withdrawal(ref, a, amount))
  BY FS_EmptySet, FS_Singleton DEF Withdrawal
<1>2. IsFiniteSet(DepositIn(ref, a, amount))
  BY FS_EmptySet, FS_Singleton DEF DepositIn
<1> QED
  BY <1>1, <1>2 DEF Withdrawal, DepositIn

\* Of an amount of money, it is well typed.
LEMMA OneRowType ==
    ASSUME NEW ref \in Refs, NEW a \in Open \cup {NoAccount}, NEW amount \in Int \ {0}
    PROVE  /\ Withdrawal(ref, a, amount) \subseteq Row /\ IsFiniteSet(Withdrawal(ref, a, amount))
           /\ DepositIn(ref, a, amount) \subseteq Row /\ IsFiniteSet(DepositIn(ref, a, amount))
           /\ \A r \in Withdrawal(ref, a, amount) : r.account \in Open /\ r.ref = ref
           /\ \A r \in DepositIn(ref, a, amount) : r.account \in Open /\ r.ref = ref
<1>1. IsFiniteSet(Withdrawal(ref, a, amount)) /\ IsFiniteSet(DepositIn(ref, a, amount))
  BY OneRow
<1>2. -amount \in Int \ {0}
  OBVIOUS
<1>3. a # NoAccount => a \in Open /\ a \in Accounts
  BY DEF Open
<1>4. ASSUME NEW r \in Withdrawal(ref, a, amount)
      PROVE  r \in Row /\ r.account \in Open /\ r.ref = ref
  <2>1. r = [ref |-> ref, account |-> a, amount |-> -amount] /\ a # NoAccount
    BY OneRow
  <2> QED
    BY <1>2, <1>3, <2>1 DEF Row, Refs
<1>5. ASSUME NEW r \in DepositIn(ref, a, amount)
      PROVE  r \in Row /\ r.account \in Open /\ r.ref = ref
  <2>1. r = [ref |-> ref, account |-> a, amount |-> amount] /\ a # NoAccount
    BY OneRow
  <2> QED
    BY <1>3, <2>1 DEF Row, Refs
<1> QED
  BY <1>1, <1>4, <1>5

\* What is charged on an amount is no more than it.
LEMMA ChargeType ==
    ASSUME TypeOK, NEW a, NEW amount \in Amounts
    PROVE  /\ ChargeOn(a, amount) \in Nat /\ ChargeOn(a, amount) <= amount
           /\ amount - ChargeOn(a, amount) \in Nat
<1>1. amount \in Nat
  OBVIOUS
<1>2. a \in Gateways => config[a].fee \in Nat
  <2> SUFFICES ASSUME a \in Gateways PROVE config[a].fee \in Nat
    OBVIOUS
  <2>1. config[a] \in Config
    BY DEF TypeOK
  <2>2. config[a].fee \in Fees \cup {0}
    BY <2>1 DEF Config
  <2>3. \A fee \in Fees \cup {0} : fee \in Nat
    OBVIOUS
  <2> QED
    BY <2>2, <2>3
<1>3. ChargeOn(a, amount) \in Nat /\ ChargeOn(a, amount) <= amount
  <2>1. CASE a \in Gateways /\ config[a].on
    <3>1. ChargeOn(a, amount) = Lesser(config[a].fee, amount)
      BY <2>1 DEF ChargeOn
    <3> QED
      BY <1>1, <1>2, <2>1, <3>1 DEF Lesser
  <2>2. CASE ~(a \in Gateways /\ config[a].on)
    <3>1. ChargeOn(a, amount) = 0
      BY <2>2 DEF ChargeOn
    <3> QED
      BY <1>1, <3>1
  <2> QED
    BY <2>1, <2>2
<1> QED
  BY <1>1, <1>3

\* The transactions of a payment that comes in.
LEMMA IncomingType ==
    ASSUME TypeOK, RefersToOpen, NEW a \in Open \cup {NoAccount}, NEW amount \in Amounts
    PROVE  /\ Incoming(a, amount) \subseteq Row /\ IsFiniteSet(Incoming(a, amount))
           /\ \A r \in Incoming(a, amount) :
                 /\ r.account \in Open
                 /\ r.ref \in {"payment", "gateway_charge", "gateway_settlement"}
           /\ a = NoAccount => Incoming(a, amount) = {}
<1> DEFINE charge == ChargeOn(a, amount)
           net == amount - charge
           into == config[a].into
           own == DepositIn("payment", a, amount)
           fee == Withdrawal("gateway_charge", a, charge)
           out == Withdrawal("gateway_settlement", a, net)
           in == DepositIn("gateway_settlement", into, net)
<1>1. charge \in Int /\ net \in Int /\ amount \in Int
  BY ChargeType
<1>2. IsFiniteSet(own \cup fee \cup out \cup in)
  BY OneRow, FS_Union
<1>3. Incoming(a, amount) \subseteq own \cup fee \cup out \cup in
  BY DEF Incoming, SomethingOf
<1>4. IsFiniteSet(Incoming(a, amount))
  BY <1>2, <1>3, FS_Subset
<1>5. ASSUME NEW r \in Incoming(a, amount)
      PROVE  /\ a # NoAccount /\ r \in Row /\ r.account \in Open
             /\ r.ref \in {"payment", "gateway_charge", "gateway_settlement"}
  <2>1. r.amount # 0
    BY DEF Incoming, SomethingOf
  <2>2. -charge \in Int /\ -net \in Int
    BY <1>1
  <2>3. r \in in => a \in Gateways
    <3> SUFFICES ASSUME a \notin Gateways PROVE r \notin in
      OBVIOUS
    <3>1. r \in own
      BY DEF Incoming, SomethingOf
    <3>2. r.ref = "payment"
      BY <3>1, OneRow
    <3>3. r \in in => r.ref = "gateway_settlement"
      BY OneRow
    <3> QED
      BY <3>2, <3>3
  <2> HIDE DEF charge, net, into
  <2>4. CASE r \in own
    <3>1. r = [ref |-> "payment", account |-> a, amount |-> amount] /\ a # NoAccount
      BY <2>4, OneRow
    <3> QED
      BY <1>1, <2>1, <3>1 DEF Row, Open
  <2>5. CASE r \in fee
    <3>1. r = [ref |-> "gateway_charge", account |-> a, amount |-> -charge] /\ a # NoAccount
      BY <2>5, OneRow
    <3> QED
      BY <2>1, <2>2, <3>1 DEF Row, Open
  <2>6. CASE r \in out
    <3>1. r = [ref |-> "gateway_settlement", account |-> a, amount |-> -net] /\ a # NoAccount
      BY <2>6, OneRow
    <3> QED
      BY <2>1, <2>2, <3>1 DEF Row, Open
  <2>7. CASE r \in in
    <3>1. r = [ref |-> "gateway_settlement", account |-> into, amount |-> net] /\ into # NoAccount
      BY <2>7, OneRow
    <3>2. a \in Gateways
      BY <2>3, <2>7
    <3>3. into \in Open
      BY <3>1, <3>2 DEF RefersToOpen, into
    <3> QED
      BY <1>1, <2>1, <3>1, <3>2, <3>3 DEF Row, Open
  <2> QED
    BY <1>3, <2>4, <2>5, <2>6, <2>7
<1> QED
  BY <1>4, <1>5

\* One of them is the payment itself, on the account it comes in on.
LEMMA IncomingSole ==
    ASSUME NEW a, NEW amount
    PROVE  /\ Sole(Incoming(a, amount)) /\ OnIts(Incoming(a, amount), a)
           /\ \A r \in Incoming(a, amount) : r.ref # "expense"
<1> DEFINE charge == ChargeOn(a, amount)
           net == amount - charge
           own == DepositIn("payment", a, amount)
           rest == Withdrawal("gateway_charge", a, charge) \cup
                   Withdrawal("gateway_settlement", a, net) \cup
                   DepositIn("gateway_settlement", config[a].into, net)
<1>1. Incoming(a, amount) \subseteq own \cup rest
  BY DEF Incoming, SomethingOf
<1>2. \A r \in own : r = [ref |-> "payment", account |-> a, amount |-> amount]
  BY OneRow
<1>3. \A r \in rest : r.ref \in {"gateway_charge", "gateway_settlement"}
  BY OneRow
<1> HIDE DEF own, rest
<1> QED
  BY <1>1, <1>2, <1>3 DEF Sole, OnIts

-----------------------------------------------------------------------------
(* What a set of transactions moves.                                       *)

\* The transactions of a set that bring something to account a, and those that
\* take something from it.
InTo(set, a)  == {x \in set : x.account = a /\ x.amount > 0}
OutOf(set, a) == {x \in set : x.account = a /\ x.amount < 0}

\* Finitely many transactions move an amount of money.
LEMMA MovedType ==
    ASSUME NEW set \in SUBSET Row, IsFiniteSet(set), NEW a
    PROVE  /\ [r \in InTo(set, a) |-> r.amount] \in [InTo(set, a) -> Nat]
           /\ [r \in OutOf(set, a) |-> -r.amount] \in [OutOf(set, a) -> Nat]
           /\ IsFiniteSet(InTo(set, a)) /\ IsFiniteSet(OutOf(set, a))
           /\ Brought(set, a) \in Nat /\ Gone(set, a) \in Nat /\ Moved(set, a) \in Int
<1> DEFINE f == [r \in InTo(set, a) |-> r.amount]
           g == [r \in OutOf(set, a) |-> -r.amount]
<1>1. f \in [InTo(set, a) -> Nat] /\ g \in [OutOf(set, a) -> Nat]
  BY DEF Row, InTo, OutOf
<1>2. IsFiniteSet(InTo(set, a)) /\ IsFiniteSet(OutOf(set, a))
  BY FS_Subset DEF InTo, OutOf
<1>3. TotalOf(f) \in Nat /\ TotalOf(g) \in Nat
  <2> HIDE DEF f, g
  <2> QED
    BY <1>1, <1>2, TotalIsNat
<1>4. Brought(set, a) = TotalOf(f) /\ Gone(set, a) = TotalOf(g)
  BY DEF Brought, Gone, InTo, OutOf
<1> HIDE DEF f, g
<1>5. Brought(set, a) \in Nat /\ Gone(set, a) \in Nat /\ Moved(set, a) \in Int
  BY <1>3, <1>4 DEF Moved
<1> QED
  BY <1>1, <1>2, <1>5 DEF f, g

\* Two sets that share no transaction move what each of them moves.
LEMMA MovedUnion ==
    ASSUME NEW S \in SUBSET Row, IsFiniteSet(S), NEW T \in SUBSET Row, IsFiniteSet(T),
           S \cap T = {}, NEW a
    PROVE  /\ Brought(S \cup T, a) = Brought(S, a) + Brought(T, a)
           /\ Gone(S \cup T, a) = Gone(S, a) + Gone(T, a)
<1>1. S \cup T \in SUBSET Row /\ IsFiniteSet(S \cup T)
  BY FS_Union
<1>2. InTo(S \cup T, a) = InTo(S, a) \cup InTo(T, a) /\ InTo(S, a) \cap InTo(T, a) = {}
  BY DEF InTo
<1>3. OutOf(S \cup T, a) = OutOf(S, a) \cup OutOf(T, a) /\ OutOf(S, a) \cap OutOf(T, a) = {}
  BY DEF OutOf
<1>4. Brought(S \cup T, a) = Brought(S, a) + Brought(T, a)
  <2> DEFINE A == InTo(S, a)
             B == InTo(T, a)
             f == [r \in A \cup B |-> r.amount]
  <2>1. f \in [A \cup B -> Nat] /\ IsFiniteSet(A) /\ IsFiniteSet(B)
    BY <1>1, <1>2, MovedType
  <2>2. [r \in A |-> f[r]] = [r \in A |-> r.amount] /\ [r \in B |-> f[r]] = [r \in B |-> r.amount]
    OBVIOUS
  <2>3. /\ Brought(S \cup T, a) = TotalOf(f)
        /\ Brought(S, a) = TotalOf([r \in A |-> r.amount])
        /\ Brought(T, a) = TotalOf([r \in B |-> r.amount])
    BY <1>2 DEF Brought, InTo
  <2> HIDE DEF A, B, f
  <2>4. TotalOf(f) = TotalOf([r \in A |-> f[r]]) + TotalOf([r \in B |-> f[r]])
    BY <1>2, <2>1, TotalDisjoint DEF A, B
  <2> QED
    BY <2>2, <2>3, <2>4
<1>5. Gone(S \cup T, a) = Gone(S, a) + Gone(T, a)
  <2> DEFINE A == OutOf(S, a)
             B == OutOf(T, a)
             f == [r \in A \cup B |-> -r.amount]
  <2>1. f \in [A \cup B -> Nat] /\ IsFiniteSet(A) /\ IsFiniteSet(B)
    BY <1>1, <1>3, MovedType
  <2>2. [r \in A |-> f[r]] = [r \in A |-> -r.amount] /\ [r \in B |-> f[r]] = [r \in B |-> -r.amount]
    OBVIOUS
  <2>3. /\ Gone(S \cup T, a) = TotalOf(f)
        /\ Gone(S, a) = TotalOf([r \in A |-> -r.amount])
        /\ Gone(T, a) = TotalOf([r \in B |-> -r.amount])
    BY <1>3 DEF Gone, OutOf
  <2> HIDE DEF A, B, f
  <2>4. TotalOf(f) = TotalOf([r \in A |-> f[r]]) + TotalOf([r \in B |-> f[r]])
    BY <1>3, <2>1, TotalDisjoint DEF A, B
  <2> QED
    BY <2>2, <2>3, <2>4
<1> QED
  BY <1>4, <1>5

\* Transactions that are not on an account move nothing on it.
LEMMA MovedElsewhere ==
    ASSUME NEW S \in SUBSET Row, NEW a, \A r \in S : r.account # a
    PROVE  Brought(S, a) = 0 /\ Gone(S, a) = 0 /\ Moved(S, a) = 0
<1> DEFINE f == [r \in InTo(S, a) |-> r.amount]
           g == [r \in OutOf(S, a) |-> -r.amount]
<1>1. InTo(S, a) = {} /\ OutOf(S, a) = {}
  BY DEF InTo, OutOf
<1>2. /\ f \in [InTo(S, a) -> Nat] /\ \A r \in InTo(S, a) : f[r] = 0
      /\ g \in [OutOf(S, a) -> Nat] /\ \A r \in OutOf(S, a) : g[r] = 0
  BY <1>1
<1>3. Brought(S, a) = TotalOf(f) /\ Gone(S, a) = TotalOf(g)
  BY DEF Brought, Gone, InTo, OutOf
<1> HIDE DEF f, g
<1>4. TotalOf(f) = 0 /\ TotalOf(g) = 0
  BY <1>2, TotalOfZeroes
<1> QED
  BY <1>3, <1>4 DEF Moved

\* Leaving out the transactions of one account changes nothing on another.
LEMMA MovedWithout ==
    ASSUME NEW S, NEW a, NEW b, a # b
    PROVE  /\ Brought({r \in S : r.account # b}, a) = Brought(S, a)
           /\ Gone({r \in S : r.account # b}, a) = Gone(S, a)
<1> DEFINE kept == {r \in S : r.account # b}
<1>1. {x \in kept : x.account = a /\ x.amount > 0} = {x \in S : x.account = a /\ x.amount > 0}
  OBVIOUS
<1>2. {x \in kept : x.account = a /\ x.amount < 0} = {x \in S : x.account = a /\ x.amount < 0}
  OBVIOUS
<1> HIDE DEF kept
<1> QED
  BY <1>1, <1>2 DEF Brought, Gone, kept

-----------------------------------------------------------------------------
(* Reposting.                                                              *)

\* A step that takes old transactions of x back and posts new ones for it.
RepostStep(x, old, new) ==
    /\ x \in Made /\ old \subseteq rows[x] /\ new \subseteq Row /\ IsFiniteSet(new)
    /\ new \cap (rows[x] \ old) = {}
    /\ \A r \in new : r.account \in Open
    /\ Repost(x, old, new)
    /\ UNCHANGED <<config, deleting>>

\* What such a step leaves, and what it moves on each account.
LEMMA RepostEffect ==
    ASSUME TypeOK, RefersToOpen, NEW x, NEW old, NEW new, RepostStep(x, old, new)
    PROVE  /\ account' \in [Accounts -> AccountRow]
           /\ rows' \in [Made -> SUBSET Row] /\ \A y \in Made : IsFiniteSet(rows'[y])
           /\ rows' = [rows EXCEPT ![x] = (rows[x] \ old) \cup new]
           /\ \A a \in Accounts :
                 /\ account'[a].state = account[a].state /\ account'[a].opening = account[a].opening
                 /\ account'[a].balance = account[a].balance - Moved(old, a) + Moved(new, a)
                 /\ Brought(rows'[x], a) = Brought(rows[x], a) - Brought(old, a) + Brought(new, a)
                 /\ Gone(rows'[x], a) = Gone(rows[x], a) - Gone(old, a) + Gone(new, a)
                 /\ Brought(rows[x], a) \in Nat /\ Gone(rows[x], a) \in Nat
                 /\ Brought(old, a) \in Nat /\ Gone(old, a) \in Nat
                 /\ Brought(new, a) \in Nat /\ Gone(new, a) \in Nat
           /\ Open' = Open
           /\ RefersToOpen'
<1> DEFINE kept == rows[x] \ old
<1>1. /\ rows[x] \in SUBSET Row /\ IsFiniteSet(rows[x]) /\ x \in Made
      /\ old \subseteq rows[x] /\ new \in SUBSET Row /\ IsFiniteSet(new)
      /\ new \cap kept = {}
  BY DEF RepostStep, TypeOK, Made
<1>2. IsFiniteSet(old) /\ old \in SUBSET Row /\ IsFiniteSet(kept) /\ kept \in SUBSET Row
  BY <1>1, FS_Subset
<1>3. kept \cup new \in SUBSET Row /\ IsFiniteSet(kept \cup new)
  BY <1>1, <1>2, FS_Union
<1>4. /\ rows' = [rows EXCEPT ![x] = kept \cup new]
      /\ account' = [a \in Accounts |->
            [account[a] EXCEPT !.balance = @ - Moved(old, a) + Moved(new, a)]]
  BY DEF RepostStep, Repost, Rebook
<1>5. ASSUME NEW a \in Accounts
      PROVE  /\ account'[a] \in AccountRow
             /\ account'[a].state = account[a].state /\ account'[a].opening = account[a].opening
             /\ account'[a].balance = account[a].balance - Moved(old, a) + Moved(new, a)
  <2>1. Moved(old, a) \in Int /\ Moved(new, a) \in Int
    BY <1>1, <1>2, MovedType
  <2>2. account[a] \in AccountRow
    BY DEF TypeOK
  <2>3. account'[a] = [account[a] EXCEPT !.balance = @ - Moved(old, a) + Moved(new, a)]
    BY <1>4
  <2> QED
    BY <2>1, <2>2, <2>3 DEF AccountRow
<1>6. account' \in [Accounts -> AccountRow]
  <2>1. \A a \in Accounts : account'[a] \in AccountRow
    BY <1>5
  <2> QED
    BY <1>4, <2>1
<1>7. rows' \in [Made -> SUBSET Row] /\ \A y \in Made : IsFiniteSet(rows'[y])
  BY <1>3, <1>4 DEF TypeOK, Made
<1>8. rows'[x] = kept \cup new
  BY <1>1, <1>4 DEF TypeOK, Made
<1>9. ASSUME NEW a \in Accounts
      PROVE  /\ Brought(rows'[x], a) = Brought(rows[x], a) - Brought(old, a) + Brought(new, a)
             /\ Gone(rows'[x], a) = Gone(rows[x], a) - Gone(old, a) + Gone(new, a)
             /\ Brought(rows[x], a) \in Nat /\ Gone(rows[x], a) \in Nat
             /\ Brought(old, a) \in Nat /\ Gone(old, a) \in Nat
             /\ Brought(new, a) \in Nat /\ Gone(new, a) \in Nat
  <2>1. kept \cup old = rows[x] /\ kept \cap old = {} /\ kept \cap new = {}
    BY <1>1
  <2> HIDE DEF kept
  <2>2. /\ Brought(kept \cup old, a) = Brought(kept, a) + Brought(old, a)
        /\ Gone(kept \cup old, a) = Gone(kept, a) + Gone(old, a)
    BY <1>2, <2>1, MovedUnion
  <2>3. /\ Brought(kept \cup new, a) = Brought(kept, a) + Brought(new, a)
        /\ Gone(kept \cup new, a) = Gone(kept, a) + Gone(new, a)
    BY <1>1, <1>2, <2>1, MovedUnion
  <2>4. /\ Brought(kept, a) \in Nat /\ Gone(kept, a) \in Nat
        /\ Brought(old, a) \in Nat /\ Gone(old, a) \in Nat
    BY <1>2, MovedType
  <2>5. Brought(new, a) \in Nat /\ Gone(new, a) \in Nat
    BY <1>1, MovedType
  <2>6. Brought(rows[x], a) \in Nat /\ Gone(rows[x], a) \in Nat
    BY <1>1, MovedType
  <2>7. /\ Brought(rows[x], a) = Brought(kept, a) + Brought(old, a)
        /\ Gone(rows[x], a) = Gone(kept, a) + Gone(old, a)
    BY <2>1, <2>2, Zenon
  <2>8. /\ Brought(rows'[x], a) = Brought(kept, a) + Brought(new, a)
        /\ Gone(rows'[x], a) = Gone(kept, a) + Gone(new, a)
    BY <1>8, <2>3, Zenon
  <2> QED
    BY <2>4, <2>5, <2>6, <2>7, <2>8
<1>10. Open' = Open
  BY <1>5 DEF Open
<1>11. RefersToOpen'
  <2>1. \A y \in Made : \A r \in rows'[y] : r.account \in Open
    <3> SUFFICES ASSUME NEW y \in Made, NEW r \in rows'[y] PROVE r.account \in Open
      OBVIOUS
    <3>1. \A q \in rows[y] : q.account \in Open
      BY DEF RefersToOpen
    <3>2. \A q \in new : q.account \in Open
      BY DEF RepostStep
    <3>3. rows'[y] = rows[y] \/ (y = x /\ rows'[y] = kept \cup new)
      BY <1>4, <1>8 DEF TypeOK, Made
    <3>4. y = x => kept \subseteq rows[y]
      OBVIOUS
    <3> QED
      BY <3>1, <3>2, <3>3, <3>4
  <2>2. config' = config
    BY DEF RepostStep
  <2> QED
    BY <1>10, <2>1, <2>2 DEF RefersToOpen
<1> QED
  BY <1>4, <1>5, <1>6, <1>7, <1>9, <1>10, <1>11

-----------------------------------------------------------------------------
(* What each handler reposts.                                              *)

\* Posting the first transactions of x.
LEMMA FirstRepost ==
    ASSUME TypeOK, NEW x \in Made, rows[x] = {}, NEW new \in SUBSET Row, IsFiniteSet(new),
           \A r \in new : r.account \in Open, Repost(x, {}, new), UNCHANGED <<config, deleting>>
    PROVE  RepostStep(x, {}, new)
BY DEF RepostStep

\* A transaction by hand is for an entry, unless it may refer to something.
LEMMA NotReferring ==
    ASSUME "handReference" \notin Uses, NEW x, NEW a, NEW amount, AddTransaction(x, a, amount)
    PROVE  x \in Entries
BY DEF AddTransaction, References

\* bankAccount.addTransaction and bankAccount.transfer post an entry.
LEMMA EntryReposts ==
    ASSUME TypeOK, NEW e \in Entries, NEW a \in Accounts, NEW amount \in Amounts,
           AddTransaction(e, a, amount) \/ \E to \in Accounts : Transfer(e, a, to, amount)
    PROVE  /\ \E new : RepostStep(e, {}, new)
           /\ UNCHANGED <<expense, payment>>
<1>1. e \in Made /\ amount \in Int \ {0}
  BY DEF Made
<1>2. CASE AddTransaction(e, a, amount)
  <2>1. a \in Open /\ rows[e] = {} /\ UNCHANGED <<config, expense, payment, deleting>>
    BY <1>2 DEF AddTransaction
  <2>5. References(e) = {"other"}
    BY DEF References
  <2>2. "other" \in Refs
    BY DEF Refs
  <2>3. ASSUME Repost(e, {}, DepositIn("other", a, amount))
        PROVE  RepostStep(e, {}, DepositIn("other", a, amount))
    BY <1>1, <2>1, <2>2, <2>3, OneRowType, FirstRepost
  <2>4. ASSUME Repost(e, {}, Withdrawal("other", a, amount))
        PROVE  RepostStep(e, {}, Withdrawal("other", a, amount))
    BY <1>1, <2>1, <2>2, <2>4, OneRowType, FirstRepost
  <2> QED
    BY <1>2, <2>1, <2>3, <2>4, <2>5 DEF AddTransaction
<1>3. ASSUME NEW to \in Accounts, Transfer(e, a, to, amount)
      PROVE  (\E new : RepostStep(e, {}, new)) /\ UNCHANGED <<expense, payment>>
  <2> DEFINE out == Withdrawal("transfer", a, amount)
             in == DepositIn("transfer", to, amount)
  <2>1. /\ {a, to} \subseteq Open /\ rows[e] = {}
        /\ Repost(e, {}, out \cup in) /\ UNCHANGED <<config, expense, payment, deleting>>
    BY <1>3 DEF Transfer
  <2>2. "transfer" \in Refs
    BY DEF Refs
  <2>3. /\ out \subseteq Row /\ IsFiniteSet(out) /\ \A r \in out : r.account \in Open
        /\ in \subseteq Row /\ IsFiniteSet(in) /\ \A r \in in : r.account \in Open
    BY <1>1, <2>1, <2>2, OneRowType
  <2> HIDE DEF out, in
  <2>4. IsFiniteSet(out \cup in)
    BY <2>3, FS_Union
  <2>5. RepostStep(e, {}, out \cup in)
    BY <1>1, <2>1, <2>3, <2>4, FirstRepost
  <2> QED
    BY <2>1, <2>5
<1> QED
  BY <1>2, <1>3

\* The net amount of an expense is an amount.
LEMMA NetAmount ==
    ASSUME NEW amount \in Amounts, NEW tax \in Taxes, ValidTax(amount, tax)
    PROVE  amount \in Nat /\ tax \in Nat /\ amount - tax \in Nat \ {0}
<1>1. amount \in Nat /\ tax \in Nat
  OBVIOUS
<1> QED
  BY <1>1 DEF ValidTax

\* A withdrawal for an expense that has none.
LEMMA FirstWithdrawal ==
    ASSUME TypeOK, UnmadeHasNothing, NEW x \in Expenses, expense[x].state = "none",
           NEW a \in Open \cup {NoAccount}, NEW net \in Nat \ {0},
           Repost(x, {}, Withdrawal("expense", a, net)), UNCHANGED <<config, deleting>>
    PROVE  RepostStep(x, {}, Withdrawal("expense", a, net)) /\ rows[x] = {}
<1>1. x \in Made /\ "expense" \in Refs /\ net \in Int \ {0}
  BY DEF Made, Spent, Refs
<1>2. rows[x] = {}
  BY DEF UnmadeHasNothing
<1> QED
  BY <1>1, <1>2, OneRowType, FirstRepost

\* expense.create posts an expense once, net of its tax.
LEMMA CreateReposts ==
    ASSUME TypeOK, UnmadeHasNothing, NEW x \in Expenses, NEW a \in Open \cup {NoAccount}, NEW pin,
           NEW amount \in Amounts, NEW tax \in Taxes, CreateExpense(x, a, pin, amount, tax)
    PROVE  /\ RepostStep(x, {}, Withdrawal("expense", a, amount - tax)) /\ rows[x] = {}
           /\ amount - tax \in Nat \ {0}
<1>1. /\ expense[x].state = "none" /\ ValidTax(amount, tax)
      /\ Repost(x, {}, Withdrawal("expense", a, amount - tax)) /\ UNCHANGED <<config, deleting>>
  BY DEF CreateExpense
<1>2. amount - tax \in Nat \ {0}
  BY <1>1, NetAmount
<1> QED
  BY <1>1, <1>2, FirstWithdrawal

\* bankRecon.createExpense posts it once, in full.
LEMMA LineReposts ==
    ASSUME TypeOK, UnmadeHasNothing, NEW x \in Expenses, NEW a \in Open \cup {NoAccount},
           NEW amount \in Amounts, NEW tax \in Taxes, ExpenseFromLine(x, a, amount, tax)
    PROVE  RepostStep(x, {}, Withdrawal("expense", a, amount)) /\ rows[x] = {}
<1>1. /\ expense[x].state = "none" /\ amount \in Nat \ {0}
      /\ Repost(x, {}, Withdrawal("expense", a, amount)) /\ UNCHANGED <<config, deleting>>
  BY DEF ExpenseFromLine
<1> QED
  BY <1>1, FirstWithdrawal

\* Any one of what is only one is all of it.
LEMMA AnyOneIsAll ==
    ASSUME NEW set, \A r, s \in set : r = s
    PROVE  AnyOne(set) = {set}
<1>1. CASE set = {}
  BY <1>1 DEF AnyOne
<1>2. ASSUME NEW q \in set PROVE AnyOne(set) = {set}
  <2>1. set = {q}
    OBVIOUS
  <2> QED
    BY <2>1 DEF AnyOne
<1> QED
  BY <1>1, <1>2

\* So is the withdrawal that an edit or a deletion of an expense takes back,
LEMMA OwnIsAny ==
    ASSUME BooksInv, NEW x \in Spent
    PROVE  AnyOne(OwnWithdrawal(x)) = {OwnWithdrawal(x)}
<1>1. \A r, s \in OwnWithdrawal(x) : r = s
  BY DEF BooksInv, PostedByOne, Sole, OwnWithdrawal
<1> QED
  BY <1>1, AnyOneIsAll

\* and the amount of the posting of a payment, on the account it names.
LEMMA TakenBackIsAll ==
    ASSUME BooksInv, NEW p \in Payments
    PROVE  TakenBack(p) = {Reversible(p)}
<1> DEFINE own == {r \in Reversible(p) : r.ref = "payment"}
           Carried(one) == {[r EXCEPT !.account = payment[p].account] : r \in one}
<1>1. \A r \in own : r \in rows[p] /\ r.ref = "payment"
  BY DEF Reversible
<1>2. \A r, s \in own : r = s
  BY <1>1 DEF BooksInv, PostedByOne, Sole, Spent
<1>3. \A r \in own : [r EXCEPT !.account = payment[p].account] = r
  <2> SUFFICES ASSUME NEW r \in own PROVE [r EXCEPT !.account = payment[p].account] = r
    OBVIOUS
  <2>1. r.account = payment[p].account
    BY <1>1 DEF BooksInv, PostedByOne, OnIts
  <2>2. r \in Row
    BY <1>1 DEF BooksInv, TypeOK, Spent
  <2> QED
    BY <2>1, <2>2 DEF Row
<1>4. own \subseteq Reversible(p)
  OBVIOUS
<1>5. TakenBack(p) = {(Reversible(p) \ own) \cup Carried(one) : one \in AnyOne(own)}
  BY DEF TakenBack
<1> HIDE DEF own
<1>6. AnyOne(own) = {own}
  BY <1>2, AnyOneIsAll
<1>7. Carried(own) = own
  BY <1>3
<1> HIDE DEF Carried
<1>8. (Reversible(p) \ own) \cup Carried(own) = Reversible(p)
  BY <1>4, <1>7
<1> QED
  BY <1>5, <1>6, <1>8

\* expense.update takes back the withdrawal of the expense, and posts the new one.
LEMMA EditReposts ==
    ASSUME BooksInv, NEW x \in Spent, NEW a \in Open \cup {NoAccount}, NEW pin,
           NEW amount \in Amounts, NEW tax \in Taxes, EditExpense(x, a, pin, amount, tax)
    PROVE  /\ RepostStep(x, OwnWithdrawal(x), Withdrawal("expense", a, amount - tax))
           /\ amount - tax \in Nat \ {0}
<1> DEFINE new == Withdrawal("expense", a, amount - tax)
<1>1. /\ ValidTax(amount, tax) /\ Repost(x, OwnWithdrawal(x), new) /\ UNCHANGED <<config, deleting>>
  <2>1. AnyOne(OwnWithdrawal(x)) = {OwnWithdrawal(x)}
    BY OwnIsAny
  <2> QED
    BY <2>1 DEF EditExpense
<1>2. amount - tax \in Nat \ {0}
  BY <1>1, NetAmount
<1>3. x \in Made /\ "expense" \in Refs
  BY DEF Made, Refs
<1>4. amount - tax \in Int \ {0}
  BY <1>2
<1>5. new \subseteq Row /\ IsFiniteSet(new) /\ \A r \in new : r.account \in Open /\ r.ref = "expense"
  BY <1>3, <1>4, OneRowType
<1> HIDE DEF new
<1>6. OwnWithdrawal(x) \subseteq rows[x] /\ new \cap (rows[x] \ OwnWithdrawal(x)) = {}
  BY <1>5 DEF OwnWithdrawal
<1>7. RepostStep(x, OwnWithdrawal(x), new)
  BY <1>1, <1>3, <1>5, <1>6 DEF RepostStep
<1> QED
  BY <1>2, <1>7 DEF new

\* expense.delete takes the withdrawal back.
LEMMA DeleteReposts ==
    ASSUME BooksInv, NEW x \in Spent, DeleteExpense(x)
    PROVE  RepostStep(x, OwnWithdrawal(x), {})
<1>1. Repost(x, OwnWithdrawal(x), {}) /\ UNCHANGED <<config, deleting>>
  BY OwnIsAny DEF DeleteExpense
<1>2. x \in Made /\ OwnWithdrawal(x) \subseteq rows[x]
  BY DEF Made, OwnWithdrawal
<1> QED
  BY <1>1, <1>2, FS_EmptySet DEF RepostStep

\* A payment that comes in is posted for the first time.
LEMMA ReceiveReposts ==
    ASSUME BooksInv, NEW p \in Payments, NEW a \in Open \cup {NoAccount}, NEW amount \in Amounts,
           Receive(p, a, amount)
    PROVE  RepostStep(p, {}, Incoming(a, amount)) /\ rows[p] = {}
<1>1. /\ payment[p].state = "none" /\ Repost(p, {}, Incoming(a, amount))
      /\ UNCHANGED <<config, deleting>>
  BY DEF Receive
<1>2. rows[p] = {} /\ p \in Made
  BY <1>1 DEF BooksInv, UnmadeHasNothing, Made, Spent
<1>3. /\ Incoming(a, amount) \subseteq Row /\ IsFiniteSet(Incoming(a, amount))
      /\ \A r \in Incoming(a, amount) : r.account \in Open
  BY IncomingType DEF BooksInv
<1> QED
  BY <1>1, <1>2, <1>3, FirstRepost DEF BooksInv

\* Whatever else was posted for a payment, its undoing leaves nothing of what it
\* posted itself.
LEMMA UndoneIsGone ==
    ASSUME NotOnAccount, NEW p \in Payments
    PROVE  /\ Reversible(p) \subseteq rows[p]
           /\ \A r \in rows[p] \ Reversible(p) :
                 r.ref \notin {"payment", "gateway_charge", "gateway_settlement"}
BY DEF NotOnAccount, Reversible

\* payment.update takes the payment back and posts it anew.
LEMMA EditPaymentReposts ==
    ASSUME BooksInv, NEW p \in Payments, NEW a \in Open \cup {NoAccount}, NEW amount \in Amounts,
           EditPayment(p, a, amount)
    PROVE  RepostStep(p, Reversible(p), Incoming(a, amount))
<1> DEFINE new == Incoming(a, amount)
<1>1. /\ Repost(p, Reversible(p), new) /\ UNCHANGED <<config, deleting>>
  BY TakenBackIsAll DEF EditPayment, Repost
<1>2. /\ new \subseteq Row /\ IsFiniteSet(new)
      /\ \A r \in new : r.account \in Open
      /\ \A r \in new : r.ref \in {"payment", "gateway_charge", "gateway_settlement"}
  BY IncomingType DEF BooksInv
<1> HIDE DEF new
<1>3. p \in Made /\ Reversible(p) \subseteq rows[p]
  BY UndoneIsGone DEF BooksInv, Made, Spent
<1>4. new \cap (rows[p] \ Reversible(p)) = {}
  BY <1>2, UndoneIsGone DEF BooksInv
<1>5. RepostStep(p, Reversible(p), new)
  BY <1>1, <1>2, <1>3, <1>4 DEF RepostStep
<1> QED
  BY <1>5 DEF new

\* payment.delete takes it back.
LEMMA DeletePaymentReposts ==
    ASSUME BooksInv, NEW p \in Payments, DeletePayment(p)
    PROVE  RepostStep(p, Reversible(p), {})
<1>1. Repost(p, Reversible(p), {}) /\ UNCHANGED <<config, deleting>>
  BY TakenBackIsAll DEF DeletePayment, Repost
<1>2. p \in Made /\ Reversible(p) \subseteq rows[p]
  BY UndoneIsGone DEF BooksInv, Made, Spent
<1> QED
  BY <1>1, <1>2, FS_EmptySet DEF RepostStep

\* The transactions that a step reposts, as a function.
LEMMA RepostRows ==
    ASSUME TypeOK, NEW x, NEW old, NEW new, RepostStep(x, old, new)
    PROVE  x \in Made /\ rows' = [rows EXCEPT ![x] = (rows[x] \ old) \cup new]
BY DEF RepostStep, Repost, Rebook

\* And those that it posts for the first time.
LEMMA FirstRows ==
    ASSUME TypeOK, NEW x, NEW new, RepostStep(x, {}, new), rows[x] = {}
    PROVE  rows' = [rows EXCEPT ![x] = new]
<1>1. (rows[x] \ {}) \cup new = new
  OBVIOUS
<1>2. rows' = [rows EXCEPT ![x] = (rows[x] \ {}) \cup new]
  BY RepostRows
<1> QED
  BY <1>1, <1>2, Zenon

\* And those that it posts anew.
LEMMA NewRows ==
    ASSUME TypeOK, NEW x, NEW new, RepostStep(x, rows[x], new)
    PROVE  rows' = [rows EXCEPT ![x] = new]
<1>1. (rows[x] \ rows[x]) \cup new = new
  OBVIOUS
<1>2. rows' = [rows EXCEPT ![x] = (rows[x] \ rows[x]) \cup new]
  BY RepostRows
<1> QED
  BY <1>1, <1>2, Zenon

-----------------------------------------------------------------------------
(* Types.                                                                  *)

\* A step that reposts for x keeps the books in order, when it changes only the
\* rows of x, makes it, and leaves no transaction of its own to a payment that
\* names no account.
LEMMA RepostKeeps ==
    ASSUME BooksInv, NEW x, NEW old, NEW new, RepostStep(x, old, new),
           expense' \in [Spent -> ExpenseRow], payment' \in [Payments -> PaymentRow],
           \A y \in Spent \ {x} : expense'[y] = expense[y],
           \A p \in Payments \ {x} : payment'[p] = payment[p],
           x \in Expenses => expense'[x].state # "none",
           x \in Spent => Sole(rows'[x]),
           x \in Payments => /\ payment'[x].state # "none"
                             /\ OnIts(rows'[x], payment'[x].account)
    PROVE  BooksInv'
<1>1. /\ account' \in [Accounts -> AccountRow]
      /\ rows' \in [Made -> SUBSET Row] /\ \A y \in Made : IsFiniteSet(rows'[y])
      /\ rows' = [rows EXCEPT ![x] = (rows[x] \ old) \cup new]
      /\ Open' = Open /\ RefersToOpen'
  BY RepostEffect DEF BooksInv
<1>2. UNCHANGED <<config, deleting>> /\ x \in Made
  BY DEF RepostStep
<1>3. TypeOK'
  BY <1>1, <1>2 DEF BooksInv, TypeOK, Made
<1>4. \A y \in Made \ {x} : rows'[y] = rows[y]
  BY <1>1 DEF BooksInv, TypeOK, Made
<1>5. Expenses \subseteq Spent /\ Payments \subseteq Spent /\ Spent \subseteq Made
  BY DEF Spent, Made
<1>6. UnmadeHasNothing'
  <2>1. ASSUME NEW y \in Expenses, expense'[y].state = "none" PROVE rows'[y] = {}
    <3>1. y # x
      BY <2>1
    <3>2. expense[y].state = "none" /\ rows'[y] = rows[y]
      BY <1>4, <1>5, <2>1, <3>1
    <3> QED
      BY <3>2 DEF BooksInv, UnmadeHasNothing
  <2>2. ASSUME NEW p \in Payments, payment'[p].state = "none"
        PROVE  rows'[p] = {} /\ expense'[p].state = "none"
    <3>1. p # x
      BY <2>2
    <3>2. payment[p].state = "none" /\ rows'[p] = rows[p] /\ expense'[p] = expense[p]
      BY <1>4, <1>5, <2>2, <3>1
    <3> QED
      BY <3>2 DEF BooksInv, UnmadeHasNothing
  <2> QED
    BY <2>1, <2>2 DEF UnmadeHasNothing
<1>7. PostedByOne'
  <2>1. ASSUME NEW y \in Spent PROVE Sole(rows'[y])
    BY <1>4, <1>5 DEF BooksInv, PostedByOne
  <2>2. ASSUME NEW p \in Payments PROVE OnIts(rows'[p], payment'[p].account)
    <3>1. CASE p = x
      BY <3>1
    <3>2. CASE p # x
      <4>1. payment'[p] = payment[p] /\ rows'[p] = rows[p]
        BY <1>4, <1>5, <3>2
      <4> QED
        BY <4>1 DEF BooksInv, PostedByOne
    <3> QED
      BY <3>1, <3>2
  <2>3. \A y \in Spent : Sole(rows'[y])
    BY <2>1
  <2>4. \A p \in Payments : OnIts(rows'[p], payment'[p].account)
    BY <2>2
  <2> QED
    BY <2>3, <2>4 DEF PostedByOne, Sole, OnIts
<1>8. NotOnAccount'
  <2> SUFFICES ASSUME NEW p \in Payments, payment'[p].account = NoAccount, NEW r \in rows'[p]
               PROVE  r.ref # "payment"
    BY DEF NotOnAccount
  <2>1. r.account # NoAccount
    BY <1>3, <1>5 DEF TypeOK, Row
  <2> QED
    BY <1>7, <2>1 DEF PostedByOne, OnIts
<1> QED
  BY <1>1, <1>3, <1>6, <1>7, <1>8 DEF BooksInv

\* The charge that a payment is booked with is well typed, and so is its deletion.
LEMMA ChargeRowType ==
    ASSUME TypeOK, NEW p \in Payments, NEW a \in Open \cup {NoAccount}, NEW amount \in Amounts
    PROVE  ChargeBooked(a, amount) \in ExpenseRow /\ ChargeDeleted(p) \in ExpenseRow
<1>1. a \in Accounts \cup {NoAccount}
  BY DEF Open
<1>2. ChargeOn(a, amount) \in Nat
  BY ChargeType
<1>3. ChargeBooked(a, amount) \in ExpenseRow
  BY <1>1, <1>2 DEF ChargeBooked, NoExpense, ExpenseRow
<1>4. expense[p] \in ExpenseRow
  BY DEF TypeOK, Spent
<1>5. ChargeDeleted(p) \in ExpenseRow
  BY <1>4 DEF ChargeDeleted, ExpenseRow
<1> QED
  BY <1>3, <1>5

\* A charge is deleted in what is its own row.
LEMMA ChargeDeletedType ==
    ASSUME TypeOK, NEW p \in Payments
    PROVE  ChargeDeleted(p) \in ExpenseRow
<1>1. expense[p] \in ExpenseRow
  BY DEF TypeOK, Spent
<1> QED
  BY <1>1 DEF ChargeDeleted, ExpenseRow

\* At the start there are no transactions.
LEMMA InitBooks == Init => BooksInv
<1> SUFFICES ASSUME Init PROVE BooksInv
  OBVIOUS
<1>1. account \in [Accounts -> AccountRow]
  BY DEF Init, AccountRow
<1>2. config \in [Gateways -> Config]
  BY DEF Init, Config, NoConfig
<1>3. expense \in [Spent -> ExpenseRow]
  BY DEF Init, ExpenseRow, NoExpense
<1>4. payment \in [Payments -> PaymentRow]
  BY DEF Init, PaymentRow
<1>5. \A x \in Made : rows[x] = {}
  BY DEF Init, Made
<1>6. TypeOK
  BY <1>1, <1>2, <1>3, <1>4, <1>5, FS_EmptySet DEF Init, TypeOK, Made
<1>7. UnmadeHasNothing /\ NotOnAccount /\ PostedByOne
  BY <1>5 DEF Init, UnmadeHasNothing, NotOnAccount, PostedByOne, Sole, OnIts, NoExpense, Made, Spent
<1>8. RefersToOpen
  BY <1>5 DEF Init, RefersToOpen, NoConfig
<1> QED
  BY <1>6, <1>7, <1>8 DEF BooksInv

\* Opening an account keeps the books in order.
LEMMA CreateAccountKeeps ==
    ASSUME BooksInv, NEW a \in Accounts, NEW opening \in Openings, CreateAccount(a, opening)
    PROVE  BooksInv'
<1>1. /\ account' = [account EXCEPT ![a] =
             [state |-> "open", opening |-> opening, balance |-> opening]]
      /\ UNCHANGED <<config, expense, payment, rows, deleting>>
  BY DEF CreateAccount
<1>2. opening \in Nat
  OBVIOUS
<1>3. account' \in [Accounts -> AccountRow] /\ Open \subseteq Open'
  BY <1>1, <1>2 DEF BooksInv, TypeOK, AccountRow, Open
<1>4. TypeOK'
  BY <1>1, <1>3 DEF BooksInv, TypeOK
<1>5. UnmadeHasNothing' /\ NotOnAccount' /\ RefersToOpen' /\ PostedByOne'
  BY <1>1, <1>3 DEF BooksInv, UnmadeHasNothing, NotOnAccount, RefersToOpen, PostedByOne, Sole, OnIts
<1> QED
  BY <1>4, <1>5 DEF BooksInv

\* So does moving an opening balance.
LEMMA SetOpeningKeeps ==
    ASSUME BooksInv, NEW a \in Accounts, NEW opening \in Openings, SetOpening(a, opening)
    PROVE  BooksInv'
<1>1. /\ account' = [account EXCEPT ![a].opening = opening, ![a].balance = BalanceFrom(a, opening)]
      /\ UNCHANGED <<config, expense, payment, rows, deleting>>
  BY DEF SetOpening
<1>2. account[a] \in AccountRow /\ opening \in Nat
  BY DEF BooksInv, TypeOK
<1>3. BalanceFrom(a, opening) \in Int
  BY <1>2 DEF BalanceFrom, AccountRow
<1>4. account' = [account EXCEPT ![a] =
          [account[a] EXCEPT !.opening = opening, !.balance = BalanceFrom(a, opening)]]
  BY <1>1, <1>2 DEF BooksInv, TypeOK
<1>5. [account[a] EXCEPT !.opening = opening, !.balance = BalanceFrom(a, opening)] \in AccountRow
  BY <1>2, <1>3 DEF AccountRow
<1>6. account' \in [Accounts -> AccountRow]
  BY <1>4, <1>5 DEF BooksInv, TypeOK
<1>7. \A b \in Accounts : account'[b].state = account[b].state
  BY <1>2, <1>4 DEF BooksInv, TypeOK, AccountRow
<1>8. Open' = Open
  BY <1>7 DEF Open
<1>9. TypeOK'
  BY <1>1, <1>6, <1>8 DEF BooksInv, TypeOK
<1>10. UnmadeHasNothing' /\ NotOnAccount' /\ RefersToOpen' /\ PostedByOne'
  BY <1>1, <1>8 DEF BooksInv, UnmadeHasNothing, NotOnAccount, RefersToOpen, PostedByOne, Sole, OnIts
<1> QED
  BY <1>9, <1>10 DEF BooksInv

\* And deleting an account, which takes the transactions on it along.
LEMMA DeleteAccountKeeps ==
    ASSUME BooksInv, NEW a \in Accounts, DeleteAccount(a)
    PROVE  BooksInv'
<1>1. deleting' = deleting \ {a} /\ UNCHANGED <<expense, payment>>
  BY DEF DeleteAccount
<1>2. CASE UNCHANGED <<account, config, rows>>
  <2>1. Open' = Open
    BY <1>2 DEF Open
  <2>2. TypeOK'
    BY <1>1, <1>2, <2>1 DEF BooksInv, TypeOK
  <2>3. UnmadeHasNothing' /\ NotOnAccount' /\ RefersToOpen' /\ PostedByOne'
    BY <1>1, <1>2, <2>1 DEF BooksInv, UnmadeHasNothing, NotOnAccount, RefersToOpen, PostedByOne, Sole, OnIts
  <2> QED
    BY <2>2, <2>3 DEF BooksInv
<1>3. CASE ~UNCHANGED <<account, config, rows>>
  <2>1. /\ \A g \in Gateways : config[g].into # a
        /\ account' = [account EXCEPT ![a].state = "deleted"]
        /\ rows' = [x \in DOMAIN rows |-> {r \in rows[x] : r.account # a}]
        /\ config' = [g \in Gateways |-> IF g = a THEN NoConfig ELSE config[g]]
    BY <1>3 DEF DeleteAccount
  <2>2. DOMAIN rows = Made /\ \A x \in Made : rows[x] \subseteq Row /\ IsFiniteSet(rows[x])
    BY DEF BooksInv, TypeOK, Made
  <2>3. \A x \in Made : rows'[x] = {r \in rows[x] : r.account # a} /\ IsFiniteSet(rows'[x])
    BY <2>1, <2>2, FS_Subset
  <2>4. rows' \in [Made -> SUBSET Row]
    BY <2>1, <2>2
  <2>5. account' \in [Accounts -> AccountRow] /\ Open' = Open \ {a}
    BY <2>1 DEF BooksInv, TypeOK, AccountRow, Open
  <2>6. config' \in [Gateways -> Config]
    BY <2>1 DEF BooksInv, TypeOK, Config, NoConfig
  <2>7. TypeOK'
    BY <1>1, <2>3, <2>4, <2>5, <2>6 DEF BooksInv, TypeOK, Made
  <2>8. UnmadeHasNothing' /\ NotOnAccount' /\ PostedByOne'
    BY <1>1, <2>3 DEF BooksInv, UnmadeHasNothing, NotOnAccount, PostedByOne, Sole, OnIts, Made, Spent
  <2>9. \A x \in Made : \A r \in rows'[x] : r.account \in Open'
    BY <2>3, <2>5 DEF BooksInv, RefersToOpen
  <2>10. ASSUME NEW g \in Gateways PROVE config'[g].into \in Open' \cup {NoAccount}
    <3>1. config[g].into \in Open \cup {NoAccount} /\ config[g].into # a
      BY <2>1 DEF BooksInv, RefersToOpen
    <3>2. config'[g] = NoConfig \/ config'[g] = config[g]
      BY <2>1
    <3> QED
      BY <2>5, <3>1, <3>2 DEF NoConfig
  <2> QED
    BY <2>7, <2>8, <2>9, <2>10 DEF BooksInv, RefersToOpen
<1> QED
  BY <1>2, <1>3

\* And configuring a gateway, counting the transactions of an account, paying the
\* tax of an expense and undoing that.
LEMMA OthersKeep ==
    ASSUME BooksInv,
           \/ \E a \in Accounts : CountRows(a)
           \/ \E g \in Gateways : DropConfig(g)
           \/ \E g \in Gateways, fee \in Fees, into \in Accounts, settles \in BOOLEAN :
                 SetConfig(g, fee, into, settles)
           \/ \E x \in Spent : DepositTax(x) \/ RemoveChallan(x)
    PROVE  BooksInv' /\ UNCHANGED <<account, rows, payment>>
<1>1. ASSUME NEW a \in Accounts, CountRows(a) PROVE BooksInv' /\ UNCHANGED <<account, rows, payment>>
  <2>1. a \in Open /\ deleting' = deleting \cup {a}
        /\ UNCHANGED <<account, config, expense, payment, rows>>
    BY <1>1 DEF CountRows
  <2>2. Open' = Open
    BY <2>1 DEF Open
  <2>3. TypeOK'
    BY <2>1, <2>2 DEF BooksInv, TypeOK
  <2>4. UnmadeHasNothing' /\ NotOnAccount' /\ RefersToOpen' /\ PostedByOne'
    BY <2>1, <2>2 DEF BooksInv, UnmadeHasNothing, NotOnAccount, RefersToOpen, PostedByOne, Sole, OnIts
  <2> QED
    BY <2>1, <2>3, <2>4 DEF BooksInv
<1>2. ASSUME NEW g \in Gateways, NEW c, config' = [config EXCEPT ![g] = c],
             c \in Config, c.into \in Open \cup {NoAccount},
             UNCHANGED <<account, expense, payment, rows, deleting>>
      PROVE  BooksInv'
  <2>1. Open' = Open
    BY <1>2 DEF Open
  <2>2. TypeOK'
    BY <1>2, <2>1 DEF BooksInv, TypeOK
  <2>3. UnmadeHasNothing' /\ NotOnAccount' /\ PostedByOne'
    BY <1>2 DEF BooksInv, UnmadeHasNothing, NotOnAccount, PostedByOne, Sole, OnIts
  <2>4. RefersToOpen'
    BY <1>2, <2>1 DEF BooksInv, TypeOK, RefersToOpen
  <2> QED
    BY <2>2, <2>3, <2>4 DEF BooksInv
<1>3. ASSUME NEW g \in Gateways, DropConfig(g)
      PROVE  BooksInv' /\ UNCHANGED <<account, rows, payment>>
  <2>1. NoConfig \in Config /\ NoConfig.into = NoAccount
    BY DEF NoConfig, Config
  <2> QED
    BY <1>2, <1>3, <2>1 DEF DropConfig
<1>4. ASSUME NEW g \in Gateways, NEW fee \in Fees, NEW into \in Accounts, NEW settles \in BOOLEAN,
             SetConfig(g, fee, into, settles)
      PROVE  BooksInv' /\ UNCHANGED <<account, rows, payment>>
  <2> DEFINE c == [on |-> TRUE, settles |-> settles, fee |-> fee, into |-> into]
  <2>1. c \in Config /\ c.into = into
    BY DEF Config
  <2>2. /\ config' = [config EXCEPT ![g] = c] /\ into \in Open
        /\ UNCHANGED <<account, expense, payment, rows, deleting>>
    BY <1>4 DEF SetConfig
  <2> HIDE DEF c
  <2> QED
    BY <1>2, <2>1, <2>2
<1>5. ASSUME NEW x \in Spent, DepositTax(x) \/ RemoveChallan(x)
      PROVE  BooksInv' /\ UNCHANGED <<account, rows, payment>>
  <2>1. /\ UNCHANGED <<account, config, payment, rows, deleting>>
        /\ \/ expense' = [expense EXCEPT ![x].deducted = "deposited"]
           \/ expense' = [expense EXCEPT ![x].deducted = "due"]
    BY <1>5 DEF DepositTax, RemoveChallan
  <2>2. expense' \in [Spent -> ExpenseRow] /\ \A y \in Spent : expense'[y].state = expense[y].state
    BY <2>1 DEF BooksInv, TypeOK, ExpenseRow
  <2>3. Open' = Open
    BY <2>1 DEF Open
  <2>4. TypeOK'
    BY <2>1, <2>2, <2>3 DEF BooksInv, TypeOK
  <2>5. UnmadeHasNothing' /\ NotOnAccount' /\ RefersToOpen' /\ PostedByOne'
    BY <2>1, <2>2, <2>3 DEF BooksInv, UnmadeHasNothing, NotOnAccount, RefersToOpen, PostedByOne,
                            Sole, OnIts, Spent
  <2> QED
    BY <2>1, <2>4, <2>5 DEF BooksInv
<1> QED
  BY <1>1, <1>3, <1>4, <1>5

\* An expense that is entered, edited or deleted, and its row.
LEMMA ExpenseRowType ==
    ASSUME NEW state \in {"live", "deleted"}, NEW amount \in Amounts, NEW tax \in Taxes,
           NEW pin \in Open \cup {NoAccount}, NEW deducted \in {"none", "due"}
    PROVE  [state |-> state, amount |-> amount, tax |-> tax, deducted |-> deducted, pin |-> pin]
               \in ExpenseRow
<1>1. amount \in Nat /\ tax \in Nat /\ pin \in Accounts \cup {NoAccount}
  BY DEF Open
<1> QED
  BY <1>1 DEF ExpenseRow

\* Steps of expenses keep the books in order, and repost for one expense.
LEMMA ExpenseKeeps ==
    ASSUME BooksInv, ExpenseNext
    PROVE  BooksInv' /\ ((\E x, old, new : RepostStep(x, old, new)) \/ UNCHANGED <<account, rows>>)
<1> DEFINE Kept == BooksInv' /\ \E x, old, new : RepostStep(x, old, new)
<1>1. ASSUME NEW x \in Expenses, NEW a \in Open \cup {NoAccount}, NEW pin \in Open \cup {NoAccount},
             NEW amount \in Amounts, NEW tax \in Taxes, CreateExpense(x, a, pin, amount, tax)
      PROVE  Kept
  <2> DEFINE new == Withdrawal("expense", a, amount - tax)
             row == [state |-> "live", amount |-> amount, tax |-> tax,
                     deducted |-> Deduction(tax), pin |-> pin]
  <2>1. RepostStep(x, {}, new) /\ rows[x] = {}
    BY <1>1, CreateReposts DEF BooksInv
  <2>6. Sole(rows'[x])
    <3>1. rows' = [rows EXCEPT ![x] = new] /\ x \in DOMAIN rows
      BY <2>1, FirstRows DEF BooksInv, TypeOK, RepostStep, Made
    <3>2. \A r, s \in new : r = s
      BY OneRow
    <3> QED
      BY <3>1, <3>2 DEF Sole
  <2>2. expense' = [expense EXCEPT ![x] = row] /\ UNCHANGED payment
    BY <1>1 DEF CreateExpense
  <2>3. row \in ExpenseRow /\ row.state = "live"
    BY ExpenseRowType DEF Deduction
  <2> HIDE DEF new, row
  <2>4. x \in Spent /\ x \notin Payments
    BY DEF Spent
  <2>5. /\ expense' \in [Spent -> ExpenseRow] /\ payment' \in [Payments -> PaymentRow]
        /\ \A y \in Spent \ {x} : expense'[y] = expense[y]
        /\ \A p \in Payments \ {x} : payment'[p] = payment[p]
        /\ expense'[x].state # "none"
    BY <2>2, <2>3, <2>4 DEF BooksInv, TypeOK
  <2> QED
    BY <2>1, <2>4, <2>5, <2>6, RepostKeeps
<1>2. ASSUME NEW x \in Expenses, NEW a \in Open, NEW amount \in Amounts, NEW tax \in Taxes,
             ExpenseFromLine(x, a, amount, tax)
      PROVE  Kept
  <2> DEFINE new == Withdrawal("expense", a, amount)
             row == [state |-> "live", amount |-> amount, tax |-> tax, deducted |-> "none", pin |-> a]
  <2>1. RepostStep(x, {}, new) /\ rows[x] = {}
    BY <1>2, LineReposts DEF BooksInv
  <2>6. Sole(rows'[x])
    <3>1. rows' = [rows EXCEPT ![x] = new] /\ x \in DOMAIN rows
      BY <2>1, FirstRows DEF BooksInv, TypeOK, RepostStep, Made
    <3>2. \A r, s \in new : r = s
      BY OneRow
    <3> QED
      BY <3>1, <3>2 DEF Sole
  <2>2. expense' = [expense EXCEPT ![x] = row] /\ UNCHANGED payment
    BY <1>2 DEF ExpenseFromLine
  <2>3. row \in ExpenseRow /\ row.state = "live"
    BY ExpenseRowType
  <2> HIDE DEF new, row
  <2>4. x \in Spent /\ x \notin Payments
    BY DEF Spent
  <2>5. /\ expense' \in [Spent -> ExpenseRow] /\ payment' \in [Payments -> PaymentRow]
        /\ \A y \in Spent \ {x} : expense'[y] = expense[y]
        /\ \A p \in Payments \ {x} : payment'[p] = payment[p]
        /\ expense'[x].state # "none"
    BY <2>2, <2>3, <2>4 DEF BooksInv, TypeOK
  <2> QED
    BY <2>1, <2>4, <2>5, <2>6, RepostKeeps
\* An edit or a deletion, of a charge perhaps.
<1>3. ASSUME NEW x \in Spent, NEW row \in ExpenseRow, NEW new,
             expense[x].state # "none", expense' = [expense EXCEPT ![x] = row],
             row.state # "none", UNCHANGED payment,
             RepostStep(x, OwnWithdrawal(x), new), \A r \in new : r.ref = "expense",
             \A r, s \in new : r = s
      PROVE  Kept
  <2>1. /\ expense' \in [Spent -> ExpenseRow] /\ payment' \in [Payments -> PaymentRow]
        /\ \A y \in Spent \ {x} : expense'[y] = expense[y]
        /\ \A p \in Payments \ {x} : payment'[p] = payment[p]
        /\ expense'[x].state # "none"
    BY <1>3 DEF BooksInv, TypeOK
  <2>2. rows'[x] = (rows[x] \ OwnWithdrawal(x)) \cup new
    <3>1. x \in Made /\ rows' = [rows EXCEPT ![x] = (rows[x] \ OwnWithdrawal(x)) \cup new]
      BY <1>3 DEF RepostStep, Repost, Rebook
    <3> QED
      BY <3>1 DEF BooksInv, TypeOK, Made
  <2>3. ASSUME x \in Payments
        PROVE  payment'[x].state # "none" /\ OnIts(rows'[x], payment'[x].account)
    <3>1. payment'[x] = payment[x] /\ payment[x].state # "none"
      BY <1>3, <2>3 DEF BooksInv, UnmadeHasNothing
    <3>2. OnIts(rows[x], payment[x].account)
      BY <2>3 DEF BooksInv, PostedByOne
    <3> QED
      BY <1>3, <2>2, <3>1, <3>2 DEF OnIts
  <2>4. Sole(rows'[x])
    <3>1. \A r \in rows[x] \ OwnWithdrawal(x) : r.ref # "expense"
      BY DEF OwnWithdrawal
    <3>2. Sole(rows[x])
      BY DEF BooksInv, PostedByOne
    <3> QED
      BY <1>3, <2>2, <3>1, <3>2 DEF Sole
  <2> QED
    BY <1>3, <2>1, <2>3, <2>4, RepostKeeps
<1>4. ASSUME NEW x \in Spent, NEW a \in Open \cup {NoAccount}, NEW pin \in Open \cup {NoAccount},
             NEW amount \in Amounts, NEW tax \in Taxes, EditExpense(x, a, pin, amount, tax)
      PROVE  Kept
  <2> DEFINE new == Withdrawal("expense", a, amount - tax)
             deducted == IF expense[x].state = "live" THEN Deduction(tax) ELSE "none"
             row == [expense[x] EXCEPT !.amount = amount, !.tax = tax, !.pin = pin,
                                       !.deducted = deducted]
  <2>1. RepostStep(x, OwnWithdrawal(x), new)
    BY <1>4, EditReposts
  <2>2. expense[x].state \in {"live", "deleted"} /\ UNCHANGED payment
    BY <1>4 DEF EditExpense
  <2>3. expense[x] \in ExpenseRow
    BY DEF BooksInv, TypeOK
  <2>4. expense' = [expense EXCEPT ![x] = row]
    BY <1>4 DEF EditExpense
  <2>5. deducted \in {"none", "due"}
    BY DEF Deduction
  <2>6. row \in ExpenseRow /\ row.state # "none"
    <3> HIDE DEF deducted
    <3>1. amount \in Nat /\ tax \in Nat /\ pin \in Accounts \cup {NoAccount}
      BY DEF Open
    <3> QED
      BY <2>2, <2>3, <2>5, <3>1 DEF ExpenseRow
  <2>7. (\A r \in new : r.ref = "expense") /\ \A r, s \in new : r = s
    BY OneRow
  <2> HIDE DEF new, row, Kept
  <2> QED
    BY <1>3, <2>1, <2>2, <2>4, <2>6, <2>7
<1>5. ASSUME NEW x \in Spent, DeleteExpense(x) PROVE Kept
  <2> DEFINE row == [expense[x] EXCEPT !.state = "deleted", !.deducted = "none"]
  <2>1. RepostStep(x, OwnWithdrawal(x), {})
    BY <1>5, DeleteReposts
  <2>2. expense[x].state = "live" /\ UNCHANGED payment /\ expense[x] \in ExpenseRow
    BY <1>5 DEF DeleteExpense, BooksInv, TypeOK
  <2>3. expense' = [expense EXCEPT ![x] = row]
    BY <1>5, <2>2 DEF DeleteExpense, BooksInv, TypeOK
  <2>4. row \in ExpenseRow /\ row.state # "none"
    BY <2>2 DEF ExpenseRow
  <2> HIDE DEF row, Kept
  <2> QED
    BY <1>3, <2>1, <2>2, <2>3, <2>4
<1>6. ASSUME NEW x \in Spent, DepositTax(x) \/ RemoveChallan(x)
      PROVE  BooksInv' /\ UNCHANGED <<account, rows>>
  BY <1>6, OthersKeep
<1>7. ByMode \subseteq Open \cup {NoAccount}
  BY DEF ByMode
<1> HIDE DEF Kept
<1>8. Kept \/ (BooksInv' /\ UNCHANGED <<account, rows>>)
  BY <1>1, <1>2, <1>4, <1>5, <1>6, <1>7 DEF ExpenseNext
<1> QED
  BY <1>8 DEF Kept

\* So do the steps of payments.
LEMMA PaymentKeeps ==
    ASSUME BooksInv, PaymentNext
    PROVE  BooksInv' /\ \E x, old, new : RepostStep(x, old, new)
<1> DEFINE Posted(set, a) == Sole(set) /\ OnIts(set, a)
<1>1. ASSUME NEW p \in Payments, NEW old, NEW new, RepostStep(p, old, new),
             NEW row \in PaymentRow, NEW charge \in ExpenseRow, row.state # "none",
             payment' = [payment EXCEPT ![p] = row], expense' = [expense EXCEPT ![p] = charge],
             Posted((rows[p] \ old) \cup new, row.account)
      PROVE  BooksInv'
  <2>1. p \in Spent /\ p \notin Expenses
    BY DEF Spent
  <2>2. /\ expense' \in [Spent -> ExpenseRow] /\ payment' \in [Payments -> PaymentRow]
        /\ \A y \in Spent \ {p} : expense'[y] = expense[y]
        /\ \A q \in Payments \ {p} : payment'[q] = payment[q]
        /\ payment'[p] = row
    BY <1>1, <2>1 DEF BooksInv, TypeOK
  <2>3. rows'[p] = (rows[p] \ old) \cup new
    <3>1. p \in Made /\ rows' = [rows EXCEPT ![p] = (rows[p] \ old) \cup new]
      BY <1>1 DEF RepostStep, Repost, Rebook
    <3> QED
      BY <3>1 DEF BooksInv, TypeOK, Made
  <2> QED
    BY <1>1, <2>1, <2>2, <2>3, RepostKeeps
<1> HIDE DEF Posted
<1>2. ASSUME NEW p \in Payments, NEW a \in Open \cup {NoAccount}, NEW amount \in Amounts,
             Receive(p, a, amount)
      PROVE  BooksInv' /\ RepostStep(p, {}, Incoming(a, amount))
  <2> DEFINE row == [state |-> "live", amount |-> amount, account |-> a]
  <2>1. RepostStep(p, {}, Incoming(a, amount)) /\ rows[p] = {}
    BY <1>2, ReceiveReposts
  <2>2. /\ payment' = [payment EXCEPT ![p] = row]
        /\ expense' = [expense EXCEPT ![p] = ChargeBooked(a, amount)]
    BY <1>2 DEF Receive
  <2>3. row \in PaymentRow /\ row.state # "none" /\ row.account = a
    BY DEF PaymentRow, Open
  <2>4. ChargeBooked(a, amount) \in ExpenseRow
    BY ChargeRowType DEF BooksInv
  <2>5. Posted((rows[p] \ {}) \cup Incoming(a, amount), row.account)
    <3>1. (rows[p] \ {}) \cup Incoming(a, amount) = Incoming(a, amount)
      BY <2>1
    <3>2. Posted(Incoming(a, amount), a)
      BY IncomingSole DEF Posted
    <3>3. row.account = a
      BY <2>3
    <3> HIDE DEF row
    <3> QED
      BY <3>1, <3>2, <3>3
  <2> HIDE DEF row
  <2>6. BooksInv'
    BY <1>1, <2>1, <2>2, <2>3, <2>4, <2>5
  <2> QED
    BY <2>1, <2>6
<1>3. ASSUME NEW p \in Payments, NEW a \in Open \cup {NoAccount}, NEW amount \in Amounts,
             EditPayment(p, a, amount)
      PROVE  BooksInv' /\ RepostStep(p, Reversible(p), Incoming(a, amount))
  <2> DEFINE row == [payment[p] EXCEPT !.amount = amount, !.account = a]
             charge == IF ChargeOn(a, amount) > 0 THEN ChargeBooked(a, amount) ELSE ChargeDeleted(p)
  <2>1. RepostStep(p, Reversible(p), Incoming(a, amount))
    BY <1>3, EditPaymentReposts
  <2>2. payment[p] \in PaymentRow /\ payment[p].state = "live"
    BY <1>3 DEF EditPayment, BooksInv, TypeOK
  <2>3. payment' = [payment EXCEPT ![p] = row] /\ expense' = [expense EXCEPT ![p] = charge]
    BY <1>3 DEF EditPayment
  <2>4. row \in PaymentRow /\ row.state # "none" /\ row.account = a
    BY <2>2 DEF PaymentRow, Open
  <2>5. charge \in ExpenseRow
    BY ChargeRowType DEF BooksInv
  <2>6. Posted((rows[p] \ Reversible(p)) \cup Incoming(a, amount), a)
    <3>1. Sole(rows[p])
      BY DEF BooksInv, PostedByOne, Spent
    <3>2. \A r \in rows[p] \ Reversible(p) : r.ref # "payment"
      BY UndoneIsGone DEF BooksInv
    <3> QED
      BY <3>1, <3>2, IncomingSole DEF Posted, Sole, OnIts
  <2> HIDE DEF row, charge
  <2>7. Posted((rows[p] \ Reversible(p)) \cup Incoming(a, amount), row.account)
    BY <2>4, <2>6
  <2>8. BooksInv'
    BY <1>1, <2>1, <2>3, <2>4, <2>5, <2>7
  <2> QED
    BY <2>1, <2>8
<1>4. ASSUME NEW p \in Payments, DeletePayment(p)
      PROVE  BooksInv' /\ RepostStep(p, Reversible(p), {})
  <2> DEFINE row == [payment[p] EXCEPT !.state = "deleted"]
  <2>1. RepostStep(p, Reversible(p), {})
    BY <1>4, DeletePaymentReposts
  <2>2. payment[p] \in PaymentRow
    BY DEF BooksInv, TypeOK
  <2>3. payment' = [payment EXCEPT ![p] = row] /\ expense' = [expense EXCEPT ![p] = ChargeDeleted(p)]
    BY <1>4, <2>2 DEF DeletePayment, BooksInv, TypeOK
  <2>4. row \in PaymentRow /\ row.state # "none" /\ row.account = payment[p].account
    BY <2>2 DEF PaymentRow
  <2>5. ChargeDeleted(p) \in ExpenseRow
    BY ChargeDeletedType DEF BooksInv
  <2>6. \A b : Posted((rows[p] \ Reversible(p)) \cup {}, b)
    <3>1. Sole(rows[p])
      BY DEF BooksInv, PostedByOne, Spent
    <3>2. \A r \in rows[p] \ Reversible(p) : r.ref # "payment"
      BY UndoneIsGone DEF BooksInv
    <3> QED
      BY <3>1, <3>2 DEF Posted, Sole, OnIts
  <2> HIDE DEF row
  <2>7. Posted((rows[p] \ Reversible(p)) \cup {}, row.account)
    BY <2>6
  <2>8. BooksInv'
    BY <1>1, <2>1, <2>3, <2>4, <2>5, <2>7
  <2> QED
    BY <2>1, <2>8
<1> QED
  BY <1>2, <1>3, <1>4 DEF PaymentNext

\* Every step keeps the books in order. It reposts for one x, opens, moves or deletes
\* an account, or leaves accounts and transactions alone.
LEMMA NextKeeps ==
    ASSUME BooksInv, "handReference" \notin Uses, Next
    PROVE  /\ BooksInv'
           /\ \/ \E x, old, new : RepostStep(x, old, new)
              \/ \E a \in Accounts, opening \in Openings : CreateAccount(a, opening)
              \/ \E a \in Accounts, opening \in Openings : SetOpening(a, opening)
              \/ \E a \in Accounts : DeleteAccount(a)
              \/ UNCHANGED <<account, rows>>
<1>1. CASE ExpenseNext
  BY <1>1, ExpenseKeeps
<1>2. CASE PaymentNext
  BY <1>2, PaymentKeeps
<1>3. CASE AccountNext
  <2>1. ASSUME NEW e \in Entries, NEW a \in Accounts, NEW amount \in Amounts,
               AddTransaction(e, a, amount) \/ \E to \in Accounts : Transfer(e, a, to, amount)
        PROVE  BooksInv' /\ \E x, old, new : RepostStep(x, old, new)
    <3>1. PICK new : RepostStep(e, {}, new)
      BY <2>1, EntryReposts DEF BooksInv
    <3>2. UNCHANGED <<expense, payment>>
      BY <2>1, EntryReposts DEF BooksInv
    <3>3. e \notin Expenses /\ e \notin Payments
      OBVIOUS
    <3>4. expense' \in [Spent -> ExpenseRow] /\ payment' \in [Payments -> PaymentRow]
      BY <3>2 DEF BooksInv, TypeOK
    <3>5. e \notin Spent
      BY DEF Spent
    <3> QED
      BY <3>1, <3>2, <3>3, <3>4, <3>5, RepostKeeps
  <2> QED
    BY <1>3, <2>1, NotReferring, CreateAccountKeeps, SetOpeningKeeps, DeleteAccountKeeps, OthersKeep
       DEF AccountNext
<1> QED
  BY <1>1, <1>2, <1>3 DEF Next

\* A step that changes nothing keeps the books in order.
LEMMA StutterKeeps ==
    ASSUME BooksInv, UNCHANGED vars
    PROVE  BooksInv'
<1>1. UNCHANGED <<account, config, expense, payment, rows, deleting>>
  BY DEF vars
<1>2. Open' = Open
  BY <1>1 DEF Open
<1>3. TypeOK'
  BY <1>1, <1>2 DEF BooksInv, TypeOK
<1>4. UnmadeHasNothing' /\ NotOnAccount' /\ RefersToOpen' /\ PostedByOne'
  BY <1>1, <1>2 DEF BooksInv, UnmadeHasNothing, NotOnAccount, RefersToOpen, PostedByOne, Sole, OnIts
<1> QED
  BY <1>3, <1>4 DEF BooksInv

\* Accounts, configurations, expenses, payments and their transactions are what their
\* columns can hold, an account that is being deleted is open, and nothing refers to an
\* account that is not there, while no transaction by hand refers to an expense or a
\* payment.
THEOREM TypeCorrect ==
    ASSUME "handReference" \notin Uses
    PROVE  Spec => []TypeOK
<1>1. Init => BooksInv
  BY InitBooks
<1>2. BooksInv /\ [Next]_vars => BooksInv'
  BY NextKeeps, StutterKeeps
<1>3. BooksInv => TypeOK
  BY DEF BooksInv
<1> QED
  BY <1>1, <1>2, <1>3, PTL DEF Spec

-----------------------------------------------------------------------------
(* The balance of an account.                                              *)

\* What all the transactions bring to account a, and what they take from it.
In(a)  == TotalOf([x \in Made |-> Brought(rows[x], a)])
Out(a) == TotalOf([x \in Made |-> Gone(rows[x], a)])

\* The balance of account a is its opening balance and its transactions.
Balanced(a) == account[a].balance = account[a].opening + In(a) - Out(a)

LEMMA MadeIsFinite == IsFiniteSet(Made)
BY FS_Union DEF Made, Spent

\* So stated, that is what BalanceReconciles says.
LEMMA BalancedIsReconciled ==
    ASSUME TypeOK
    PROVE  BalanceReconciles <=> \A a \in Open : Balanced(a)
<1>1. DOMAIN rows = Made
  BY DEF TypeOK, Made
<1> QED
  BY <1>1 DEF BalanceReconciles, Balanced, In, Out

\* What is brought and taken are sums of money.
LEMMA InOutType ==
    ASSUME TypeOK, NEW a
    PROVE  /\ [x \in Made |-> Brought(rows[x], a)] \in [Made -> Nat]
           /\ [x \in Made |-> Gone(rows[x], a)] \in [Made -> Nat]
           /\ In(a) \in Nat /\ Out(a) \in Nat
<1> DEFINE f == [x \in Made |-> Brought(rows[x], a)]
           g == [x \in Made |-> Gone(rows[x], a)]
<1>1. ASSUME NEW x \in Made PROVE Brought(rows[x], a) \in Nat /\ Gone(rows[x], a) \in Nat
  <2>1. rows[x] \in SUBSET Row /\ IsFiniteSet(rows[x])
    BY DEF TypeOK, Made
  <2> QED
    BY <2>1, MovedType
<1>2. f \in [Made -> Nat] /\ g \in [Made -> Nat]
  BY <1>1
<1>3. TotalOf(f) \in Nat /\ TotalOf(g) \in Nat
  <2> HIDE DEF f, g
  <2> QED
    BY <1>2, MadeIsFinite, TotalIsNat
<1> QED
  BY <1>2, <1>3 DEF In, Out

\* Reposting moves the balance of every account by what its transactions moved.
LEMMA RepostBalances ==
    ASSUME BooksInv, BooksInv', NEW x, NEW old, NEW new, RepostStep(x, old, new),
           \A a \in Open : Balanced(a)
    PROVE  \A a \in Open' : Balanced(a)'
<1>1. x \in Made /\ Open' = Open /\ rows' = [rows EXCEPT ![x] = (rows[x] \ old) \cup new]
  BY RepostEffect DEF BooksInv, RepostStep
<1>2. \A y \in Made \ {x} : rows'[y] = rows[y]
  BY <1>1 DEF BooksInv, TypeOK, Made
<1> SUFFICES ASSUME NEW a \in Open PROVE Balanced(a)'
  BY <1>1
<1> DEFINE f == [y \in Made |-> Brought(rows[y], a)]
           g == [y \in Made |-> Gone(rows[y], a)]
           F == [y \in Made |-> Brought(rows'[y], a)]
           G == [y \in Made |-> Gone(rows'[y], a)]
<1>3. f \in [Made -> Nat] /\ g \in [Made -> Nat] /\ In(a) = TotalOf(f) /\ Out(a) = TotalOf(g)
  BY InOutType DEF BooksInv, In, Out
<1>4. (TypeOK)'
  BY DEF BooksInv
<1>5. F \in [Made -> Nat] /\ G \in [Made -> Nat]
  <2>1. ASSUME NEW y \in Made PROVE Brought(rows'[y], a) \in Nat /\ Gone(rows'[y], a) \in Nat
    <3>1. rows'[y] \in SUBSET Row /\ IsFiniteSet(rows'[y])
      BY <1>4 DEF TypeOK, Made
    <3> QED
      BY <3>1, MovedType
  <2> QED
    BY <2>1
<1>6. In(a)' = TotalOf(F) /\ Out(a)' = TotalOf(G)
  BY DEF In, Out
<1>7. \A y \in Made \ {x} : f[y] = F[y] /\ g[y] = G[y]
  BY <1>2
<1>8. /\ f[x] = Brought(rows[x], a) /\ F[x] = Brought(rows'[x], a)
      /\ g[x] = Gone(rows[x], a) /\ G[x] = Gone(rows'[x], a)
  BY <1>1
<1> HIDE DEF f, g, F, G
<1>9. TotalOf(F) = TotalOf(f) - f[x] + F[x]
  BY <1>1, <1>3, <1>5, <1>7, MadeIsFinite, TotalUpdate
<1>10. TotalOf(G) = TotalOf(g) - g[x] + G[x]
  BY <1>1, <1>3, <1>5, <1>7, MadeIsFinite, TotalUpdate
<1>11. a \in Accounts /\ account[a] \in AccountRow
  BY DEF BooksInv, TypeOK, Open
<1>12. /\ account'[a].opening = account[a].opening
       /\ account'[a].balance = account[a].balance - Moved(old, a) + Moved(new, a)
       /\ Brought(rows'[x], a) = Brought(rows[x], a) - Brought(old, a) + Brought(new, a)
       /\ Gone(rows'[x], a) = Gone(rows[x], a) - Gone(old, a) + Gone(new, a)
       /\ Brought(rows[x], a) \in Nat /\ Gone(rows[x], a) \in Nat
       /\ Brought(old, a) \in Nat /\ Gone(old, a) \in Nat
       /\ Brought(new, a) \in Nat /\ Gone(new, a) \in Nat
  BY <1>11, RepostEffect DEF BooksInv
<1>13. account[a].balance \in Int /\ account[a].opening \in Nat
  BY <1>11 DEF AccountRow
<1>14. TotalOf(f) \in Nat /\ TotalOf(g) \in Nat
  BY <1>3, InOutType DEF BooksInv
<1>15. account[a].balance = account[a].opening + TotalOf(f) - TotalOf(g)
  BY <1>3 DEF Balanced
<1>16. account'[a].balance = account'[a].opening + TotalOf(F) - TotalOf(G)
  BY <1>8, <1>9, <1>10, <1>12, <1>13, <1>14, <1>15 DEF Moved
<1> QED
  BY <1>6, <1>16 DEF Balanced

\* On an account that has no transactions, nothing comes in or goes out.
LEMMA NothingOn ==
    ASSUME TypeOK, NEW a, \A x \in Made : \A r \in rows[x] : r.account # a
    PROVE  In(a) = 0 /\ Out(a) = 0
<1> DEFINE f == [x \in Made |-> Brought(rows[x], a)]
           g == [x \in Made |-> Gone(rows[x], a)]
<1>1. f \in [Made -> Nat] /\ g \in [Made -> Nat]
  BY InOutType
<1>2. ASSUME NEW x \in Made PROVE f[x] = 0 /\ g[x] = 0
  <2>1. rows[x] \in SUBSET Row
    BY DEF TypeOK, Made
  <2> QED
    BY <2>1, MovedElsewhere
<1>3. In(a) = TotalOf(f) /\ Out(a) = TotalOf(g)
  BY DEF In, Out
<1> HIDE DEF f, g
<1> QED
  BY <1>1, <1>2, <1>3, TotalOfZeroes

\* Opening, moving and deleting accounts leaves the others in balance.
LEMMA AccountBalances ==
    ASSUME BooksInv, \A a \in Open : Balanced(a), NEW a \in Accounts, NEW opening \in Nat,
           CreateAccount(a, opening) \/ SetOpening(a, opening) \/ DeleteAccount(a)
    PROVE  \A b \in Open' : Balanced(b)'
<1>1. account \in [Accounts -> AccountRow] /\ account[a] \in AccountRow /\ opening \in Nat
  BY DEF BooksInv, TypeOK
<1>2. CASE CreateAccount(a, opening)
  <2>1. /\ account[a].state = "none" /\ UNCHANGED rows
        /\ account' = [account EXCEPT ![a] =
               [state |-> "open", opening |-> opening, balance |-> opening]]
    BY <1>2 DEF CreateAccount
  <2>2. \A x \in Made : \A r \in rows[x] : r.account # a
    BY <2>1 DEF BooksInv, RefersToOpen, Open
  <2>3. In(a) = 0 /\ Out(a) = 0
    BY <2>2, NothingOn DEF BooksInv
  <2>4. ASSUME NEW b \in Open' PROVE Balanced(b)'
    <3>1. In(b)' = In(b) /\ Out(b)' = Out(b)
      BY <2>1 DEF In, Out
    <3>2. CASE b = a
      <4>1. account'[b].balance = opening /\ account'[b].opening = opening
        BY <1>1, <2>1, <3>2
      <4> QED
        BY <1>1, <2>3, <3>1, <3>2, <4>1 DEF Balanced
    <3>3. CASE b # a
      <4>1. b \in Open /\ account'[b] = account[b]
        BY <1>1, <2>1, <3>3 DEF Open
      <4> QED
        BY <3>1, <4>1 DEF Balanced
    <3> QED
      BY <3>2, <3>3
  <2> QED
    BY <2>4
<1>3. CASE SetOpening(a, opening)
  <2>1. /\ a \in Open /\ UNCHANGED rows
        /\ account' = [account EXCEPT ![a].opening = opening,
                                      ![a].balance = account[a].balance + (opening - account[a].opening)]
    BY <1>3 DEF SetOpening, BalanceFrom
  <2>2. ASSUME NEW b \in Open' PROVE Balanced(b)'
    <3>1. In(b)' = In(b) /\ Out(b)' = Out(b)
      BY <2>1 DEF In, Out
    <3>2. CASE b = a
      <4>1. /\ account'[b].opening = opening
            /\ account'[b].balance = account[a].balance + (opening - account[a].opening)
        BY <1>1, <2>1, <3>2 DEF AccountRow
      <4>2. account[a].balance = account[a].opening + In(a) - Out(a)
        BY <2>1 DEF Balanced
      <4>3. In(a) \in Nat /\ Out(a) \in Nat /\ account[a].balance \in Int /\ account[a].opening \in Nat
        BY <1>1, InOutType DEF BooksInv, AccountRow
      <4>4. account'[b].balance = account'[b].opening + In(a) - Out(a)
        BY <1>1, <4>1, <4>2, <4>3
      <4> QED
        BY <3>1, <3>2, <4>4 DEF Balanced
    <3>3. CASE b # a
      <4>1. b \in Open /\ account'[b] = account[b]
        BY <1>1, <2>1, <3>3 DEF Open
      <4> QED
        BY <3>1, <4>1 DEF Balanced
    <3> QED
      BY <3>2, <3>3
  <2> QED
    BY <2>2
<1>4. CASE DeleteAccount(a)
  <2>1. \/ UNCHANGED <<account, rows>>
        \/ /\ account' = [account EXCEPT ![a].state = "deleted"]
           /\ rows' = [x \in DOMAIN rows |-> {r \in rows[x] : r.account # a}]
    BY <1>4 DEF DeleteAccount
  <2>2. CASE UNCHANGED <<account, rows>>
    BY <2>2 DEF Open, Balanced, In, Out
  <2>3. CASE /\ account' = [account EXCEPT ![a].state = "deleted"]
             /\ rows' = [x \in DOMAIN rows |-> {r \in rows[x] : r.account # a}]
    <3> SUFFICES ASSUME NEW b \in Open' PROVE Balanced(b)'
      OBVIOUS
    <3>1. b # a /\ b \in Open /\ account'[b] = account[b]
      BY <1>1, <2>3 DEF Open, AccountRow
    <3>2. \A x \in Made : rows'[x] = {r \in rows[x] : r.account # a}
      BY <2>3 DEF BooksInv, TypeOK, Made
    <3>3. ASSUME NEW x \in Made
          PROVE  Brought(rows'[x], b) = Brought(rows[x], b) /\ Gone(rows'[x], b) = Gone(rows[x], b)
      <4> DEFINE kept == {r \in rows[x] : r.account # a}
      <4>1. Brought(kept, b) = Brought(rows[x], b) /\ Gone(kept, b) = Gone(rows[x], b)
        BY <3>1, MovedWithout
      <4>2. rows'[x] = kept
        BY <3>2
      <4> HIDE DEF kept
      <4> QED
        BY <4>1, <4>2
    <3>4. [x \in Made |-> Brought(rows'[x], b)] = [x \in Made |-> Brought(rows[x], b)]
      BY <3>3
    <3>5. [x \in Made |-> Gone(rows'[x], b)] = [x \in Made |-> Gone(rows[x], b)]
      BY <3>3
    <3>6. In(b)' = In(b) /\ Out(b)' = Out(b)
      BY <3>4, <3>5 DEF In, Out
    <3> QED
      BY <3>1, <3>6 DEF Balanced
  <2> QED
    BY <2>1, <2>2, <2>3
<1> QED
  BY <1>2, <1>3, <1>4

\* The balance of every account that is open is its opening balance, moved or not, and
\* all its transactions, of whatever handler, also when old ones are taken back, a
\* gateway is configured anew in between, or an account is deleted while something is
\* posted to it; but not once a transaction by hand refers to a payment, which is then
\* deleted with it and taken back only once.
THEOREM BalanceAlwaysReconciles ==
    ASSUME "handReference" \notin Uses
    PROVE  Spec => []BalanceReconciles
<1> DEFINE Inv == BooksInv /\ \A a \in Open : Balanced(a)
<1>1. Init => Inv
  <2> SUFFICES ASSUME Init PROVE Inv
    OBVIOUS
  <2>1. BooksInv
    BY InitBooks
  <2>2. ASSUME NEW a \in Open PROVE Balanced(a)
    <3>1. \A x \in Made : rows[x] = {}
      BY DEF Init, Made
    <3>2. In(a) = 0 /\ Out(a) = 0
      BY <2>1, <3>1, NothingOn DEF BooksInv
    <3>3. account[a].balance = 0 /\ account[a].opening = 0
      BY DEF Init, Open
    <3> QED
      BY <3>2, <3>3 DEF Balanced
  <2> QED
    BY <2>1, <2>2
<1>2. Inv /\ [Next]_vars => Inv'
  <2> SUFFICES ASSUME Inv, [Next]_vars PROVE Inv'
    OBVIOUS
  <2>1. BooksInv'
    BY NextKeeps, StutterKeeps
  <2>2. \A a \in Open' : Balanced(a)'
    <3>1. ASSUME UNCHANGED <<account, rows>> PROVE \A a \in Open' : Balanced(a)'
      BY <3>1 DEF Open, Balanced, In, Out
    <3>2. CASE Next
      <4>1. ASSUME NEW x, NEW old, NEW new, RepostStep(x, old, new)
            PROVE  \A a \in Open' : Balanced(a)'
        BY <2>1, <4>1, RepostBalances
      <4>2. ASSUME NEW a \in Accounts, NEW opening \in Nat,
                   CreateAccount(a, opening) \/ SetOpening(a, opening) \/ DeleteAccount(a)
            PROVE  \A b \in Open' : Balanced(b)'
        BY <4>2, AccountBalances
      <4>3. Openings \subseteq Nat /\ 0 \in Nat
        OBVIOUS
      <4> QED
        BY <3>1, <3>2, <4>1, <4>2, <4>3, NextKeeps
    <3>3. CASE UNCHANGED vars
      BY <3>1, <3>3 DEF vars
    <3> QED
      BY <3>2, <3>3
  <2> QED
    BY <2>1, <2>2
<1>3. Inv => BalanceReconciles
  BY BalancedIsReconciled DEF BooksInv
<1> QED
  BY <1>1, <1>2, <1>3, PTL DEF Spec

-----------------------------------------------------------------------------
(* Posting once: what the transactions of an expense or a payment are.     *)

PaymentRefs == {"payment", "gateway_charge", "gateway_settlement"}

\* Nothing but the posting of an expense, or of a payment and its gateway, is among
\* its transactions.
OwnRows(x) == \A r \in rows[x] : IF x \in Payments THEN r.ref \in PaymentRefs ELSE r.ref = "expense"

\* A charge that is booked is pinned to the account it is on.
ChargeOnBooks(p) ==
    expense[p].state = "live" => /\ expense[p].pin # NoAccount
                                 /\ \E r \in rows[p] : /\ r.ref = "gateway_charge"
                                                       /\ r.account = expense[p].pin

ChargesInv == (\A x \in Spent : OwnRows(x)) /\ (\A p \in Payments : ChargeOnBooks(p))

\* What the transactions and the expense of x become, when nothing else changes.
Becomes(x, set, row) ==
    rows' = [rows EXCEPT ![x] = set] /\ expense' = [expense EXCEPT ![x] = row]

\* An expense is entered or edited, on account a for what is left of it after tax,
\* when what is not meant to happen does not.
EnteredStep(x, a, net, row) ==
    /\ x \in Expenses /\ a \in Open \cup {NoAccount} /\ net \in Nat \ {0}
    /\ Becomes(x, Withdrawal("expense", a, net), row) /\ UNCHANGED payment
    /\ Uses \subseteq {"deleteInUse"} =>
           /\ row.state = "live" /\ net = row.amount - row.tax /\ row.amount \in Nat /\ row.tax \in Nat
           /\ row.pin = a \/ row.pin = NoAccount

\* An expense is deleted, or, what is not meant to happen, a charge.
DroppedStep(x, row) ==
    /\ row.state = "deleted" /\ UNCHANGED payment
    /\ \/ x \in Expenses /\ Becomes(x, {}, row)
       \/ x \in Payments /\ "deleteCharge" \in Uses /\ Becomes(x, rows[x], row)

\* The tax of an expense is deposited, or taken back.
TaxStep(x, row) ==
    /\ x \in Spent /\ Becomes(x, rows[x], row) /\ UNCHANGED payment
    /\ row.state = expense[x].state /\ row.amount = expense[x].amount
    /\ row.tax = expense[x].tax /\ row.pin = expense[x].pin

\* A payment comes in or is edited, on account a.
PaidStep(p, a, amount, row) ==
    /\ p \in Payments /\ a \in Open \cup {NoAccount} /\ amount \in Amounts
    /\ Becomes(p, Incoming(a, amount), row)
    /\ \E paid : /\ payment' = [payment EXCEPT ![p] = paid]
                  /\ paid.state = "live" /\ paid.amount = amount /\ paid.account = a
    /\ IF ChargeOn(a, amount) > 0 THEN row = ChargeBooked(a, amount) ELSE row.state # "live"

\* A payment is deleted.
UnpaidStep(p, row) ==
    /\ p \in Payments /\ Becomes(p, {}, row) /\ row.state # "live"
    /\ \E paid : payment' = [payment EXCEPT ![p] = paid] /\ paid.state = "deleted"

\* A step of entries and accounts: expenses and payments keep their transactions, but
\* for those on an account that is deleted and that no expense is pinned to.
OtherStep ==
    /\ UNCHANGED <<expense, payment>>
    /\ \/ \A x \in Spent : rows'[x] = rows[x]
       \/ "deleteInUse" \in Uses
          /\ \E a \in Accounts : /\ \A x \in Spent : expense[x].pin # a
                                 /\ \A x \in Spent : rows'[x] = {r \in rows[x] : r.account # a}

\* What the undoing of an expense or a payment takes back is all that it has.
LEMMA AllIsOwn ==
    ASSUME BooksInv, ChargesInv
    PROVE  /\ \A x \in Expenses : OwnWithdrawal(x) = rows[x]
           /\ \A p \in Payments : OwnWithdrawal(p) = {} /\ Reversible(p) = rows[p]
           /\ \A p \in Payments : ChargeDeleted(p).state # "live"
<1>1. ASSUME NEW x \in Expenses PROVE OwnWithdrawal(x) = rows[x]
  BY DEF ChargesInv, OwnRows, OwnWithdrawal, Spent
<1>2. ASSUME NEW p \in Payments PROVE OwnWithdrawal(p) = {} /\ Reversible(p) = rows[p]
  <2>1. \A r \in rows[p] : r.ref \in PaymentRefs
    BY DEF ChargesInv, OwnRows, Spent
  <2>2. OwnWithdrawal(p) = {}
    BY <2>1 DEF PaymentRefs, OwnWithdrawal
  <2>3. Reversible(p) = rows[p]
    BY <2>1 DEF BooksInv, NotOnAccount, PaymentRefs, Reversible
  <2> QED
    BY <2>2, <2>3
<1>3. ASSUME NEW p \in Payments PROVE ChargeDeleted(p).state # "live"
  <2>1. expense[p] \in ExpenseRow
    BY DEF BooksInv, TypeOK, Spent
  <2>2. expense[p].state = "live" => \E r \in rows[p] : r.ref = "gateway_charge"
    BY DEF ChargesInv, ChargeOnBooks
  <2> QED
    BY <2>1, <2>2 DEF ChargeDeleted, ExpenseRow
<1> QED
  BY <1>1, <1>2, <1>3

\* Every step of expenses is one of these.
LEMMA ExpenseKinds ==
    ASSUME BooksInv, ChargesInv, "editCharge" \notin Uses, ExpenseNext
    PROVE  \/ \E x, a, net, row : EnteredStep(x, a, net, row)
           \/ \E x, row : DroppedStep(x, row)
           \/ \E x, row : TaxStep(x, row)
<1> DEFINE Goal == \/ \E x, a, net, row : EnteredStep(x, a, net, row)
                   \/ \E x, row : DroppedStep(x, row)
                   \/ \E x, row : TaxStep(x, row)
<1>1. ASSUME NEW x \in Expenses, NEW a \in Open \cup {NoAccount}, NEW pin \in {a, NoAccount},
             NEW amount \in Amounts, NEW tax \in Taxes, CreateExpense(x, a, pin, amount, tax)
      PROVE  Goal
  <2> DEFINE row == [state |-> "live", amount |-> amount, tax |-> tax,
                     deducted |-> Deduction(tax), pin |-> pin]
  <2>1. /\ RepostStep(x, {}, Withdrawal("expense", a, amount - tax)) /\ rows[x] = {}
        /\ amount - tax \in Nat \ {0}
    BY <1>1, CreateReposts DEF BooksInv
  <2>2. rows' = [rows EXCEPT ![x] = Withdrawal("expense", a, amount - tax)]
    BY <2>1, FirstRows DEF BooksInv
  <2>3. expense' = [expense EXCEPT ![x] = row] /\ UNCHANGED payment
    BY <1>1 DEF CreateExpense
  <2>4. amount \in Nat /\ tax \in Nat
    OBVIOUS
  <2>5. EnteredStep(x, a, amount - tax, row)
    BY <2>1, <2>2, <2>3, <2>4 DEF EnteredStep, Becomes
  <2> QED
    BY <2>5
<1>2. ASSUME NEW x \in Expenses, NEW a \in Open, NEW amount \in Amounts, NEW tax \in Taxes,
             ExpenseFromLine(x, a, amount, tax)
      PROVE  Goal
  <2> DEFINE row == [state |-> "live", amount |-> amount, tax |-> tax, deducted |-> "none", pin |-> a]
  <2>1. RepostStep(x, {}, Withdrawal("expense", a, amount)) /\ rows[x] = {}
    BY <1>2, LineReposts DEF BooksInv
  <2>2. rows' = [rows EXCEPT ![x] = Withdrawal("expense", a, amount)]
    BY <2>1, FirstRows DEF BooksInv
  <2>3. expense' = [expense EXCEPT ![x] = row] /\ UNCHANGED payment
    BY <1>2 DEF ExpenseFromLine
  <2>4. amount \in Nat \ {0} /\ tax \in Nat
    OBVIOUS
  <2>5. Uses \subseteq {"deleteInUse"} => amount = amount - tax
    <3>1. tax > 0 => "taxOnLine" \in Uses
      BY <1>2 DEF ExpenseFromLine
    <3> QED
      BY <2>4, <3>1
  <2>6. EnteredStep(x, a, amount, row)
    BY <2>2, <2>3, <2>4, <2>5 DEF EnteredStep, Becomes
  <2> QED
    BY <2>6
<1>3. ASSUME NEW x \in Spent, NEW a \in Open \cup {NoAccount}, NEW pin \in {a, NoAccount},
             NEW amount \in Amounts, NEW tax \in Taxes, EditExpense(x, a, pin, amount, tax)
      PROVE  Goal
  <2> DEFINE row == [expense[x] EXCEPT
                 !.amount = amount, !.tax = tax, !.pin = pin,
                 !.deducted = IF expense[x].state = "live" THEN Deduction(tax) ELSE "none"]
  <2>1. /\ RepostStep(x, OwnWithdrawal(x), Withdrawal("expense", a, amount - tax))
        /\ amount - tax \in Nat \ {0}
    BY <1>3, EditReposts
  <2>2. x \in Expenses
    BY <1>3 DEF EditExpense, Spent
  <2>3. rows' = [rows EXCEPT ![x] = Withdrawal("expense", a, amount - tax)]
    <3>1. (rows[x] \ OwnWithdrawal(x)) \cup Withdrawal("expense", a, amount - tax)
              = Withdrawal("expense", a, amount - tax)
      BY <2>2, AllIsOwn
    <3>2. rows' = [rows EXCEPT ![x] = (rows[x] \ OwnWithdrawal(x))
                                        \cup Withdrawal("expense", a, amount - tax)]
      BY <2>1, RepostRows DEF BooksInv
    <3> QED
      BY <3>1, <3>2
  <2>4. expense' = [expense EXCEPT ![x] = row] /\ UNCHANGED payment
    BY <1>3 DEF EditExpense
  <2>5. expense[x] \in ExpenseRow /\ amount \in Nat /\ tax \in Nat
    BY DEF BooksInv, TypeOK
  <2>6. row.state = expense[x].state /\ row.amount = amount /\ row.tax = tax /\ row.pin = pin
    BY <2>5 DEF ExpenseRow
  <2>7. Uses \subseteq {"deleteInUse"} => expense[x].state = "live"
    BY <1>3 DEF EditExpense
  <2> HIDE DEF row
  <2>8. EnteredStep(x, a, amount - tax, row)
    BY <2>1, <2>2, <2>3, <2>4, <2>5, <2>6, <2>7 DEF EnteredStep, Becomes
  <2> QED
    BY <2>8
<1>4. ASSUME NEW x \in Spent, DeleteExpense(x) PROVE Goal
  <2> DEFINE row == [expense[x] EXCEPT !.state = "deleted", !.deducted = "none"]
  <2>1. expense[x] \in ExpenseRow
    BY DEF BooksInv, TypeOK
  <2>2. expense' = [expense EXCEPT ![x] = row] /\ UNCHANGED payment
    BY <1>4, <2>1 DEF DeleteExpense, BooksInv, TypeOK
  <2>3. row.state = "deleted"
    BY <2>1 DEF ExpenseRow
  <2>4. rows' = [rows EXCEPT ![x] = (rows[x] \ OwnWithdrawal(x)) \cup {}]
    BY <1>4, DeleteReposts, RepostRows DEF BooksInv
  <2> HIDE DEF row
  <2>5. CASE x \in Expenses
    <3>1. (rows[x] \ OwnWithdrawal(x)) \cup {} = {}
      BY <2>5, AllIsOwn
    <3>2. DroppedStep(x, row)
      BY <2>2, <2>3, <2>4, <2>5, <3>1 DEF DroppedStep, Becomes
    <3> QED
      BY <3>2
  <2>6. CASE x \in Payments
    <3>1. (rows[x] \ OwnWithdrawal(x)) \cup {} = rows[x]
      BY <2>6, AllIsOwn
    <3>2. "deleteCharge" \in Uses
      BY <1>4, <2>6 DEF DeleteExpense
    <3>3. DroppedStep(x, row)
      BY <2>2, <2>3, <2>4, <2>6, <3>1, <3>2 DEF DroppedStep, Becomes
    <3> QED
      BY <3>3
  <2> QED
    BY <2>5, <2>6 DEF Spent
<1>5. ASSUME NEW x \in Spent, NEW d, expense' = [expense EXCEPT ![x].deducted = d],
             UNCHANGED <<payment, rows>>
      PROVE  Goal
  <2> DEFINE row == [expense[x] EXCEPT !.deducted = d]
  <2>1. expense[x] \in ExpenseRow
    BY DEF BooksInv, TypeOK
  <2>2. expense' = [expense EXCEPT ![x] = row]
    BY <1>5 DEF BooksInv, TypeOK
  <2>3. /\ row.state = expense[x].state /\ row.amount = expense[x].amount
        /\ row.tax = expense[x].tax /\ row.pin = expense[x].pin
    BY <2>1 DEF ExpenseRow
  <2>4. rows' = [rows EXCEPT ![x] = rows[x]]
    BY <1>5 DEF BooksInv, TypeOK
  <2> HIDE DEF row
  <2>5. TaxStep(x, row)
    BY <1>5, <2>2, <2>3, <2>4 DEF TaxStep, Becomes
  <2> QED
    BY <2>5
<1>6. ASSUME NEW x \in Spent, DepositTax(x) \/ RemoveChallan(x) PROVE Goal
  BY <1>5, <1>6 DEF DepositTax, RemoveChallan
<1>7. ByMode \subseteq Open \cup {NoAccount}
  BY DEF ByMode
<1> HIDE DEF Goal
<1>8. Goal
  BY <1>1, <1>2, <1>3, <1>4, <1>6, <1>7 DEF ExpenseNext
<1> QED
  BY <1>8 DEF Goal

\* Every step of payments.
LEMMA PaymentKinds ==
    ASSUME BooksInv, ChargesInv, PaymentNext
    PROVE  \/ \E p, a, amount, row : PaidStep(p, a, amount, row)
           \/ \E p, row : UnpaidStep(p, row)
<1> DEFINE Goal == \/ \E p, a, amount, row : PaidStep(p, a, amount, row)
                   \/ \E p, row : UnpaidStep(p, row)
<1>1. ASSUME NEW p \in Payments, NEW a \in Open \cup {NoAccount}, NEW amount \in Amounts,
             Receive(p, a, amount)
      PROVE  Goal
  <2> DEFINE row == ChargeBooked(a, amount)
  <2>1. RepostStep(p, {}, Incoming(a, amount)) /\ rows[p] = {}
    BY <1>1, ReceiveReposts
  <2>2. rows' = [rows EXCEPT ![p] = Incoming(a, amount)]
    BY <2>1, FirstRows DEF BooksInv
  <2>3. /\ payment' = [payment EXCEPT ![p] = [state |-> "live", amount |-> amount, account |-> a]]
        /\ expense' = [expense EXCEPT ![p] = row]
    BY <1>1 DEF Receive
  <2>4. ChargeOn(a, amount) \in Nat
    BY ChargeType DEF BooksInv
  <2>5. ~(ChargeOn(a, amount) > 0) => row.state # "live"
    BY <2>4 DEF ChargeBooked, NoExpense
  <2> DEFINE paid == [state |-> "live", amount |-> amount, account |-> a]
  <2>6. /\ payment' = [payment EXCEPT ![p] = paid]
        /\ paid.state = "live" /\ paid.amount = amount /\ paid.account = a
    BY <2>3
  <2>7. IF ChargeOn(a, amount) > 0 THEN row = ChargeBooked(a, amount) ELSE row.state # "live"
    BY <2>5
  <2> HIDE DEF row, paid
  <2>8. PaidStep(p, a, amount, row)
    BY <2>2, <2>3, <2>6, <2>7 DEF PaidStep, Becomes
  <2> QED
    BY <2>8
<1>2. ASSUME NEW p \in Payments, NEW a \in Open \cup {NoAccount}, NEW amount \in Amounts,
             EditPayment(p, a, amount)
      PROVE  Goal
  <2> DEFINE row == IF ChargeOn(a, amount) > 0 THEN ChargeBooked(a, amount) ELSE ChargeDeleted(p)
             paid == [payment[p] EXCEPT !.amount = amount, !.account = a]
  <2>1. RepostStep(p, rows[p], Incoming(a, amount))
    <3>1. RepostStep(p, Reversible(p), Incoming(a, amount))
      BY <1>2, EditPaymentReposts
    <3>2. Reversible(p) = rows[p]
      BY AllIsOwn
    <3> QED
      BY <3>1, <3>2, Zenon
  <2>2. rows' = [rows EXCEPT ![p] = Incoming(a, amount)]
    BY <2>1, NewRows DEF BooksInv
  <2>3. payment[p] \in PaymentRow /\ payment[p].state = "live"
    BY <1>2 DEF BooksInv, TypeOK, EditPayment
  <2>4. payment' = [payment EXCEPT ![p] = paid] /\ expense' = [expense EXCEPT ![p] = row]
    BY <1>2 DEF EditPayment
  <2>5. paid.state = "live" /\ paid.amount = amount /\ paid.account = a
    BY <2>3 DEF PaymentRow
  <2>6. IF ChargeOn(a, amount) > 0 THEN row = ChargeBooked(a, amount) ELSE row.state # "live"
    BY AllIsOwn
  <2> HIDE DEF row, paid
  <2>7. PaidStep(p, a, amount, row)
    BY <2>2, <2>4, <2>5, <2>6 DEF PaidStep, Becomes
  <2> QED
    BY <2>7
<1>3. ASSUME NEW p \in Payments, DeletePayment(p) PROVE Goal
  <2> DEFINE row == ChargeDeleted(p)
             paid == [payment[p] EXCEPT !.state = "deleted"]
  <2>1. RepostStep(p, rows[p], {})
    <3>1. RepostStep(p, Reversible(p), {})
      BY <1>3, DeletePaymentReposts
    <3>2. Reversible(p) = rows[p]
      BY AllIsOwn
    <3> QED
      BY <3>1, <3>2, Zenon
  <2>2. rows' = [rows EXCEPT ![p] = {}]
    BY <2>1, NewRows DEF BooksInv
  <2>3. payment[p] \in PaymentRow
    BY DEF BooksInv, TypeOK
  <2>4. payment' = [payment EXCEPT ![p] = paid] /\ expense' = [expense EXCEPT ![p] = row]
    BY <1>3, <2>3 DEF DeletePayment, BooksInv, TypeOK
  <2>5. paid.state = "deleted" /\ row.state # "live"
    BY <2>3, AllIsOwn DEF PaymentRow
  <2> HIDE DEF row, paid
  <2>6. UnpaidStep(p, row)
    BY <2>2, <2>4, <2>5 DEF UnpaidStep, Becomes
  <2> QED
    BY <2>6
<1> HIDE DEF Goal
<1>4. Goal
  BY <1>1, <1>2, <1>3 DEF PaymentNext
<1> QED
  BY <1>4 DEF Goal

\* Every step of accounts, gateways and entries.
LEMMA AccountKinds ==
    ASSUME BooksInv, "handReference" \notin Uses, AccountNext
    PROVE  OtherStep
<1>1. DOMAIN rows = Made /\ Spent \subseteq Made /\ rows = [x \in Made |-> rows[x]]
  BY DEF BooksInv, TypeOK, Made
<1>2. ASSUME NEW e \in Entries, NEW a \in Accounts, NEW amount \in Amounts,
             AddTransaction(e, a, amount) \/ \E to \in Accounts : Transfer(e, a, to, amount)
      PROVE  OtherStep
  <2>1. PICK new : RepostStep(e, {}, new)
    BY <1>2, EntryReposts DEF BooksInv
  <2>2. UNCHANGED <<expense, payment>>
    BY <1>2, EntryReposts DEF BooksInv
  <2>3. rows' = [rows EXCEPT ![e] = (rows[e] \ {}) \cup new]
    BY <2>1, RepostRows DEF BooksInv
  <2>4. e \notin Spent
    BY DEF Spent
  <2>5. \A x \in Spent : rows'[x] = rows[x]
    BY <1>1, <2>3, <2>4
  <2> QED
    BY <2>2, <2>5 DEF OtherStep
<1>3. ASSUME NEW a \in Accounts, DeleteAccount(a) PROVE OtherStep
  <2>1. UNCHANGED <<expense, payment>>
    BY <1>3 DEF DeleteAccount
  <2>2. CASE UNCHANGED rows
    BY <2>1, <2>2 DEF OtherStep
  <2>3. CASE ~UNCHANGED rows
    <3>1. /\ \A x \in Spent : expense[x].pin # a
          /\ "deleteInUse" \in Uses \/ \A x \in DOMAIN rows : \A r \in rows[x] : r.account # a
          /\ rows' = [x \in DOMAIN rows |-> {r \in rows[x] : r.account # a}]
      BY <1>3, <2>3 DEF DeleteAccount
    <3>2. \A x \in Spent : rows'[x] = {r \in rows[x] : r.account # a}
      BY <1>1, <3>1
    <3>3. CASE "deleteInUse" \in Uses
      BY <2>1, <3>1, <3>2, <3>3 DEF OtherStep
    <3>4. CASE "deleteInUse" \notin Uses
      <4>1. \A x \in Spent : \A r \in rows[x] : r.account # a
        BY <1>1, <3>1, <3>4
      <4>2. ASSUME NEW x \in Spent PROVE rows'[x] = rows[x]
        BY <3>2, <4>1
      <4> QED
        BY <2>1, <4>2 DEF OtherStep
    <3> QED
      BY <3>3, <3>4
  <2> QED
    BY <2>2, <2>3
<1>4. ASSUME UNCHANGED <<expense, payment, rows>> PROVE OtherStep
  BY <1>4 DEF OtherStep
<1> QED
  BY <1>2, <1>3, <1>4, NotReferring
     DEF AccountNext, CreateAccount, SetOpening, CountRows, SetConfig, DropConfig

\* So every step is one of these, when the charges of gateways are not edited.
LEMMA StepKinds ==
    ASSUME BooksInv, ChargesInv, Uses \cap {"editCharge", "handReference"} = {}, [Next]_vars
    PROVE  \/ \E x, a, net, row : EnteredStep(x, a, net, row)
           \/ \E x, row : DroppedStep(x, row)
           \/ \E x, row : TaxStep(x, row)
           \/ \E p, a, amount, row : PaidStep(p, a, amount, row)
           \/ \E p, row : UnpaidStep(p, row)
           \/ OtherStep
<1>1. CASE UNCHANGED vars
  BY <1>1 DEF vars, OtherStep
<1> QED
  <2>1. "editCharge" \notin Uses /\ "handReference" \notin Uses
    OBVIOUS
  <2> QED
    BY <1>1, <2>1, ExpenseKinds, PaymentKinds, AccountKinds DEF Next

\* What becomes of x, and of the others.
LEMMA BecomesEffect ==
    ASSUME TypeOK, NEW x \in Spent, NEW set, NEW row, Becomes(x, set, row)
    PROVE  /\ rows'[x] = set /\ expense'[x] = row
           /\ \A y \in Spent \ {x} : rows'[y] = rows[y] /\ expense'[y] = expense[y]
BY DEF Becomes, TypeOK

\* The transactions of a payment that comes in are those of it and its gateway, and
\* its charge is one withdrawal from the account it came in on.
LEMMA IncomingRefs ==
    ASSUME TypeOK, NEW a \in Open \cup {NoAccount}, NEW amount \in Amounts
    PROVE  /\ \A r \in Incoming(a, amount) :
                 /\ r.ref \in PaymentRefs
                 /\ r.ref = "gateway_charge" =>
                        /\ r = [ref |-> "gateway_charge", account |-> a, amount |-> -ChargeOn(a, amount)]
                        /\ ChargeOn(a, amount) > 0
           /\ ChargeOn(a, amount) > 0 =>
                  /\ [ref |-> "gateway_charge", account |-> a, amount |-> -ChargeOn(a, amount)]
                         \in Incoming(a, amount)
                  /\ a # NoAccount
<1> DEFINE charge == ChargeOn(a, amount)
           net == amount - charge
           into == config[a].into
           own == DepositIn("payment", a, amount)
           fee == Withdrawal("gateway_charge", a, charge)
           out == Withdrawal("gateway_settlement", a, net)
           in == DepositIn("gateway_settlement", into, net)
           row == [ref |-> "gateway_charge", account |-> a, amount |-> -charge]
<1>1. charge \in Nat
  BY ChargeType
<1>2. Incoming(a, amount) \subseteq own \cup fee \cup out \cup in
  BY DEF Incoming, SomethingOf
<1>3. /\ \A r \in own : r.ref = "payment"
      /\ \A r \in fee : r.ref = "gateway_charge" /\ r = row
      /\ \A r \in out : r.ref = "gateway_settlement"
      /\ \A r \in in : r.ref = "gateway_settlement"
  BY OneRow
<1>4. ASSUME NEW r \in Incoming(a, amount) PROVE r.amount # 0
  BY DEF Incoming, SomethingOf
<1>5. ASSUME charge > 0
      PROVE  row \in Incoming(a, amount) /\ a # NoAccount
  <2>1. a \in Gateways /\ config[a].on
    BY <1>5 DEF ChargeOn
  <2>2. a # NoAccount
    BY <2>1
  <2>3. row \in fee
    BY <2>2 DEF Withdrawal
  <2>4. fee \subseteq DepositIn("payment", a, amount) \cup
                    (IF a \in Gateways /\ config[a].on
                     THEN Withdrawal("gateway_charge", a, charge) \cup
                          (IF config[a].settles
                           THEN Withdrawal("gateway_settlement", a, net) \cup
                                DepositIn("gateway_settlement", config[a].into, net)
                           ELSE {})
                     ELSE {})
    BY <2>1
  <2>5. row.amount # 0
    BY <1>1, <1>5
  <2> QED
    BY <2>2, <2>3, <2>4, <2>5 DEF Incoming, SomethingOf
<1> HIDE DEF own, fee, out, in, charge
<1>6. ASSUME NEW r \in Incoming(a, amount)
      PROVE  /\ r.ref \in PaymentRefs
             /\ r.ref = "gateway_charge" => r = row /\ charge > 0
  <2>1. r.ref \in PaymentRefs /\ (r.ref = "gateway_charge" => r = row)
    BY <1>2, <1>3 DEF PaymentRefs
  <2>2. r = row => r.amount = -charge
    OBVIOUS
  <2> QED
    BY <1>1, <1>4, <2>1, <2>2
<1> QED
  BY <1>5, <1>6 DEF charge

\* What OwnRows and ChargeOnBooks say of x depends only on its rows and its expense.
LEMMA ChargesKeep ==
    ASSUME BooksInv, ChargesInv, Uses \cap {"editCharge", "handReference"} = {}, [Next]_vars
    PROVE  ChargesInv'
<1> SUFFICES /\ \A x \in Spent : OwnRows(x)'
             /\ \A p \in Payments : ChargeOnBooks(p)'
  BY DEF ChargesInv
<1>1. TypeOK
  BY DEF BooksInv
<1>2. ASSUME NEW y \in Spent, rows'[y] = rows[y], expense'[y] = expense[y]
      PROVE  OwnRows(y)' /\ (y \in Payments => ChargeOnBooks(y)')
  BY <1>2 DEF ChargesInv, OwnRows, ChargeOnBooks
<1>3. ASSUME NEW x \in Spent, NEW set, NEW row, Becomes(x, set, row),
             \A r \in set : IF x \in Payments THEN r.ref \in PaymentRefs ELSE r.ref = "expense",
             x \in Payments /\ row.state = "live" =>
                 row.pin # NoAccount /\ \E r \in set : r.ref = "gateway_charge" /\ r.account = row.pin
      PROVE  (\A y \in Spent : OwnRows(y)') /\ \A p \in Payments : ChargeOnBooks(p)'
  <2>1. rows'[x] = set /\ expense'[x] = row
    BY <1>1, <1>3, BecomesEffect
  <2>2. \A y \in Spent \ {x} : rows'[y] = rows[y] /\ expense'[y] = expense[y]
    BY <1>1, <1>3, BecomesEffect
  <2>3. OwnRows(x)' /\ (x \in Payments => ChargeOnBooks(x)')
    BY <1>3, <2>1 DEF OwnRows, ChargeOnBooks
  <2>4. \A y \in Spent : OwnRows(y)' /\ (y \in Payments => ChargeOnBooks(y)')
    BY <1>2, <2>2, <2>3
  <2> QED
    BY <2>4 DEF Spent
<1> DEFINE Goal == (\A x \in Spent : OwnRows(x)') /\ \A p \in Payments : ChargeOnBooks(p)'
<1>4. ASSUME NEW x, NEW a, NEW net, NEW row, EnteredStep(x, a, net, row) PROVE Goal
  <2>1. x \in Expenses /\ x \in Spent /\ x \notin Payments
        /\ Becomes(x, Withdrawal("expense", a, net), row)
    BY <1>4 DEF EnteredStep, Spent
  <2>2. \A r \in Withdrawal("expense", a, net) : r.ref = "expense"
    BY OneRow
  <2> QED
    BY <1>3, <2>1, <2>2
<1>5. ASSUME NEW x, NEW row, DroppedStep(x, row) PROVE Goal
  <2>1. row.state = "deleted" /\ x \in Spent /\ (Becomes(x, {}, row) \/ Becomes(x, rows[x], row))
    BY <1>5 DEF DroppedStep, Spent
  <2>2. \A r \in rows[x] : IF x \in Payments THEN r.ref \in PaymentRefs ELSE r.ref = "expense"
    BY <2>1 DEF ChargesInv, OwnRows
  <2> QED
    BY <1>3, <2>1, <2>2
<1>6. ASSUME NEW x, NEW row, TaxStep(x, row) PROVE Goal
  <2>1. x \in Spent /\ Becomes(x, rows[x], row) /\ row.state = expense[x].state /\ row.pin = expense[x].pin
    BY <1>6 DEF TaxStep
  <2>2. \A r \in rows[x] : IF x \in Payments THEN r.ref \in PaymentRefs ELSE r.ref = "expense"
    BY <2>1 DEF ChargesInv, OwnRows
  <2>3. x \in Payments /\ row.state = "live" =>
            row.pin # NoAccount /\ \E r \in rows[x] : r.ref = "gateway_charge" /\ r.account = row.pin
    BY <2>1 DEF ChargesInv, ChargeOnBooks
  <2> QED
    BY <1>3, <2>1, <2>2, <2>3
<1>7. ASSUME NEW p, NEW a, NEW amount, NEW row, PaidStep(p, a, amount, row) PROVE Goal
  <2>1. /\ p \in Payments /\ p \in Spent /\ a \in Open \cup {NoAccount} /\ amount \in Amounts
        /\ Becomes(p, Incoming(a, amount), row)
        /\ IF ChargeOn(a, amount) > 0 THEN row = ChargeBooked(a, amount) ELSE row.state # "live"
    BY <1>7 DEF PaidStep, Spent
  <2>2. \A r \in Incoming(a, amount) : r.ref \in PaymentRefs
    BY <1>1, <2>1, IncomingRefs
  <2>3. ASSUME row.state = "live"
        PROVE  /\ row.pin # NoAccount
               /\ \E r \in Incoming(a, amount) : r.ref = "gateway_charge" /\ r.account = row.pin
    <3> DEFINE r == [ref |-> "gateway_charge", account |-> a, amount |-> -ChargeOn(a, amount)]
    <3>1. ChargeOn(a, amount) > 0 /\ row = ChargeBooked(a, amount)
      BY <2>1, <2>3
    <3>2. r \in Incoming(a, amount) /\ a # NoAccount
      BY <1>1, <2>1, <3>1, IncomingRefs
    <3>3. row.pin = a
      BY <3>1 DEF ChargeBooked
    <3>4. r.ref = "gateway_charge" /\ r.account = a
      OBVIOUS
    <3> HIDE DEF r
    <3> QED
      BY <3>2, <3>3, <3>4
  <2> QED
    BY <1>3, <2>1, <2>2, <2>3
<1>8. ASSUME NEW p, NEW row, UnpaidStep(p, row) PROVE Goal
  <2>1. p \in Payments /\ p \in Spent /\ Becomes(p, {}, row) /\ row.state # "live"
    BY <1>8 DEF UnpaidStep, Spent
  <2> QED
    BY <1>3, <2>1
<1>9. ASSUME OtherStep PROVE Goal
  <2>1. CASE \A x \in Spent : rows'[x] = rows[x]
    BY <1>2, <1>9, <2>1 DEF OtherStep, Spent
  <2>2. ASSUME NEW a \in Accounts, \A x \in Spent : expense[x].pin # a,
               \A x \in Spent : rows'[x] = {r \in rows[x] : r.account # a}
        PROVE  Goal
    <3>1. UNCHANGED expense
      BY <1>9 DEF OtherStep
    <3>2. \A x \in Spent : OwnRows(x)'
      BY <2>2 DEF ChargesInv, OwnRows
    <3>3. ASSUME NEW p \in Payments PROVE ChargeOnBooks(p)'
      <4>1. p \in Spent
        BY DEF Spent
      <4>2. ChargeOnBooks(p) /\ expense[p].pin # a /\ rows'[p] = {r \in rows[p] : r.account # a}
        BY <2>2, <4>1 DEF ChargesInv
      <4> QED
        BY <3>1, <4>2 DEF ChargeOnBooks
    <3> QED
      BY <3>2, <3>3
  <2> QED
    BY <1>9, <2>1, <2>2 DEF OtherStep
<1> HIDE DEF Goal
<1>10. Goal
  BY <1>4, <1>5, <1>6, <1>7, <1>8, <1>9, StepKinds
<1> QED
  BY <1>10 DEF Goal

-----------------------------------------------------------------------------
(* Expenses are posted once.                                               *)

\* ExpensesPosted of one expense, or of one charge.
PostedRight(set, row) ==
    LET paid == {r \in set : r.ref \in {"expense", "gateway_charge"}}
    IN  IF row.state # "live" THEN paid = {}
        ELSE /\ \A r, s \in paid : r = s
             /\ \A r \in paid : /\ r.amount = row.tax - row.amount
                                /\ row.pin # NoAccount => r.account = row.pin
             /\ row.pin # NoAccount => paid # {}

LEMMA PostedRightly == ExpensesPosted <=> \A x \in Spent : PostedRight(rows[x], expense[x])
BY DEF ExpensesPosted, PostedRight

\* A withdrawal of what is left after tax is the posting of its expense.
LEMMA EnteredRight ==
    ASSUME NEW a, NEW net \in Nat, NEW row, row.state = "live", net = row.amount - row.tax,
           row.amount \in Nat, row.tax \in Nat, row.pin = a \/ row.pin = NoAccount
    PROVE  PostedRight(Withdrawal("expense", a, net), row)
<1> DEFINE set == Withdrawal("expense", a, net)
           r == [ref |-> "expense", account |-> a, amount |-> -net]
<1>1. -net = row.tax - row.amount
  OBVIOUS
<1>2. set = (IF a = NoAccount THEN {} ELSE {r})
  BY DEF Withdrawal
<1>3. r.ref = "expense" /\ r.account = a /\ r.amount = row.tax - row.amount
  BY <1>1
<1> HIDE DEF set, r
<1>4. PostedRight(set, row)
  <2>1. CASE a = NoAccount
    BY <1>2, <2>1 DEF PostedRight
  <2>2. CASE a # NoAccount
    BY <1>2, <1>3, <2>2 DEF PostedRight
  <2> QED
    BY <2>1, <2>2
<1> QED
  BY <1>4 DEF set

\* What comes in with a payment holds the posting of its charge.
LEMMA ChargeRight ==
    ASSUME TypeOK, NEW a \in Open \cup {NoAccount}, NEW amount \in Amounts, NEW row,
           IF ChargeOn(a, amount) > 0 THEN row = ChargeBooked(a, amount) ELSE row.state # "live"
    PROVE  PostedRight(Incoming(a, amount), row)
<1> DEFINE charge == ChargeOn(a, amount)
           q == [ref |-> "gateway_charge", account |-> a, amount |-> -charge]
           paid == {r \in Incoming(a, amount) : r.ref \in {"expense", "gateway_charge"}}
<1>1. charge \in Nat
  BY ChargeType
<1>2. \A r \in paid : r = q /\ charge > 0
  BY IncomingRefs DEF PaymentRefs
<1>3. charge > 0 => q \in paid /\ a # NoAccount
  <2>1. q.ref = "gateway_charge"
    OBVIOUS
  <2> QED
    BY <2>1, IncomingRefs
<1>4. charge > 0 => /\ row.state = "live" /\ row.amount = charge /\ row.tax = 0 /\ row.pin = a
  BY DEF ChargeBooked
<1>5. q.account = a /\ q.amount = -charge
  OBVIOUS
<1>6. ~(charge > 0) => row.state # "live"
  OBVIOUS
<1> HIDE DEF charge, q
<1>7. charge > 0 => q.amount = row.tax - row.amount
  BY <1>1, <1>4, <1>5
<1>8. CASE charge > 0
  BY <1>2, <1>3, <1>4, <1>5, <1>7, <1>8 DEF PostedRight
<1>9. CASE ~(charge > 0)
  BY <1>2, <1>6, <1>9 DEF PostedRight
<1> QED
  BY <1>8, <1>9

\* A step of the program keeps every expense and every charge posted right.
LEMMA ExpensesKeepPosted ==
    ASSUME BooksInv, ChargesInv, ExpensesPosted, Uses \subseteq {"deleteInUse"}, [Next]_vars
    PROVE  ExpensesPosted'
<1>1. /\ TypeOK /\ "editCharge" \notin Uses /\ "deleteCharge" \notin Uses
      /\ Uses \cap {"editCharge", "handReference"} = {}
  BY DEF BooksInv
<1>2. \A y \in Spent : PostedRight(rows[y], expense[y])
  BY PostedRightly
<1> DEFINE Goal == \A y \in Spent : PostedRight(rows'[y], expense'[y])
<1>3. ASSUME NEW x \in Spent, NEW set, NEW row, Becomes(x, set, row), PostedRight(set, row)
      PROVE  Goal
  <2>1. /\ rows'[x] = set /\ expense'[x] = row
        /\ \A y \in Spent \ {x} : rows'[y] = rows[y] /\ expense'[y] = expense[y]
    BY <1>1, <1>3, BecomesEffect
  <2>2. ASSUME NEW y \in Spent PROVE PostedRight(rows'[y], expense'[y])
    <3>1. CASE y = x
      BY <1>3, <2>1, <3>1
    <3>2. CASE y # x
      <4>1. rows'[y] = rows[y] /\ expense'[y] = expense[y]
        BY <2>1, <3>2
      <4> QED
        BY <1>2, <4>1
    <3> QED
      BY <3>1, <3>2
  <2> QED
    BY <2>2
<1>4. ASSUME NEW x, NEW a, NEW net, NEW row, EnteredStep(x, a, net, row) PROVE Goal
  <2>1. /\ x \in Spent /\ net \in Nat /\ Becomes(x, Withdrawal("expense", a, net), row)
        /\ row.state = "live" /\ net = row.amount - row.tax /\ row.amount \in Nat /\ row.tax \in Nat
        /\ row.pin = a \/ row.pin = NoAccount
    BY <1>4 DEF EnteredStep, Spent
  <2>2. PostedRight(Withdrawal("expense", a, net), row)
    BY <2>1, EnteredRight
  <2> QED
    BY <1>3, <2>1, <2>2
<1>5. ASSUME NEW x, NEW row, DroppedStep(x, row) PROVE Goal
  <2>1. row.state = "deleted" /\ x \in Spent /\ Becomes(x, {}, row)
    BY <1>1, <1>5 DEF DroppedStep, Spent
  <2>2. PostedRight({}, row)
    BY <2>1 DEF PostedRight
  <2> QED
    BY <1>3, <2>1, <2>2
<1>6. ASSUME NEW x, NEW row, TaxStep(x, row) PROVE Goal
  <2>1. /\ x \in Spent /\ Becomes(x, rows[x], row)
        /\ row.state = expense[x].state /\ row.amount = expense[x].amount
        /\ row.tax = expense[x].tax /\ row.pin = expense[x].pin
    BY <1>6 DEF TaxStep
  <2>2. PostedRight(rows[x], expense[x])
    BY <1>2, <2>1
  <2>3. PostedRight(rows[x], row)
    BY <2>1, <2>2 DEF PostedRight
  <2> QED
    BY <1>3, <2>1, <2>3
<1>7. ASSUME NEW p, NEW a, NEW amount, NEW row, PaidStep(p, a, amount, row) PROVE Goal
  <2>1. /\ p \in Spent /\ a \in Open \cup {NoAccount} /\ amount \in Amounts
        /\ Becomes(p, Incoming(a, amount), row)
        /\ IF ChargeOn(a, amount) > 0 THEN row = ChargeBooked(a, amount) ELSE row.state # "live"
    BY <1>7 DEF PaidStep, Spent
  <2>2. PostedRight(Incoming(a, amount), row)
    BY <1>1, <2>1, ChargeRight
  <2> QED
    BY <1>3, <2>1, <2>2
<1>8. ASSUME NEW p, NEW row, UnpaidStep(p, row) PROVE Goal
  <2>1. p \in Spent /\ Becomes(p, {}, row) /\ row.state # "live"
    BY <1>8 DEF UnpaidStep, Spent
  <2>2. PostedRight({}, row)
    BY <2>1 DEF PostedRight
  <2> QED
    BY <1>3, <2>1, <2>2
<1>9. ASSUME OtherStep PROVE Goal
  <2>1. expense' = expense
    BY <1>9 DEF OtherStep
  <2>2. CASE \A x \in Spent : rows'[x] = rows[x]
    BY <1>2, <2>1, <2>2
  <2>3. ASSUME NEW a \in Accounts, \A x \in Spent : expense[x].pin # a,
               \A x \in Spent : rows'[x] = {r \in rows[x] : r.account # a}
        PROVE  Goal
    <3> SUFFICES ASSUME NEW y \in Spent PROVE PostedRight(rows'[y], expense[y])
      BY <2>1
    <3>1. PostedRight(rows[y], expense[y]) /\ expense[y].pin # a
      BY <1>2, <2>3
    <3>2. rows'[y] = {r \in rows[y] : r.account # a}
      BY <2>3
    <3> QED
      BY <3>1, <3>2 DEF PostedRight
  <2> QED
    BY <1>9, <2>2, <2>3 DEF OtherStep
<1> HIDE DEF Goal
<1>10. Goal
  BY <1>1, <1>4, <1>5, <1>6, <1>7, <1>8, <1>9, StepKinds
<1> QED
  BY <1>10 DEF Goal, ExpensesPosted, PostedRight

\* A live expense, the charge of a gateway included, is posted once, net of its tax and
\* on the account that it is pinned to, and a deleted one is not posted, also while
\* accounts are deleted: of what is not meant to happen, only what is posted to an
\* account that is being deleted may happen.
THEOREM ExpensesArePosted ==
    ASSUME Uses \subseteq {"deleteInUse"}
    PROVE  Spec => []ExpensesPosted
<1> DEFINE Inv == BooksInv /\ ChargesInv /\ ExpensesPosted
<1>1. Init => Inv
  <2> SUFFICES ASSUME Init PROVE Inv
    OBVIOUS
  <2>1. BooksInv
    BY InitBooks
  <2>2. \A x \in Spent : rows[x] = {} /\ expense[x].state = "none"
    BY DEF Init, NoExpense
  <2>3. ChargesInv
    BY <2>2 DEF ChargesInv, OwnRows, ChargeOnBooks, Spent
  <2>4. \A x \in Spent : PostedRight(rows[x], expense[x])
    BY <2>2 DEF PostedRight
  <2> QED
    BY <2>1, <2>3, <2>4, PostedRightly
<1>2. Inv /\ [Next]_vars => Inv'
  <2>1. Uses \cap {"editCharge", "handReference"} = {} /\ "handReference" \notin Uses
    OBVIOUS
  <2> QED
    BY <2>1, NextKeeps, StutterKeeps, ChargesKeep, ExpensesKeepPosted
<1>3. Inv => ExpensesPosted
  OBVIOUS
<1> QED
  BY <1>1, <1>2, <1>3, PTL DEF Spec

-----------------------------------------------------------------------------
(* Payments are posted once.                                               *)

\* What is posted of one amount, if it is something: a deposit when it is positive, a
\* withdrawal when it is not.
Posting(ref, a, amount) == SomethingOf(DepositIn(ref, a, amount))

LEMMA WithdrawalPosted ==
    ASSUME NEW ref, NEW a, NEW amount \in Int
    PROVE  SomethingOf(Withdrawal(ref, a, amount)) = Posting(ref, a, -amount)
BY DEF Withdrawal, DepositIn, Posting

\* It moves its amount on its account, and nothing on any other.
LEMMA PostingMoves ==
    ASSUME NEW ref \in Refs, NEW a \in Accounts, NEW amount \in Int
    PROVE  /\ Posting(ref, a, amount) \in SUBSET Row /\ IsFiniteSet(Posting(ref, a, amount))
           /\ \A r \in Posting(ref, a, amount) :
                 r.account = a /\ r.ref = ref /\ r.amount = amount /\ amount # 0
           /\ amount # 0 => \E r \in Posting(ref, a, amount) : r.account = a
           /\ Moved(Posting(ref, a, amount), a) = amount
           /\ \A b : b # a => Moved(Posting(ref, a, amount), b) = 0
<1> DEFINE set == Posting(ref, a, amount)
           r == [ref |-> ref, account |-> a, amount |-> amount]
<1>1. a # NoAccount /\ r.account = a /\ r.ref = ref /\ r.amount = amount
  OBVIOUS
<1>2. set = (IF amount = 0 THEN {} ELSE {r})
  BY <1>1 DEF Posting, DepositIn, SomethingOf
<1>3. amount # 0 => r \in Row
  BY DEF Row, Refs
<1> HIDE DEF set, r
<1>4. set \in SUBSET Row /\ IsFiniteSet(set)
  BY <1>2, <1>3, FS_EmptySet, FS_Singleton
<1>5. /\ \A q \in set : q.account = a /\ q.ref = ref /\ q.amount = amount /\ amount # 0
      /\ amount # 0 => \E q \in set : q.account = a
  BY <1>1, <1>2
<1>6. ASSUME NEW b, b # a PROVE Moved(set, b) = 0
  BY <1>4, <1>5, <1>6, MovedElsewhere
<1>7. Moved(set, a) = amount
  <2> DEFINE f == [q \in InTo(set, a) |-> q.amount]
             g == [q \in OutOf(set, a) |-> -q.amount]
  <2>1. f \in [InTo(set, a) -> Nat] /\ g \in [OutOf(set, a) -> Nat]
    BY <1>4, MovedType
  <2>2. Moved(set, a) = TotalOf(f) - TotalOf(g)
    BY DEF Moved, Brought, Gone, InTo, OutOf
  <2>3. CASE amount = 0
    <3>1. set = {}
      BY <1>2, <2>3
    <3>2. \A q \in set : q.account # a
      BY <3>1
    <3> QED
      BY <1>4, <2>3, <3>2, MovedElsewhere
  <2>4. CASE amount > 0
    <3>1. InTo(set, a) = {r} /\ OutOf(set, a) = {}
      BY <1>1, <1>2, <2>4 DEF InTo, OutOf
    <3>2. f[r] = amount
      BY <1>1, <3>1
    <3> HIDE DEF f, g
    <3>3. f \in [{r} -> Nat] /\ g \in [{} -> Nat]
      BY <2>1, <3>1
    <3>4. TotalOf(f) = amount
      BY <3>2, <3>3, TotalOfOne
    <3>5. TotalOf(g) = 0
      BY <3>3, TotalOfZeroes
    <3> QED
      BY <2>2, <3>4, <3>5
  <2>5. CASE amount < 0
    <3>1. InTo(set, a) = {} /\ OutOf(set, a) = {r}
      BY <1>1, <1>2, <2>5 DEF InTo, OutOf
    <3>2. g[r] = -amount
      BY <1>1, <3>1
    <3> HIDE DEF f, g
    <3>3. f \in [{} -> Nat] /\ g \in [{r} -> Nat]
      BY <2>1, <3>1
    <3>4. TotalOf(g) = -amount
      BY <3>2, <3>3, TotalOfOne
    <3>5. TotalOf(f) = 0
      BY <3>3, TotalOfZeroes
    <3> QED
      BY <2>2, <3>4, <3>5
  <2> QED
    BY <2>3, <2>4, <2>5
<1> QED
  BY <1>4, <1>5, <1>6, <1>7 DEF set

\* Sets that share no transaction move together what each of them moves.
LEMMA MovedTogether ==
    ASSUME NEW S \in SUBSET Row, IsFiniteSet(S), NEW T \in SUBSET Row, IsFiniteSet(T),
           S \cap T = {}, NEW a
    PROVE  /\ S \cup T \in SUBSET Row /\ IsFiniteSet(S \cup T)
           /\ Moved(S \cup T, a) = Moved(S, a) + Moved(T, a)
<1>1. S \cup T \in SUBSET Row /\ IsFiniteSet(S \cup T)
  BY FS_Union
<1>2. /\ Brought(S \cup T, a) = Brought(S, a) + Brought(T, a)
      /\ Gone(S \cup T, a) = Gone(S, a) + Gone(T, a)
  BY MovedUnion
<1>3. /\ Brought(S, a) \in Nat /\ Gone(S, a) \in Nat
      /\ Brought(T, a) \in Nat /\ Gone(T, a) \in Nat
  BY MovedType
<1> QED
  BY <1>1, <1>2, <1>3 DEF Moved

\* A gateway that is configured settles into an account that is not a gateway.
SettlesElsewhere == \A g \in Gateways : config[g].on => config[g].into \in Accounts \ Gateways

\* What is left of a payment on the accounts when all that was posted for it is the set.
LeavesInFull(set, a, left) ==
    LET on == {r.account : r \in set}
    IN  \/ on = {a} /\ Moved(set, a) = left
        \/ \E b \in on : on = {a, b} /\ b # a /\ Moved(set, b) = left /\ Moved(set, a) = 0

\* Of a payment that comes in, all but the charge is left: on the account it came in
\* on, or on the one that the gateway settles into.
LEMMA IncomingLeaves ==
    ASSUME TypeOK, SettlesElsewhere, NEW a \in Accounts, NEW amount \in Amounts
    PROVE  LeavesInFull(Incoming(a, amount), a, amount - ChargeOn(a, amount))
<1> DEFINE charge == ChargeOn(a, amount)
           net == amount - charge
           into == config[a].into
           own == Posting("payment", a, amount)
           fee == Posting("gateway_charge", a, -charge)
           out == Posting("gateway_settlement", a, -net)
           in == Posting("gateway_settlement", into, net)
           set == Incoming(a, amount)
<1>1. a \in Open \cup {NoAccount} \/ a \in Accounts
  OBVIOUS
<1>2. charge \in Nat /\ net \in Nat /\ amount \in Nat \ {0}
      /\ -charge \in Int /\ -net \in Int /\ amount \in Int /\ charge \in Int /\ net \in Int
  <2>1. charge \in Nat /\ net \in Nat /\ amount \in Nat \ {0}
    BY ChargeType
  <2> HIDE DEF charge, net
  <2> QED
    BY <2>1
<1>3. /\ SomethingOf(Withdrawal("gateway_charge", a, charge)) = fee
      /\ SomethingOf(Withdrawal("gateway_settlement", a, net)) = out
  BY <1>2, WithdrawalPosted
<1>4. \A S, T : SomethingOf(S \cup T) = SomethingOf(S) \cup SomethingOf(T)
  BY DEF SomethingOf
<1>5. SomethingOf({}) = {}
  BY DEF SomethingOf
<1>6. set = own \cup (IF a \in Gateways /\ config[a].on
                      THEN fee \cup (IF config[a].settles THEN out \cup in ELSE {})
                      ELSE {})
  <2>1. set = own \cup SomethingOf(
                     (IF a \in Gateways /\ config[a].on
                      THEN Withdrawal("gateway_charge", a, charge) \cup
                           (IF config[a].settles
                            THEN Withdrawal("gateway_settlement", a, net) \cup
                                 DepositIn("gateway_settlement", config[a].into, net)
                            ELSE {})
                      ELSE {}))
    BY <1>4 DEF Incoming, Posting
  <2>2. CASE ~(a \in Gateways /\ config[a].on)
    BY <1>5, <2>1, <2>2
  <2>3. CASE a \in Gateways /\ config[a].on /\ ~config[a].settles
    <3>1. set = own \cup SomethingOf(Withdrawal("gateway_charge", a, charge) \cup {})
      BY <2>1, <2>3
    <3>2. SomethingOf(Withdrawal("gateway_charge", a, charge) \cup {}) = fee \cup {}
      BY <1>3, <1>4, <1>5
    <3> QED
      BY <2>3, <3>1, <3>2
  <2>4. CASE a \in Gateways /\ config[a].on /\ config[a].settles
    <3> DEFINE moved == Withdrawal("gateway_settlement", a, net) \cup
                        DepositIn("gateway_settlement", into, net)
    <3>1. set = own \cup SomethingOf(Withdrawal("gateway_charge", a, charge) \cup moved)
      BY <2>1, <2>4
    <3>2. SomethingOf(moved) = out \cup in
      BY <1>3, <1>4 DEF Posting
    <3> HIDE DEF moved
    <3>3. SomethingOf(Withdrawal("gateway_charge", a, charge) \cup moved) = fee \cup (out \cup in)
      BY <1>3, <1>4, <3>2
    <3> QED
      BY <2>4, <3>1, <3>3
  <2> QED
    BY <2>2, <2>3, <2>4
<1>7. "payment" \in Refs /\ "gateway_charge" \in Refs /\ "gateway_settlement" \in Refs
  BY DEF Refs
<1>8. /\ own \in SUBSET Row /\ IsFiniteSet(own) /\ \A r \in own : r.account = a /\ r.ref = "payment"
      /\ \E r \in own : r.account = a
      /\ Moved(own, a) = amount /\ \A b : b # a => Moved(own, b) = 0
  BY <1>2, <1>7, PostingMoves
<1>9. /\ fee \in SUBSET Row /\ IsFiniteSet(fee)
      /\ \A r \in fee : r.account = a /\ r.ref = "gateway_charge"
      /\ Moved(fee, a) = -charge /\ \A b : b # a => Moved(fee, b) = 0
  BY <1>2, <1>7, PostingMoves
<1>10. /\ out \in SUBSET Row /\ IsFiniteSet(out)
       /\ \A r \in out : r.account = a /\ r.ref = "gateway_settlement" /\ net # 0
       /\ Moved(out, a) = -net /\ \A b : b # a => Moved(out, b) = 0
  BY <1>2, <1>7, PostingMoves
<1>11. into \in Accounts =>
           /\ in \in SUBSET Row /\ IsFiniteSet(in)
           /\ \A r \in in : r.account = into /\ r.ref = "gateway_settlement" /\ net # 0
           /\ net # 0 => \E r \in in : r.account = into
           /\ Moved(in, into) = net /\ \A b : b # into => Moved(in, b) = 0
  BY <1>2, <1>7, PostingMoves
<1>12. ~(a \in Gateways /\ config[a].on) => charge = 0
  BY DEF ChargeOn
<1>13. a \in Gateways /\ config[a].on => into \in Accounts /\ into # a
  BY DEF SettlesElsewhere
<1> HIDE DEF charge, net, into, own, fee, out, in, set
<1>14. net = amount - charge
  BY DEF net
<1>15. CASE ~(a \in Gateways /\ config[a].on)
  <2>1. set = own \cup {}
    BY <1>6, <1>15
  <2>2. set = own
    BY <2>1
  <2>3. {r.account : r \in own} = {a}
    BY <1>8
  <2>4. net = amount
    BY <1>2, <1>12, <1>14, <1>15
  <2>5. LeavesInFull(own, a, net)
    BY <1>8, <2>3, <2>4 DEF LeavesInFull
  <2> QED
    BY <2>2, <2>5 DEF set, net, charge
<1>16. own \cap fee = {}
  BY <1>8, <1>9
<1> DEFINE both == own \cup fee
<1>17. /\ both \in SUBSET Row /\ IsFiniteSet(both) /\ \A r \in both : r.account = a
       /\ \E r \in both : r.account = a
       /\ Moved(both, a) = net /\ \A b : b # a => Moved(both, b) = 0
       /\ \A r \in both : r.ref # "gateway_settlement"
  <2>1. /\ both \in SUBSET Row /\ IsFiniteSet(both)
        /\ \A b : Moved(both, b) = Moved(own, b) + Moved(fee, b)
    <3>1. both \in SUBSET Row /\ IsFiniteSet(both)
      BY <1>8, <1>9, <1>16, MovedTogether
    <3>2. ASSUME NEW b PROVE Moved(both, b) = Moved(own, b) + Moved(fee, b)
      <4>1. own \in SUBSET Row /\ IsFiniteSet(own) /\ fee \in SUBSET Row /\ IsFiniteSet(fee)
        BY <1>8, <1>9
      <4> QED
        BY <1>16, <4>1, MovedTogether
    <3> QED
      BY <3>1, <3>2
  <2>2. Moved(both, a) = amount + (-charge)
    BY <1>8, <1>9, <2>1
  <2>3. Moved(both, a) = net
    BY <1>2, <1>14, <2>2
  <2>4. ASSUME NEW b, b # a PROVE Moved(both, b) = 0
    <3>1. Moved(own, b) = 0 /\ Moved(fee, b) = 0
      BY <1>8, <1>9, <2>4
    <3> QED
      BY <2>1, <3>1
  <2> QED
    BY <1>8, <1>9, <2>1, <2>3, <2>4
<1> HIDE DEF both
<1>18. CASE a \in Gateways /\ config[a].on /\ ~config[a].settles
  <2>1. set = own \cup (fee \cup {})
    BY <1>6, <1>18
  <2>2. set = both
    BY <2>1 DEF both
  <2>3. {r.account : r \in both} = {a}
    BY <1>17
  <2>4. LeavesInFull(both, a, net)
    BY <1>17, <2>3 DEF LeavesInFull
  <2> QED
    BY <2>2, <2>4 DEF set, net, charge
<1>19. CASE a \in Gateways /\ config[a].on /\ config[a].settles
  <2>1. set = own \cup (fee \cup (out \cup in))
    BY <1>6, <1>19
  <2>2. set = both \cup (out \cup in)
    BY <2>1 DEF both
  <2>3. into \in Accounts /\ into # a
    BY <1>13, <1>19
  <2>4. out \cap in = {} /\ both \cap (out \cup in) = {}
    BY <1>10, <1>11, <1>17, <2>3
  <2>5. /\ out \cup in \in SUBSET Row /\ IsFiniteSet(out \cup in)
        /\ \A b : Moved(out \cup in, b) = Moved(out, b) + Moved(in, b)
    <3>1. in \in SUBSET Row /\ IsFiniteSet(in) /\ out \in SUBSET Row /\ IsFiniteSet(out)
      BY <1>10, <1>11, <2>3
    <3>2. out \cup in \in SUBSET Row /\ IsFiniteSet(out \cup in)
      BY <2>4, <3>1, MovedTogether
    <3>3. ASSUME NEW b PROVE Moved(out \cup in, b) = Moved(out, b) + Moved(in, b)
      BY <2>4, <3>1, MovedTogether
    <3> QED
      BY <3>2, <3>3
  <2>6. \A b : Moved(both \cup (out \cup in), b) = Moved(both, b) + Moved(out \cup in, b)
    BY <1>17, <2>4, <2>5, MovedTogether
  <2>7. \A b : Moved(set, b) = Moved(both, b) + Moved(out \cup in, b)
    BY <2>2, <2>6, Zenon
  <2>8. Moved(out \cup in, a) = -net
    <3>1. Moved(out, a) = -net /\ Moved(in, a) = 0
      BY <1>10, <1>11, <2>3
    <3> QED
      BY <1>2, <2>5, <3>1
  <2>9. Moved(out \cup in, into) = net
    <3>1. Moved(out, into) = 0 /\ Moved(in, into) = net
      BY <1>10, <1>11, <2>3
    <3>2. Moved(out \cup in, into) = Moved(out, into) + Moved(in, into)
      BY <2>5
    <3>3. Moved(out \cup in, into) = 0 + net
      BY <3>1, <3>2, Zenon
    <3> QED
      BY <1>2, <3>3
  <2>10. Moved(set, a) = 0 /\ Moved(set, into) = net
    <3>1. Moved(both, a) = net /\ Moved(both, into) = 0
      BY <1>17, <2>3
    <3> QED
      BY <1>2, <2>7, <2>8, <2>9, <3>1
  <2>11. CASE net = 0
    <3>1. out = {} /\ in = {}
      <4>2. \A r \in out : FALSE
        BY <1>10, <2>11
      <4>3. \A r \in in : FALSE
        BY <1>11, <2>3, <2>11
      <4> QED
        BY <4>2, <4>3
    <3>2. {r.account : r \in set} = {a}
      BY <1>17, <2>2, <3>1
    <3>3. LeavesInFull(set, a, net)
      BY <2>10, <2>11, <3>2 DEF LeavesInFull
    <3> QED
      BY <3>3 DEF set, net, charge
  <2>12. CASE net # 0
    <3>1. {r.account : r \in set} = {a, into}
      BY <1>10, <1>11, <1>17, <2>2, <2>3, <2>12
    <3>2. LeavesInFull(set, a, net)
      BY <2>3, <2>10, <3>1 DEF LeavesInFull
    <3> QED
      BY <3>2 DEF set, net, charge
  <2> QED
    BY <2>11, <2>12
<1> QED
  BY <1>15, <1>18, <1>19

\* PaymentsPosted of one payment: its transactions, its row, and the row of its charge.
PaidRight(set, row, booked) ==
    LET charge == IF booked.state = "live" THEN booked.amount ELSE 0
    IN  IF row.state # "live" \/ row.account = NoAccount
        THEN set = {} /\ charge = 0
        ELSE LeavesInFull(set, row.account, row.amount - charge)

LEMMA PaidRightly ==
    PaymentsPosted <=> \A p \in Payments : PaidRight(rows[p], payment[p], expense[p])
BY DEF PaymentsPosted, PaidRight, LeavesInFull

\* A payment that comes in or is edited is posted right, with the charge it is booked
\* with then.
LEMMA PaidStepRight ==
    ASSUME TypeOK, SettlesElsewhere, RefersToOpen, NEW a \in Open \cup {NoAccount},
           NEW amount \in Amounts, NEW paid, NEW row,
           paid.state = "live" /\ paid.amount = amount /\ paid.account = a,
           IF ChargeOn(a, amount) > 0 THEN row = ChargeBooked(a, amount) ELSE row.state # "live"
    PROVE  PaidRight(Incoming(a, amount), paid, row)
<1>1. ChargeOn(a, amount) \in Nat
  BY ChargeType
<1>2. (IF row.state = "live" THEN row.amount ELSE 0) = ChargeOn(a, amount)
  <2>1. ChargeBooked(a, amount).state = "live" => ChargeBooked(a, amount).amount = ChargeOn(a, amount)
    BY DEF ChargeBooked, NoExpense
  <2>2. ChargeOn(a, amount) > 0 => ChargeBooked(a, amount).state = "live"
    BY DEF ChargeBooked
  <2> QED
    BY <1>1, <2>1, <2>2
<1>3. CASE a = NoAccount
  <2>1. Incoming(a, amount) = {}
    BY <1>3, IncomingType
  <2>2. ChargeOn(a, amount) = 0
    BY <1>3 DEF ChargeOn
  <2> QED
    BY <1>2, <1>3, <2>1, <2>2 DEF PaidRight
<1>4. CASE a # NoAccount
  <2>1. a \in Accounts
    BY <1>4 DEF Open
  <2>2. LeavesInFull(Incoming(a, amount), a, amount - ChargeOn(a, amount))
    BY <2>1, IncomingLeaves
  <2> QED
    BY <1>2, <1>4, <2>2 DEF PaidRight
<1> QED
  BY <1>3, <1>4

\* No step configures a gateway to settle into a gateway.
LEMMA SettlesKeep ==
    ASSUME BooksInv, SettlesElsewhere, [Next]_vars
    PROVE  SettlesElsewhere'
<1>1. config \in [Gateways -> Config]
  BY DEF BooksInv, TypeOK
<1>2. ASSUME UNCHANGED config PROVE SettlesElsewhere'
  BY <1>2 DEF SettlesElsewhere
<1>3. ASSUME NEW g \in Gateways, NEW fee \in Fees, NEW into \in Accounts, NEW settles \in BOOLEAN,
             SetConfig(g, fee, into, settles)
      PROVE  SettlesElsewhere'
  <2> DEFINE c == [on |-> TRUE, settles |-> settles, fee |-> fee, into |-> into]
  <2>1. config' = [config EXCEPT ![g] = c] /\ into \in Accounts \ Gateways /\ c.into = into
    BY <1>3 DEF SetConfig, Open
  <2> HIDE DEF c
  <2> QED
    BY <1>1, <2>1 DEF SettlesElsewhere
<1>4. ASSUME NEW g \in Gateways, DropConfig(g) PROVE SettlesElsewhere'
  <2>1. config' = [config EXCEPT ![g] = NoConfig] /\ NoConfig.on = FALSE
    BY <1>4 DEF DropConfig, NoConfig
  <2> QED
    BY <1>1, <2>1 DEF SettlesElsewhere
<1>5. ASSUME NEW a \in Accounts, DeleteAccount(a) PROVE SettlesElsewhere'
  <2>1. UNCHANGED config \/ config' = [g \in Gateways |-> IF g = a THEN NoConfig ELSE config[g]]
    BY <1>5 DEF DeleteAccount
  <2>2. NoConfig.on = FALSE
    BY DEF NoConfig
  <2> QED
    BY <1>2, <2>1, <2>2 DEF SettlesElsewhere
<1>6. CASE ExpenseNext
  <2>1. \A x, a, pin, amount, tax : CreateExpense(x, a, pin, amount, tax) => UNCHANGED config
    BY DEF CreateExpense
  <2>2. \A x, a, amount, tax : ExpenseFromLine(x, a, amount, tax) => UNCHANGED config
    BY DEF ExpenseFromLine
  <2>3. \A x, a, pin, amount, tax : EditExpense(x, a, pin, amount, tax) => UNCHANGED config
    BY DEF EditExpense
  <2>4. \A x : DeleteExpense(x) \/ DepositTax(x) \/ RemoveChallan(x) => UNCHANGED config
    BY DEF DeleteExpense, DepositTax, RemoveChallan
  <2> QED
    BY <1>2, <1>6, <2>1, <2>2, <2>3, <2>4 DEF ExpenseNext
<1>7. CASE PaymentNext
  BY <1>2, <1>7 DEF PaymentNext, Receive, EditPayment, DeletePayment
<1>8. CASE AccountNext
  BY <1>2, <1>3, <1>4, <1>5, <1>8 DEF AccountNext, CreateAccount, SetOpening, CountRows,
                                      AddTransaction, Transfer
<1>9. CASE UNCHANGED vars
  BY <1>2, <1>9 DEF vars
<1> QED
  BY <1>6, <1>7, <1>8, <1>9 DEF Next

\* A step of the program keeps every payment posted right.
LEMMA PaymentsKeepPosted ==
    ASSUME BooksInv, ChargesInv, SettlesElsewhere, PaymentsPosted,
           Uses \subseteq {"editDeleted", "taxOnLine"}, [Next]_vars
    PROVE  PaymentsPosted'
<1>1. TypeOK /\ RefersToOpen
      /\ "editCharge" \notin Uses /\ "deleteCharge" \notin Uses /\ "deleteInUse" \notin Uses
      /\ Uses \cap {"editCharge", "handReference"} = {}
  BY DEF BooksInv
<1>2. \A p \in Payments : PaidRight(rows[p], payment[p], expense[p])
  BY PaidRightly
<1> DEFINE Goal == \A p \in Payments : PaidRight(rows'[p], payment'[p], expense'[p])
<1>3. Payments \subseteq Spent /\ payment = [p \in Payments |-> payment[p]]
  BY DEF Spent, BooksInv, TypeOK
<1>4. ASSUME NEW x \in Expenses, NEW set, NEW row, Becomes(x, set, row), UNCHANGED payment
      PROVE  Goal
  <2>1. \A p \in Payments : rows'[p] = rows[p] /\ expense'[p] = expense[p]
    BY <1>1, <1>4, BecomesEffect DEF Spent
  <2> QED
    BY <1>2, <1>4, <2>1
<1>5. ASSUME NEW q \in Payments, NEW set, NEW row, NEW paid, Becomes(q, set, row),
             payment' = [payment EXCEPT ![q] = paid], PaidRight(set, paid, row)
      PROVE  Goal
  <2>1. /\ rows'[q] = set /\ expense'[q] = row /\ payment'[q] = paid
        /\ \A p \in Payments \ {q} : /\ rows'[p] = rows[p] /\ expense'[p] = expense[p]
                                     /\ payment'[p] = payment[p]
    BY <1>1, <1>3, <1>5, BecomesEffect
  <2>2. ASSUME NEW p \in Payments PROVE PaidRight(rows'[p], payment'[p], expense'[p])
    <3>1. CASE p = q
      BY <1>5, <2>1, <3>1
    <3>2. CASE p # q
      <4>1. rows'[p] = rows[p] /\ expense'[p] = expense[p] /\ payment'[p] = payment[p]
        BY <2>1, <3>2
      <4> QED
        BY <1>2, <4>1
    <3> QED
      BY <3>1, <3>2
  <2> QED
    BY <2>2
<1>6. ASSUME NEW x, NEW a, NEW net, NEW row, EnteredStep(x, a, net, row) PROVE Goal
  BY <1>4, <1>6 DEF EnteredStep
<1>7. ASSUME NEW x, NEW row, DroppedStep(x, row) PROVE Goal
  BY <1>1, <1>4, <1>7 DEF DroppedStep
<1>8. ASSUME NEW x, NEW row, TaxStep(x, row) PROVE Goal
  <2>1. /\ x \in Spent /\ Becomes(x, rows[x], row) /\ UNCHANGED payment
        /\ row.state = expense[x].state /\ row.amount = expense[x].amount
    BY <1>8 DEF TaxStep
  <2>2. CASE x \in Expenses
    BY <1>4, <2>1, <2>2
  <2>3. CASE x \in Payments
    <3>1. payment' = [payment EXCEPT ![x] = payment[x]]
      BY <1>3, <2>1
    <3>2. PaidRight(rows[x], payment[x], expense[x])
      BY <1>2, <2>3
    <3>3. PaidRight(rows[x], payment[x], row)
      BY <2>1, <3>2 DEF PaidRight
    <3> QED
      BY <1>5, <2>1, <2>3, <3>1, <3>3
  <2> QED
    BY <2>1, <2>2, <2>3 DEF Spent
<1>9. ASSUME NEW p, NEW a, NEW amount, NEW row, PaidStep(p, a, amount, row) PROVE Goal
  <2>1. PICK paid : /\ payment' = [payment EXCEPT ![p] = paid]
                    /\ paid.state = "live" /\ paid.amount = amount /\ paid.account = a
    BY <1>9 DEF PaidStep
  <2>2. /\ p \in Payments /\ a \in Open \cup {NoAccount} /\ amount \in Amounts
        /\ Becomes(p, Incoming(a, amount), row)
        /\ IF ChargeOn(a, amount) > 0 THEN row = ChargeBooked(a, amount) ELSE row.state # "live"
    BY <1>9 DEF PaidStep
  <2>3. PaidRight(Incoming(a, amount), paid, row)
    BY <1>1, <2>1, <2>2, PaidStepRight
  <2> QED
    BY <1>5, <2>1, <2>2, <2>3
<1>10. ASSUME NEW p, NEW row, UnpaidStep(p, row) PROVE Goal
  <2>1. PICK paid : payment' = [payment EXCEPT ![p] = paid] /\ paid.state = "deleted"
    BY <1>10 DEF UnpaidStep
  <2>2. p \in Payments /\ Becomes(p, {}, row) /\ row.state # "live"
    BY <1>10 DEF UnpaidStep
  <2>3. PaidRight({}, paid, row)
    BY <2>1, <2>2 DEF PaidRight
  <2> QED
    BY <1>5, <2>1, <2>2, <2>3
<1>11. ASSUME OtherStep PROVE Goal
  <2>1. UNCHANGED <<expense, payment>> /\ \A p \in Payments : rows'[p] = rows[p]
    BY <1>1, <1>3, <1>11 DEF OtherStep
  <2> QED
    BY <1>2, <2>1
<1> HIDE DEF Goal
<1>12. Goal
  BY <1>1, <1>6, <1>7, <1>8, <1>9, <1>10, <1>11, StepKinds
<1> QED
  BY <1>12 DEF Goal, PaymentsPosted, PaidRight, LeavesInFull

\* What a live payment brought is on the accounts in full, but for the charge that is
\* booked as its expense, and nothing is left of a deleted one, however the gateway was
\* configured when it was received and is by then: of what is not meant to happen, an
\* expense that was deleted may be edited, and one with tax entered from a bank line.
THEOREM PaymentsArePosted ==
    ASSUME Uses \subseteq {"editDeleted", "taxOnLine"}
    PROVE  Spec => []PaymentsPosted
<1> DEFINE Inv == BooksInv /\ ChargesInv /\ SettlesElsewhere /\ PaymentsPosted
<1>1. Init => Inv
  <2> SUFFICES ASSUME Init PROVE Inv
    OBVIOUS
  <2>1. BooksInv
    BY InitBooks
  <2>2. \A x \in Spent : rows[x] = {} /\ expense[x].state = "none"
    BY DEF Init, NoExpense
  <2>3. ChargesInv
    BY <2>2 DEF ChargesInv, OwnRows, ChargeOnBooks, Spent
  <2>4. SettlesElsewhere
    BY DEF Init, SettlesElsewhere, NoConfig
  <2>5. \A p \in Payments : payment[p].state = "none"
    BY DEF Init
  <2>6. \A p \in Payments : PaidRight(rows[p], payment[p], expense[p])
    BY <2>2, <2>5 DEF PaidRight, Spent
  <2> QED
    BY <2>1, <2>3, <2>4, <2>6, PaidRightly
<1>2. Inv /\ [Next]_vars => Inv'
  <2>1. Uses \cap {"editCharge", "handReference"} = {} /\ "handReference" \notin Uses
    OBVIOUS
  <2> QED
    BY <2>1, NextKeeps, StutterKeeps, ChargesKeep, SettlesKeep, PaymentsKeepPosted
<1>3. Inv => PaymentsPosted
  OBVIOUS
<1> QED
  BY <1>1, <1>2, <1>3, PTL DEF Spec

\* So each expense and each payment is posted once, as the data audit has it, however
\* gateways are configured, while expenses that users enter and payments are edited and
\* deleted, and none of what Uses names happens: the edit or deletion of a gateway's
\* charge, the edit of a deleted expense, one with tax from a bank line, an account
\* deleted while it is posted to, a reference made by hand.
THEOREM AllPostedOnce ==
    ASSUME Uses = {}
    PROVE  Spec => []PostedOnce
<1>1. Spec => []ExpensesPosted
  BY ExpensesArePosted
<1>2. Spec => []PaymentsPosted
  BY PaymentsArePosted
<1>3. ExpensesPosted /\ PaymentsPosted => PostedOnce
  BY DEF PostedOnce
<1> QED
  BY <1>1, <1>2, <1>3, PTL
=============================================================================
