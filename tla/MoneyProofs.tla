----------------------------- MODULE MoneyProofs -----------------------------
(***************************************************************************)
(* The merchant's money, in and out, for every set of writers, payments,   *)
(* clients, webhook handlers, keys and references.                         *)
(*                                                                         *)
(* The ledger: the accounts balance, a payment is posted at most once by   *)
(* each writer, and every running balance was once true.  A balance is a   *)
(* sum over a sequence, so the lemmas about it come first.                 *)
(*                                                                         *)
(* Payouts: the answers to a key agree, a payout's status is what the      *)
(* provider did, and only an overtaken webhook leaves the transition       *)
(* table.                                                                  *)
(***************************************************************************)
EXTENDS Ledger, Payouts, FiniteSetTheorems, SequenceTheorems, WellFoundedInduction, TLAPS

-----------------------------------------------------------------------------
(* The ledger: balances *)

\* A set of numbers that has a member has a least one.
LEMMA Least ==
    ASSUME NEW T \in SUBSET Nat, T # {}
    PROVE  \E n \in T : \A m \in T : n <= m
<1> DEFINE R == OpToRel(<, Nat)
<1>1. IsWellFoundedOn(R, Nat)
  BY NatLessThanWellFounded
<1>2. \A y, x \in Nat : y < x => <<y, x>> \in R
  BY DEF OpToRel
<1> HIDE DEF R
<1>3. PICK x \in T : \A y \in T : <<y, x>> \notin R
  BY <1>1, WFMin
<1>4. ASSUME NEW m \in T PROVE x <= m
  <2>1. m \in Nat /\ x \in Nat /\ ~(m < x)
    BY <1>2, <1>3
  <2> QED
    BY <2>1
<1> QED
  BY <1>4

\* f holds the sums of the first n members of d, from none to N.
Sums(f, d, N) ==
    /\ f \in [0..N -> Int]
    /\ f[0] = 0
    /\ \A n \in 1..N : f[n] = f[n - 1] + d[n]

LEMMA SumsExist ==
    ASSUME NEW N \in Nat, NEW d \in [1..N -> Int]
    PROVE  \E f : Sums(f, d, N)
<1> DEFINE Has(n) == \E f : Sums(f, d, n)
           Bad == {n \in Nat : n <= N /\ ~Has(n)}
<1> SUFFICES ASSUME ~Has(N) PROVE FALSE
  OBVIOUS
<1>0. Bad # {} /\ Bad \subseteq Nat
  <2> HIDE DEF Has
  <2> QED
    OBVIOUS
<1> HIDE DEF Bad
<1>1. PICK n \in Bad : \A m \in Bad : n <= m
  BY <1>0, Least
<1>2. n \in Nat /\ n <= N /\ ~\E f : Sums(f, d, n)
  BY DEF Bad
<1>3. CASE n = 0
  <2>1. Sums([i \in 0..0 |-> 0], d, 0)
    BY DEF Sums
  <2> QED
    BY <1>2, <1>3, <2>1
<1>4. CASE n # 0
  <2>1. n - 1 \in Nat /\ n - 1 <= N /\ n - 1 < n
    BY <1>2, <1>4
  <2>2. n - 1 \notin Bad
    BY <1>1, <1>2, <2>1
  <2>3. PICK f : Sums(f, d, n - 1)
    <3>1. Has(n - 1)
      <4> HIDE DEF Has
      <4> QED
        BY <2>1, <2>2 DEF Bad
    <3> QED
      BY <3>1
  <2> DEFINE g == [i \in 0..n |-> IF i = n THEN f[n - 1] + d[n] ELSE f[i]]
  <2>4. f \in [0..(n - 1) -> Int] /\ f[n - 1] \in Int /\ d[n] \in Int
    BY <1>2, <1>4, <2>1, <2>3 DEF Sums
  <2>5. g \in [0..n -> Int]
    BY <1>2, <2>1, <2>4
  <2>6. g[0] = 0
    BY <1>2, <1>4, <2>3 DEF Sums
  <2>7. ASSUME NEW i \in 1..n PROVE g[i] = g[i - 1] + d[i]
    <3>1. CASE i = n
      BY <1>2, <2>1, <3>1
    <3>2. CASE i # n
      BY <1>2, <2>1, <2>3, <3>2 DEF Sums
    <3> QED
      BY <3>1, <3>2
  <2> HIDE DEF g
  <2>8. Sums(g, d, n)
    BY <2>5, <2>6, <2>7 DEF Sums
  <2> QED
    BY <1>2, <2>8
<1> QED
  BY <1>3, <1>4

\* Sums of the same members are the same, as far as the members are.
LEMMA SumsAgree ==
    ASSUME NEW N \in Nat, NEW M \in Nat, NEW d, NEW e, NEW f, NEW g,
           Sums(f, d, N), Sums(g, e, M), N <= M,
           \A n \in 1..N : d[n] = e[n]
    PROVE  f[N] = g[N]
<1> DEFINE Bad == {n \in Nat : n <= N /\ f[n] # g[n]}
<1> SUFFICES ASSUME Bad # {} PROVE FALSE
  OBVIOUS
<1>1. PICK n \in Bad : \A m \in Bad : n <= m
  BY Least
<1>2. n \in Nat /\ n <= N /\ f[n] # g[n]
  OBVIOUS
<1>3. n # 0
  BY <1>2 DEF Sums
<1>4. n - 1 \in Nat /\ n - 1 < n /\ n - 1 \notin Bad
  BY <1>1, <1>2, <1>3
<1>5. f[n - 1] = g[n - 1]
  BY <1>2, <1>4
<1>6. n \in 1..N /\ n \in 1..M
  BY <1>2, <1>3
<1>7. f[n] = f[n - 1] + d[n] /\ g[n] = g[n - 1] + e[n] /\ d[n] = e[n]
  BY <1>6 DEF Sums
<1> QED
  BY <1>2, <1>5, <1>7

\* What one entry adds to an account.
Credited(entry, account) == IF entry.account = account THEN entry.credit ELSE 0

Credits(entries, account) == [n \in 1..Len(entries) |-> Credited(entries[n], account)]

LEMMA CreditsType ==
    ASSUME NEW entries \in Seq(Entries), NEW account
    PROVE  Credits(entries, account) \in [1..Len(entries) -> Int]
<1>1. ASSUME NEW n \in 1..Len(entries) PROVE Credited(entries[n], account) \in Int
  <2>1. entries[n] \in Entries
    OBVIOUS
  <2> QED
    BY <2>1 DEF Credited, Entries
<1> QED
  BY <1>1 DEF Credits

\* The balance is the last of the sums of what the entries add.
LEMMA BalanceSums ==
    ASSUME NEW entries \in Seq(Entries), NEW account
    PROVE  \E f : Sums(f, Credits(entries, account), Len(entries))
                  /\ f[Len(entries)] = Balance(entries, account)
<1> DEFINE N == Len(entries)
           credit(n) == IF entries[n].account = account THEN entries[n].credit ELSE 0
           Eq(f) == f = [n \in 0..N |-> IF n = 0 THEN 0 ELSE f[n - 1] + credit(n)]
           sum == CHOOSE f : Eq(f)
           d == Credits(entries, account)
<1>1. N \in Nat /\ d \in [1..N -> Int] /\ \A n \in 1..N : d[n] = credit(n)
  BY CreditsType DEF Credits, Credited
<1>2. PICK f : Sums(f, d, N)
  <2> HIDE DEF d, N, credit
  <2> QED
    BY <1>1, SumsExist
<1>3. Balance(entries, account) = sum[N]
  BY DEF Balance
<1>4. Eq(f)
  <2> DEFINE h == [n \in 0..N |-> IF n = 0 THEN 0 ELSE f[n - 1] + credit(n)]
  <2>1. f \in [0..N -> Int] /\ DOMAIN h = 0..N
    BY <1>2 DEF Sums
  <2>2. ASSUME NEW n \in 0..N PROVE f[n] = h[n]
    <3> HIDE DEF N, d, credit
    <3>1. CASE n = 0
      BY <1>2, <3>1 DEF Sums
    <3>2. CASE n # 0
      BY <1>1, <1>2, <3>2 DEF Sums
    <3> QED
      BY <3>1, <3>2
  <2> HIDE DEF h
  <2>3. f = h
    BY <2>1, <2>2 DEF h
  <2> QED
    BY <2>3 DEF h
<1>5. Eq(sum)
  <2> HIDE DEF Eq
  <2> QED
    BY <1>4
<1>6. Sums(sum, d, N)
  <2>1. sum = [n \in 0..N |-> IF n = 0 THEN 0 ELSE sum[n - 1] + credit(n)]
    BY <1>5
  <2> HIDE DEF sum, N, d, credit
  <2>2. sum[0] = 0 /\ DOMAIN sum = 0..N
    BY <1>1, <2>1
  <2>3. \A n \in 1..N : sum[n] = sum[n - 1] + d[n]
    BY <1>1, <2>1
  <2> DEFINE Bad == {n \in Nat : n <= N /\ sum[n] \notin Int}
  <2>4. Bad = {}
    <3> SUFFICES ASSUME Bad # {} PROVE FALSE
      OBVIOUS
    <3>1. PICK n \in Bad : \A m \in Bad : n <= m
      BY Least
    <3>2. n \in Nat /\ n <= N /\ sum[n] \notin Int /\ n # 0
      BY <2>2
    <3>3. n - 1 \in Nat /\ n - 1 \notin Bad /\ n \in 1..N
      BY <1>1, <3>1, <3>2
    <3>4. sum[n - 1] \in Int /\ sum[n] = sum[n - 1] + d[n] /\ d[n] \in Int
      BY <1>1, <2>3, <3>2, <3>3
    <3> QED
      BY <3>2, <3>4
  <2>5. sum \in [0..N -> Int]
    <3>1. \A n \in 0..N : sum[n] \in Int
      BY <1>1, <2>4
    <3> QED
      BY <2>1, <3>1
  <2> QED
    BY <2>2, <2>3, <2>5 DEF Sums
<1> QED
  BY <1>3, <1>6

LEMMA BalanceType ==
    ASSUME NEW entries \in Seq(Entries), NEW account
    PROVE  Balance(entries, account) \in Int
<1>1. Len(entries) \in Nat
  OBVIOUS
<1> QED
  BY <1>1, BalanceSums DEF Sums

LEMMA BalanceEmpty ==
    ASSUME NEW account PROVE Balance(<< >>, account) = 0
<1>1. << >> \in Seq(Entries) /\ Len(<< >>) = 0
  OBVIOUS
<1> QED
  BY <1>1, BalanceSums DEF Sums

\* An entry adds to its account and to no other.
LEMMA BalanceAppend ==
    ASSUME NEW entries \in Seq(Entries), NEW entry \in Entries, NEW account
    PROVE  Balance(Append(entries, entry), account)
             = Balance(entries, account) + Credited(entry, account)
<1> DEFINE more == Append(entries, entry)
           N == Len(entries)
<1>1. /\ more \in Seq(Entries) /\ N \in Nat /\ Len(more) = N + 1
      /\ more[N + 1] = entry /\ \A n \in 1..N : more[n] = entries[n]
  BY AppendProperties
<1> HIDE DEF more, N
<1>2. PICK f : Sums(f, Credits(entries, account), N) /\ f[N] = Balance(entries, account)
  BY BalanceSums DEF N
<1>3. PICK g : Sums(g, Credits(more, account), N + 1) /\ g[N + 1] = Balance(more, account)
  BY <1>1, BalanceSums
<1>4. \A n \in 1..N : Credits(entries, account)[n] = Credits(more, account)[n]
  BY <1>1 DEF Credits, N
<1>5. f[N] = g[N]
  <2>1. N + 1 \in Nat /\ N <= N + 1
    BY <1>1
  <2> QED
    BY <1>1, <1>2, <1>3, <1>4, <2>1, SumsAgree
<1>6. g[N + 1] = g[N] + Credits(more, account)[N + 1]
  <2>1. N + 1 \in 1..(N + 1) /\ (N + 1) - 1 = N
    BY <1>1
  <2> QED
    BY <1>3, <2>1 DEF Sums
<1>7. Credits(more, account)[N + 1] = Credited(entry, account)
  BY <1>1 DEF Credits
<1> QED
  BY <1>2, <1>3, <1>5, <1>6, <1>7 DEF more

\* Of no entries to an account the balance is nothing.
LEMMA BalanceNone ==
    ASSUME NEW entries \in Seq(Entries), NEW account,
           \A n \in 1..Len(entries) : entries[n].account # account
    PROVE  Balance(entries, account) = 0
<1> DEFINE N == Len(entries)
<1>1. PICK f : Sums(f, Credits(entries, account), N) /\ f[N] = Balance(entries, account)
  BY BalanceSums
<1>2. N \in Nat /\ \A n \in 1..N : Credits(entries, account)[n] = 0
  BY DEF Credits, Credited
<1> HIDE DEF N
<1> DEFINE Bad == {n \in Nat : n <= N /\ f[n] # 0}
<1>3. Bad = {}
  <2> SUFFICES ASSUME Bad # {} PROVE FALSE
    OBVIOUS
  <2>1. PICK n \in Bad : \A m \in Bad : n <= m
    BY Least
  <2>2. n \in Nat /\ n <= N /\ f[n] # 0 /\ n # 0
    BY <1>1 DEF Sums
  <2>3. n - 1 \in Nat /\ n - 1 \notin Bad /\ n \in 1..N
    BY <1>2, <2>1, <2>2
  <2>4. n - 1 <= N /\ f[n - 1] = 0
    BY <1>2, <2>2, <2>3
  <2>5. f[n] = f[n - 1] + Credits(entries, account)[n]
    BY <1>1, <2>3 DEF Sums
  <2>6. Credits(entries, account)[n] = 0
    BY <1>2, <2>3
  <2> QED
    BY <2>2, <2>4, <2>5, <2>6
<1> QED
  BY <1>1, <1>2, <1>3

\* A sequence is its last member appended to what is before.
LEMMA Prefixes ==
    ASSUME NEW S, NEW t \in Seq(S), NEW n \in 1..Len(t)
    PROVE  /\ SubSeq(t, 1, n) \in Seq(S) /\ SubSeq(t, 1, n - 1) \in Seq(S)
           /\ SubSeq(t, 1, n) = Append(SubSeq(t, 1, n - 1), t[n])
<1>1. Len(t) \in Nat /\ n \in Nat /\ \A i \in 1..Len(t) : t[i] \in S
  OBVIOUS
<1>2. /\ SubSeq(t, 1, n) \in Seq(S) /\ Len(SubSeq(t, 1, n)) = n
      /\ \A i \in 1..n : SubSeq(t, 1, n)[i] = t[i]
  <2>1. \A i \in 1..n : t[i] \in S
    BY <1>1
  <2>2. n \in Int /\ n - 1 + 1 = n /\ 1 <= n
    BY <1>1
  <2> QED
    BY <2>1, <2>2, SubSeqProperties
<1>3. /\ SubSeq(t, 1, n - 1) \in Seq(S) /\ Len(SubSeq(t, 1, n - 1)) = n - 1
      /\ \A i \in 1..(n - 1) : SubSeq(t, 1, n - 1)[i] = t[i]
  <2>1. \A i \in 1..(n - 1) : t[i] \in S
    BY <1>1
  <2>2. n - 1 \in Int /\ (n - 1) - 1 + 1 = n - 1
    BY <1>1
  <2>3. /\ SubSeq(t, 1, n - 1) \in Seq(S)
        /\ Len(SubSeq(t, 1, n - 1)) = IF 1 <= n - 1 THEN n - 1 ELSE 0
        /\ \A i \in 1..(n - 1) : SubSeq(t, 1, n - 1)[i] = t[1 + i - 1]
    BY <2>1, <2>2, SubSeqProperties
  <2>4. n - 1 = IF 1 <= n - 1 THEN n - 1 ELSE 0
    BY <1>1
  <2> QED
    BY <1>1, <2>3, <2>4
<1> DEFINE u == SubSeq(t, 1, n - 1)
           v == SubSeq(t, 1, n)
<1> HIDE DEF u, v
<1>4. /\ Append(u, t[n]) \in Seq(S) /\ Len(Append(u, t[n])) = n
      /\ \A i \in 1..n : Append(u, t[n])[i] = IF i = n THEN t[n] ELSE u[i]
  BY <1>1, <1>3, AppendProperties DEF u
<1>5. \A i \in 1..n : v[i] = Append(u, t[n])[i]
  BY <1>1, <1>2, <1>3, <1>4 DEF u, v
<1>6. v = Append(u, t[n])
  <2>1. v \in Seq(S) /\ Len(v) = n
    BY <1>2 DEF v
  <2> QED
    BY <1>4, <1>5, <2>1, SeqEqual
<1> QED
  BY <1>2, <1>3, <1>6 DEF u, v

LEMMA WholePrefix ==
    ASSUME NEW S, NEW t \in Seq(S) PROVE SubSeq(t, 1, Len(t)) = t
<1>1. Len(t) \in Nat /\ \A i \in 1..Len(t) : t[i] \in S
  OBVIOUS
<1>2. /\ SubSeq(t, 1, Len(t)) \in Seq(S)
      /\ Len(SubSeq(t, 1, Len(t))) = IF 1 <= Len(t) THEN Len(t) - 1 + 1 ELSE 0
      /\ \A i \in 1..(Len(t) - 1 + 1) : SubSeq(t, 1, Len(t))[i] = t[1 + i - 1]
  BY <1>1, SubSeqProperties
<1>3. Len(SubSeq(t, 1, Len(t))) = Len(t)
  BY <1>1, <1>2
<1>4. \A i \in 1..Len(t) : SubSeq(t, 1, Len(t))[i] = t[i]
  BY <1>1, <1>2
<1> QED
  BY <1>2, <1>3, <1>4, SeqEqual

\* What comes after leaves a prefix as it is.
LEMMA PrefixStays ==
    ASSUME NEW S, NEW s \in Seq(S), NEW t \in Seq(S), NEW n \in 0..Len(s)
    PROVE  SubSeq(s \o t, 1, n) = SubSeq(s, 1, n)
<1>1. /\ Len(s) \in Nat /\ n \in Nat /\ n <= Len(s)
      /\ \A i \in 1..n : s[i] \in S
  OBVIOUS
<1>2. \A i \in 1..n : (s \o t)[i] = s[i]
  <2>1. Len(t) \in Nat
    OBVIOUS
  <2> QED
    BY <1>1, <2>1, ConcatProperties
<1>3. /\ SubSeq(s, 1, n) \in Seq(S)
      /\ Len(SubSeq(s, 1, n)) = IF 1 <= n THEN n - 1 + 1 ELSE 0
      /\ \A i \in 1..(n - 1 + 1) : SubSeq(s, 1, n)[i] = s[1 + i - 1]
  BY <1>1, SubSeqProperties
<1>4. /\ SubSeq(s \o t, 1, n) \in Seq(S)
      /\ Len(SubSeq(s \o t, 1, n)) = IF 1 <= n THEN n - 1 + 1 ELSE 0
      /\ \A i \in 1..(n - 1 + 1) : SubSeq(s \o t, 1, n)[i] = (s \o t)[1 + i - 1]
  <2>1. \A i \in 1..n : (s \o t)[i] \in S
    BY <1>1, <1>2
  <2> QED
    BY <1>1, <2>1, SubSeqProperties
<1>5. Len(SubSeq(s \o t, 1, n)) = Len(SubSeq(s, 1, n)) /\ Len(SubSeq(s, 1, n)) = n
  BY <1>1, <1>3, <1>4
<1>6. \A i \in 1..n : SubSeq(s \o t, 1, n)[i] = SubSeq(s, 1, n)[i]
  BY <1>1, <1>2, <1>3, <1>4
<1> QED
  BY <1>3, <1>4, <1>5, <1>6, SeqEqual

\* The balance over entries and more entries is the sum of the balances.
LEMMA BalanceConcat ==
    ASSUME NEW s \in Seq(Entries), NEW t \in Seq(Entries), NEW account
    PROVE  Balance(s \o t, account) = Balance(s, account) + Balance(t, account)
<1> DEFINE Adds(n) == Balance(s \o SubSeq(t, 1, n), account)
                        = Balance(s, account) + Balance(SubSeq(t, 1, n), account)
           Bad == {n \in Nat : n <= Len(t) /\ ~Adds(n)}
<1>1. Len(t) \in Nat
  OBVIOUS
<1>2. Adds(0)
  <2>1. SubSeq(t, 1, 0) = << >>
    BY SubSeqEmpty
  <2>2. s \o << >> = s
    BY ConcatEmptySeq
  <2>3. Balance(s \o SubSeq(t, 1, 0), account) = Balance(s, account)
    BY <2>1, <2>2, Zenon
  <2>4. Balance(SubSeq(t, 1, 0), account) = 0
    BY <2>1, BalanceEmpty, Zenon
  <2>5. Balance(s, account) \in Int
    BY BalanceType
  <2> QED
    BY <2>3, <2>4, <2>5
<1>3. ASSUME NEW n \in 1..Len(t), Adds(n - 1) PROVE Adds(n)
  <2> DEFINE u == SubSeq(t, 1, n - 1)
             v == SubSeq(t, 1, n)
  <2>1. u \in Seq(Entries) /\ v \in Seq(Entries) /\ v = Append(u, t[n]) /\ t[n] \in Entries
    BY Prefixes
  <2>2. s \o u \in Seq(Entries)
    BY <2>1, ConcatProperties
  <2>3. s \o v = Append(s \o u, t[n])
    <3> HIDE DEF u, v
    <3>1. /\ Len(s \o u) = Len(s) + Len(u) /\ Len(s) \in Nat /\ Len(u) \in Nat
          /\ \A i \in 1..(Len(s) + Len(u)) :
                (s \o u)[i] = IF i <= Len(s) THEN s[i] ELSE u[i - Len(s)]
      BY <2>1, ConcatProperties
    <3>2. /\ v \in Seq(Entries) /\ Len(v) = Len(u) + 1
          /\ \A i \in 1..(Len(u) + 1) : v[i] = IF i = Len(u) + 1 THEN t[n] ELSE u[i]
      BY <2>1, <3>1, AppendProperties
    <3> DEFINE y == s \o v
               z == s \o u
    <3>3. /\ y \in Seq(Entries) /\ Len(y) = Len(s) + Len(v)
          /\ \A i \in 1..(Len(s) + Len(v)) :
                y[i] = IF i <= Len(s) THEN s[i] ELSE v[i - Len(s)]
      BY <3>2, ConcatProperties
    <3> DEFINE x == Append(z, t[n])
    <3>4. /\ x \in Seq(Entries) /\ Len(x) = Len(z) + 1
          /\ \A i \in 1..(Len(z) + 1) :
                x[i] = IF i = Len(z) + 1 THEN t[n] ELSE z[i]
      BY <2>1, <2>2, <3>1, AppendProperties
    <3> HIDE DEF x, y, z
    <3>0. /\ Len(z) = Len(s) + Len(u)
          /\ \A i \in 1..(Len(s) + Len(u)) :
                z[i] = IF i <= Len(s) THEN s[i] ELSE u[i - Len(s)]
      BY <3>1 DEF z
    <3>5. \A i \in 1..Len(y) : y[i] = x[i]
      <4> SUFFICES ASSUME NEW i \in 1..(Len(s) + Len(u) + 1) PROVE y[i] = x[i]
        BY <3>1, <3>2, <3>3
      <4>1. y[i] = IF i <= Len(s) THEN s[i] ELSE v[i - Len(s)]
        BY <3>1, <3>2, <3>3
      <4>2. x[i] = IF i = Len(s) + Len(u) + 1 THEN t[n] ELSE z[i]
        BY <3>0, <3>1, <3>4
      <4>3. CASE i <= Len(s) + Len(u)
        <5>1. z[i] = IF i <= Len(s) THEN s[i] ELSE u[i - Len(s)]
          BY <3>0, <3>1, <4>3
        <5>2. x[i] = z[i]
          BY <3>1, <4>2, <4>3
        <5>3. i > Len(s) => v[i - Len(s)] = u[i - Len(s)]
          BY <3>1, <3>2, <4>3
        <5> QED
          BY <3>1, <4>1, <5>1, <5>2, <5>3
      <4>4. CASE i = Len(s) + Len(u) + 1
        <5>1. i > Len(s) /\ i - Len(s) = Len(u) + 1
          BY <3>1, <4>4
        <5>2. v[Len(u) + 1] = t[n]
          BY <3>1, <3>2
        <5>3. y[i] = v[i - Len(s)]
          BY <3>1, <4>1, <5>1
        <5>4. x[i] = t[n]
          BY <4>2, <4>4
        <5>5. v[i - Len(s)] = v[Len(u) + 1]
          BY <5>1
        <5> QED
          BY <3>1, <5>2, <5>3, <5>4, <5>5
      <4>5. i <= Len(s) + Len(u) \/ i = Len(s) + Len(u) + 1
        <5>1. Len(s) + Len(u) \in Int
          BY <3>1
        <5> QED
          BY <5>1
      <4> QED
        BY <4>3, <4>4, <4>5
    <3>6. Len(y) = Len(x)
      BY <3>0, <3>1, <3>2, <3>3, <3>4
    <3> QED
      BY <3>3, <3>4, <3>5, <3>6, SeqEqual DEF x, y, z
  <2>4. Balance(s \o v, account) = Balance(s \o u, account) + Credited(t[n], account)
    <3>1. Balance(Append(s \o u, t[n]), account)
            = Balance(s \o u, account) + Credited(t[n], account)
      <4> HIDE DEF u
      <4> QED
        BY <2>1, <2>2, BalanceAppend
    <3> HIDE DEF u, v
    <3> QED
      BY <2>3, <3>1, Zenon
  <2>5. Balance(v, account) = Balance(u, account) + Credited(t[n], account)
    <3>1. Balance(Append(u, t[n]), account) = Balance(u, account) + Credited(t[n], account)
      <4> HIDE DEF u
      <4> QED
        BY <2>1, BalanceAppend
    <3> HIDE DEF u, v
    <3> QED
      BY <2>1, <3>1, Zenon
  <2>6. Balance(s, account) \in Int /\ Balance(u, account) \in Int
    BY <2>1, BalanceType
  <2>7. Credited(t[n], account) \in Int
    BY <2>1 DEF Credited, Entries
  <2>8. Balance(s \o u, account) = Balance(s, account) + Balance(u, account)
    BY <1>3
  <2> HIDE DEF u, v
  <2>9. Balance(s \o v, account) = Balance(s, account) + Balance(v, account)
    BY <2>4, <2>5, <2>6, <2>7, <2>8
  <2> QED
    BY <2>9 DEF v
<1>4. Adds(Len(t))
  <2> HIDE DEF Adds
  <2> SUFFICES ASSUME ~Adds(Len(t)) PROVE FALSE
    OBVIOUS
  <2>1. PICK n \in Bad : \A m \in Bad : n <= m
    <3>1. Len(t) \in Bad /\ Bad \subseteq Nat
      BY <1>1
    <3> HIDE DEF Bad
    <3> QED
      BY <3>1, Least
  <2>2. n \in Nat /\ n <= Len(t) /\ ~Adds(n) /\ n # 0
    BY <1>2
  <2>3. n - 1 \in Nat /\ n \in 1..Len(t) /\ n - 1 \notin Bad
    BY <1>1, <2>1, <2>2
  <2>4. Adds(n - 1)
    BY <1>1, <2>2, <2>3
  <2> QED
    BY <1>3, <2>2, <2>3, <2>4
<1> QED
  BY <1>4, WholePrefix

-----------------------------------------------------------------------------
(* The ledger: the inductive invariant *)

Postings(s, account) ==
    {i \in DOMAIN ledger : ledger[i].payment = s /\ ledger[i].account = account}

Posters(s) == {w \in Writers : pc[w] = "post" /\ job[w] = s}

\* A transaction's entries are the first of its payment's movements; outside of one there
\* are none.
Moving ==
    \A w \in Writers :
        /\ written[w] # << >> => pc[w] = "post"
        /\ Len(written[w]) <= Len(Movements(job[w]))
        /\ \A n \in 1..Len(written[w]) :
              /\ written[w][n].payment = job[w]
              /\ written[w][n].account = Movements(job[w])[n].account
              /\ written[w][n].credit = Movements(job[w])[n].credit

\* A writer that is to commit holds its place among those that may still post a payment.
Places ==
    \A s \in Payments, account \in Accounts :
        Cardinality(Postings(s, account)) + Cardinality(Posters(s)) <= Cardinality(Writers)

\* An entry moves a balance that the account has had.
OnceTrue(entry, end) ==
    \E last \in 0..end :
        entry.balanceAfter = Balance(SubSeq(ledger, 1, last), entry.account) + entry.credit

WrittenOnceTrue ==
    \A w \in Writers : \A n \in 1..Len(written[w]) : OnceTrue(written[w][n], Len(ledger))

LedgerInv ==
    /\ LedgerTypeOK /\ Moving
    /\ AccountsBalance /\ Places
    /\ BalanceOnceTrue /\ WrittenOnceTrue

\* What a payment moves: two or three accounts, and nothing in sum.
LEMMA MovementsShape ==
    ASSUME NEW s \in Payments
    PROVE  /\ Len(Movements(s)) \in {2, 3} /\ DOMAIN Movements(s) = 1..Len(Movements(s))
           /\ \A n \in 1..Len(Movements(s)) :
                 Movements(s)[n].account \in Accounts /\ Movements(s)[n].credit \in Int
           /\ Movements(s)[1].account = "CUSTOMER_FUNDS"
           /\ Movements(s)[2].account = "MERCHANT_BALANCE"
           /\ Len(Movements(s)) = 3 => Movements(s)[3].account = "PLATFORM_FEES"
           /\ Movements(s)[1].credit + Movements(s)[2].credit
                + (IF Len(Movements(s)) = 3 THEN Movements(s)[3].credit ELSE 0) = 0
<1>1. Net[s] \in Nat /\ Fee[s] \in Nat
  BY AmountsAssumption
<1>2. CASE Fee[s] > 0
  <2>1. Movements(s) = <<[account |-> "CUSTOMER_FUNDS", credit |-> -(Net[s] + Fee[s])],
                         [account |-> "MERCHANT_BALANCE", credit |-> Net[s]],
                         [account |-> "PLATFORM_FEES", credit |-> Fee[s]]>>
    BY <1>2 DEF Movements
  <2>2. Len(Movements(s)) = 3 /\ 1..3 = {1, 2, 3}
    BY <2>1
  <2> QED
    BY <1>1, <2>1, <2>2 DEF Accounts
<1>3. CASE ~(Fee[s] > 0)
  <2>1. Movements(s) = <<[account |-> "CUSTOMER_FUNDS", credit |-> -(Net[s] + Fee[s])],
                         [account |-> "MERCHANT_BALANCE", credit |-> Net[s]]>>
    BY <1>3 DEF Movements
  <2>2. Len(Movements(s)) = 2 /\ 1..2 = {1, 2} /\ Fee[s] = 0
    BY <1>1, <1>3, <2>1
  <2> QED
    BY <1>1, <2>1, <2>2 DEF Accounts
<1> QED
  BY <1>2, <1>3

\* No payment moves an account twice.
LEMMA MovedOnce ==
    ASSUME NEW s \in Payments, NEW m \in 1..Len(Movements(s)), NEW n \in 1..Len(Movements(s)),
           Movements(s)[m].account = Movements(s)[n].account
    PROVE  m = n
<1>1. Len(Movements(s)) \in {2, 3}
  BY MovementsShape
<1>2. m \in {1, 2, 3} /\ n \in {1, 2, 3} /\ (m = 3 \/ n = 3 => Len(Movements(s)) = 3)
  BY <1>1
<1> QED
  BY <1>2, MovementsShape

\* All three accounts at once.
Total(entries) ==
    Balance(entries, "CUSTOMER_FUNDS") + Balance(entries, "MERCHANT_BALANCE")
        + Balance(entries, "PLATFORM_FEES")

\* All of a payment's movements together change nothing in sum.
LEMMA MovementsTotal ==
    ASSUME NEW s \in Payments, NEW entries \in Seq(Entries),
           Len(entries) = Len(Movements(s)),
           \A n \in 1..Len(entries) :
               /\ entries[n].account = Movements(s)[n].account
               /\ entries[n].credit = Movements(s)[n].credit
    PROVE  Total(entries) = 0
<1> DEFINE N == Len(entries)
           B(a) == Balance(entries, a)
<1>1. N \in {2, 3} /\ 1 \in 1..N /\ 2 \in 1..N /\ (N = 3 => 3 \in 1..N)
  BY MovementsShape
<1>2. ASSUME NEW a
      PROVE  B(a) = Credited(entries[1], a) + Credited(entries[2], a)
                      + (IF N = 3 THEN Credited(entries[3], a) ELSE 0)
  <2>1. PICK f : Sums(f, Credits(entries, a), N) /\ f[N] = B(a)
    BY BalanceSums
  <2>2. \A n \in 1..N : /\ Credits(entries, a)[n] = Credited(entries[n], a)
                        /\ Credited(entries[n], a) \in Int
    BY CreditsType DEF Credits
  <2> HIDE DEF N, B
  <2>3. /\ f[0] = 0 /\ f[1] = f[1 - 1] + Credited(entries[1], a)
        /\ f[2] = f[2 - 1] + Credited(entries[2], a)
        /\ N = 3 => f[3] = f[3 - 1] + Credited(entries[3], a)
    BY <1>1, <2>1, <2>2 DEF Sums
  <2>4. /\ Credited(entries[1], a) \in Int /\ Credited(entries[2], a) \in Int
        /\ N = 3 => Credited(entries[3], a) \in Int
    BY <1>1, <2>2
  <2> QED
    BY <1>1, <2>1, <2>3, <2>4
<1>3. /\ entries[1].account = "CUSTOMER_FUNDS" /\ entries[1].credit = Movements(s)[1].credit
      /\ entries[2].account = "MERCHANT_BALANCE" /\ entries[2].credit = Movements(s)[2].credit
      /\ N = 3 => /\ entries[3].account = "PLATFORM_FEES"
                  /\ entries[3].credit = Movements(s)[3].credit
  BY <1>1, MovementsShape
<1>4. /\ Movements(s)[1].credit \in Int /\ Movements(s)[2].credit \in Int
      /\ N = 3 => Movements(s)[3].credit \in Int
      /\ Movements(s)[1].credit + Movements(s)[2].credit
           + (IF N = 3 THEN Movements(s)[3].credit ELSE 0) = 0
  BY <1>1, MovementsShape
<1> HIDE DEF N
<1>5. B("CUSTOMER_FUNDS") = Movements(s)[1].credit
  <2>1. Credited(entries[1], "CUSTOMER_FUNDS") = Movements(s)[1].credit
    BY <1>3 DEF Credited
  <2>2. Credited(entries[2], "CUSTOMER_FUNDS") = 0
    BY <1>3 DEF Credited
  <2>3. N = 3 => Credited(entries[3], "CUSTOMER_FUNDS") = 0
    BY <1>3 DEF Credited
  <2> HIDE DEF B
  <2> QED
    BY <1>2, <1>4, <2>1, <2>2, <2>3
<1>6. B("MERCHANT_BALANCE") = Movements(s)[2].credit
  <2>1. Credited(entries[1], "MERCHANT_BALANCE") = 0
    BY <1>3 DEF Credited
  <2>2. Credited(entries[2], "MERCHANT_BALANCE") = Movements(s)[2].credit
    BY <1>3 DEF Credited
  <2>3. N = 3 => Credited(entries[3], "MERCHANT_BALANCE") = 0
    BY <1>3 DEF Credited
  <2> HIDE DEF B
  <2> QED
    BY <1>2, <1>4, <2>1, <2>2, <2>3
<1>7. B("PLATFORM_FEES") = IF N = 3 THEN Movements(s)[3].credit ELSE 0
  <2>1. Credited(entries[1], "PLATFORM_FEES") = 0
    BY <1>3 DEF Credited
  <2>2. Credited(entries[2], "PLATFORM_FEES") = 0
    BY <1>3 DEF Credited
  <2>3. N = 3 => Credited(entries[3], "PLATFORM_FEES") = Movements(s)[3].credit
    BY <1>3 DEF Credited
  <2> HIDE DEF B
  <2> QED
    BY <1>2, <1>4, <2>1, <2>2, <2>3
<1>8. B("CUSTOMER_FUNDS") + B("MERCHANT_BALANCE") + B("PLATFORM_FEES") = 0
  <2> HIDE DEF B
  <2> QED
    BY <1>4, <1>5, <1>6, <1>7
<1> QED
  BY <1>8 DEF Total

-----------------------------------------------------------------------------
(* The ledger: the steps *)

LEMMA LedgerInit0 == LedgerInit => LedgerInv
<1> SUFFICES ASSUME LedgerInit PROVE LedgerInv
  OBVIOUS
<1>1. LedgerTypeOK
  BY DEF LedgerInit, LedgerTypeOK
<1>2. Moving
  <2>1. ASSUME NEW w \in Writers PROVE Len(Movements(job[w])) \in {2, 3}
    BY <1>1, MovementsShape DEF LedgerTypeOK
  <2>2. \A w \in Writers : written[w] = << >> /\ Len(written[w]) = 0
    BY DEF LedgerInit
  <2> QED
    BY <2>1, <2>2 DEF Moving
<1>3. AccountsBalance
  BY BalanceEmpty DEF LedgerInit, AccountsBalance
<1>4. Places
  <2> SUFFICES ASSUME NEW s \in Payments, NEW account \in Accounts
               PROVE  Cardinality(Postings(s, account)) + Cardinality(Posters(s))
                        <= Cardinality(Writers)
    BY DEF Places
  <2>1. Postings(s, account) = {} /\ Posters(s) = {}
    BY DEF LedgerInit, Postings, Posters
  <2>2. Cardinality(Writers) \in Nat
    BY WritersAssumption, FS_CardinalityType
  <2> QED
    BY <2>1, <2>2, FS_EmptySet
<1>5. BalanceOnceTrue /\ WrittenOnceTrue
  BY DEF LedgerInit, BalanceOnceTrue, WrittenOnceTrue
<1> QED
  BY <1>1, <1>2, <1>3, <1>4, <1>5 DEF LedgerInv

LEMMA LedgerFinite ==
    ASSUME LedgerTypeOK, NEW s, NEW account
    PROVE  /\ IsFiniteSet(Postings(s, account)) /\ Cardinality(Postings(s, account)) \in Nat
           /\ IsFiniteSet(Posters(s)) /\ Cardinality(Posters(s)) \in Nat
           /\ Cardinality(Writers) \in Nat /\ Cardinality(Posters(s)) <= Cardinality(Writers)
<1>1. Len(ledger) \in Nat /\ DOMAIN ledger = 1..Len(ledger)
  BY DEF LedgerTypeOK
<1>2. IsFiniteSet(1..Len(ledger))
  BY <1>1, FS_Interval
<1>3. Postings(s, account) \in SUBSET (1..Len(ledger)) /\ Posters(s) \in SUBSET Writers
  BY <1>1 DEF Postings, Posters
<1>4. IsFiniteSet(Postings(s, account)) /\ IsFiniteSet(Posters(s))
      /\ Cardinality(Posters(s)) <= Cardinality(Writers)
  BY <1>2, <1>3, WritersAssumption, FS_Subset
<1> QED
  BY <1>4, WritersAssumption, FS_CardinalityType

\* A writer moves.
LEMMA LedgerMoved ==
    ASSUME LedgerTypeOK, NEW w \in Writers, NEW step \in {"idle", "look", "post"},
           Goto(w, step)
    PROVE  /\ pc' \in [Writers -> {"idle", "look", "post"}]
           /\ pc'[w] = step /\ \A v \in Writers \ {w} : pc'[v] = pc[v]
  BY DEF LedgerTypeOK, Goto

\* Who commits nothing and opens no transaction leaves the rest as it is.
LEMMA LedgerQuiet ==
    ASSUME LedgerInv, LedgerTypeOK', Moving', UNCHANGED ledger,
           \A v \in Writers : written'[v] \in {written[v], << >>},
           \A s \in Payments : Posters(s)' \subseteq Posters(s)
    PROVE  LedgerInv'
<1>1. AccountsBalance' /\ BalanceOnceTrue'
  BY DEF LedgerInv, AccountsBalance, BalanceOnceTrue
<1>2. WrittenOnceTrue'
  <2> SUFFICES ASSUME NEW v \in Writers, NEW n \in 1..Len(written'[v])
               PROVE  OnceTrue(written[v][n], Len(ledger))'
    BY DEF WrittenOnceTrue
  <2>1. written'[v] = written[v]
    BY Len(<< >>) = 0
  <2>2. OnceTrue(written[v][n], Len(ledger))
    BY <2>1 DEF LedgerInv, WrittenOnceTrue
  <2> QED
    BY <2>1, <2>2 DEF OnceTrue
<1>3. Places'
  <2> SUFFICES ASSUME NEW s \in Payments, NEW account \in Accounts
               PROVE  Cardinality(Postings(s, account)') + Cardinality(Posters(s)')
                        <= Cardinality(Writers)
    BY DEF Places
  <2>1. Postings(s, account)' = Postings(s, account)
    BY DEF Postings
  <2>2. /\ Cardinality(Postings(s, account)) \in Nat /\ IsFiniteSet(Posters(s))
        /\ Cardinality(Posters(s)) \in Nat /\ Cardinality(Writers) \in Nat
    BY LedgerFinite DEF LedgerInv
  <2>3. Cardinality(Posters(s)') <= Cardinality(Posters(s)) /\ IsFiniteSet(Posters(s)')
    BY <2>2, FS_Subset
  <2>4. Cardinality(Posters(s)') \in Nat
    BY <2>3, FS_CardinalityType
  <2>5. Cardinality(Postings(s, account)) + Cardinality(Posters(s)) <= Cardinality(Writers)
    BY DEF LedgerInv, Places
  <2> QED
    BY <2>1, <2>2, <2>3, <2>4, <2>5
<1> QED
  BY <1>1, <1>2, <1>3 DEF LedgerInv

LEMMA LeaveLedger ==
    ASSUME LedgerInv, NEW w \in Writers, Leave(w), UNCHANGED <<paid, ledger, job>>
    PROVE  LedgerInv'
<1>1. /\ pc' \in [Writers -> {"idle", "look", "post"}]
      /\ pc'[w] = "idle" /\ \A v \in Writers \ {w} : pc'[v] = pc[v]
  BY LedgerMoved DEF LedgerInv, Leave
<1>2. /\ written' \in [Writers -> Seq(Entries)] /\ written'[w] = << >>
      /\ \A v \in Writers \ {w} : written'[v] = written[v]
  BY DEF LedgerInv, LedgerTypeOK, Leave
<1>3. LedgerTypeOK'
  BY <1>1, <1>2 DEF LedgerInv, LedgerTypeOK
<1>4. Moving'
  <2>1. Len(Movements(job[w])) \in {2, 3} /\ Len(<< >>) = 0
    BY MovementsShape DEF LedgerInv, LedgerTypeOK
  <2> SUFFICES ASSUME NEW v \in Writers
               PROVE  /\ written'[v] # << >> => pc'[v] = "post"
                      /\ Len(written'[v]) <= Len(Movements(job[v]))
                      /\ \A n \in 1..Len(written'[v]) :
                            /\ written'[v][n].payment = job[v]
                            /\ written'[v][n].account = Movements(job[v])[n].account
                            /\ written'[v][n].credit = Movements(job[v])[n].credit
    BY DEF Moving
  <2>2. CASE v = w
    BY <1>2, <2>1, <2>2
  <2>3. CASE v # w
    <3>1. pc'[v] = pc[v] /\ written'[v] = written[v]
      BY <1>1, <1>2, <2>3
    <3> QED
      BY <3>1 DEF LedgerInv, Moving
  <2> QED
    BY <2>2, <2>3
<1>5. \A s \in Payments : Posters(s)' \subseteq Posters(s)
  BY <1>1 DEF Posters
<1> QED
  BY <1>2, <1>3, <1>4, <1>5, LedgerQuiet

LEMMA BeginLedger ==
    ASSUME LedgerInv, NEW w \in Writers, NEW s \in Payments, Begin(w, s)
    PROVE  LedgerInv'
<1>1. /\ pc' \in [Writers -> {"idle", "look", "post"}]
      /\ pc'[w] = "look" /\ \A v \in Writers \ {w} : pc'[v] = pc[v]
  BY LedgerMoved DEF LedgerInv, Begin
<1>2. /\ job' \in [Writers -> Payments] /\ \A v \in Writers \ {w} : job'[v] = job[v]
      /\ written' = written /\ ledger' = ledger /\ paid' = paid /\ pc[w] = "idle"
      /\ job'[w] = s
  BY DEF LedgerInv, LedgerTypeOK, Begin
<1>3. LedgerTypeOK'
  BY <1>1, <1>2 DEF LedgerInv, LedgerTypeOK
<1>4. Moving'
  <2>1. Len(written'[w]) = 0 /\ written'[w] = << >> /\ Len(Movements(s)) \in {2, 3}
    <3>1. written[w] = << >>
      BY <1>2 DEF LedgerInv, Moving
    <3> QED
      BY <1>2, <3>1, MovementsShape
  <2> SUFFICES ASSUME NEW v \in Writers
               PROVE  /\ written'[v] # << >> => pc'[v] = "post"
                      /\ Len(written'[v]) <= Len(Movements(job'[v]))
                      /\ \A n \in 1..Len(written'[v]) :
                            /\ written'[v][n].payment = job'[v]
                            /\ written'[v][n].account = Movements(job'[v])[n].account
                            /\ written'[v][n].credit = Movements(job'[v])[n].credit
    BY DEF Moving
  <2>2. CASE v = w
    BY <1>2, <2>1, <2>2
  <2>3. CASE v # w
    BY <1>1, <1>2, <2>3 DEF LedgerInv, Moving
  <2> QED
    BY <2>2, <2>3
<1>5. \A t \in Payments : Posters(t)' \subseteq Posters(t)
  BY <1>1, <1>2 DEF Posters
<1> QED
  BY <1>2, <1>3, <1>4, <1>5, LedgerQuiet

\* A writer opens its transaction: the payment had no entries when it looked.
LEMMA LookLedger == ASSUME LedgerInv, NEW w \in Writers, Look(w) PROVE LedgerInv'
<1>1. CASE EntriesOf(job[w]) # {}
  BY <1>1, LeaveLedger DEF Look
<1>2. CASE EntriesOf(job[w]) = {}
  <2>1. Goto(w, "post") /\ UNCHANGED <<paid, ledger, job, written>>
    BY <1>2 DEF Look
  <2>2. /\ pc' \in [Writers -> {"idle", "look", "post"}]
        /\ pc'[w] = "post" /\ \A v \in Writers \ {w} : pc'[v] = pc[v]
    BY <2>1, LedgerMoved DEF LedgerInv
  <2>3. LedgerTypeOK'
    BY <2>1, <2>2 DEF LedgerInv, LedgerTypeOK
  <2>4. Moving'
    BY <2>1, <2>2 DEF LedgerInv, Moving
  <2>5. AccountsBalance' /\ BalanceOnceTrue'
    BY <2>1 DEF LedgerInv, AccountsBalance, BalanceOnceTrue
  <2>6. WrittenOnceTrue'
    BY <2>1 DEF LedgerInv, WrittenOnceTrue, OnceTrue
  <2>7. Places'
    <3> SUFFICES ASSUME NEW s \in Payments, NEW account \in Accounts
                 PROVE  Cardinality(Postings(s, account)') + Cardinality(Posters(s)')
                          <= Cardinality(Writers)
      BY DEF Places
    <3>1. CASE s = job[w]
      <4>1. Postings(s, account)' = {} /\ Cardinality(Postings(s, account)') = 0
        BY <1>2, <2>1, <3>1, FS_EmptySet DEF Postings, EntriesOf
      <4>2. Posters(s)' \in SUBSET Writers
        BY DEF Posters
      <4>3. Cardinality(Posters(s)') <= Cardinality(Writers) /\ IsFiniteSet(Posters(s)')
        BY <4>2, WritersAssumption, FS_Subset
      <4>4. Cardinality(Posters(s)') \in Nat /\ Cardinality(Writers) \in Nat
        BY <4>3, WritersAssumption, FS_CardinalityType
      <4> QED
        BY <4>1, <4>3, <4>4
    <3>2. CASE s # job[w]
      <4>1. Postings(s, account)' = Postings(s, account)
        BY <2>1 DEF Postings
      <4>2. Posters(s)' = Posters(s)
        BY <2>1, <2>2, <3>2 DEF Posters
      <4> QED
        BY <4>1, <4>2 DEF LedgerInv, Places
    <3> QED
      BY <3>1, <3>2
  <2> QED
    BY <2>3, <2>4, <2>5, <2>6, <2>7 DEF LedgerInv
<1> QED
  BY <1>1, <1>2

\* An entry is built on the balance of what is committed: its transaction has not moved
\* that account before.
LEMMA CreateLedger == ASSUME LedgerInv, NEW w \in Writers, CreateLedgerEntry(w) PROVE LedgerInv'
<1> DEFINE s == job[w]
           N == Len(written[w])
           m == Movements(s)[N + 1]
           entry == [payment |-> s, account |-> m.account, credit |-> m.credit,
                     balanceAfter |-> ComputeLedgerBalanceAfter(w, m)]
           more == Append(written[w], entry)
<1>1. /\ s \in Payments /\ written[w] \in Seq(Entries) /\ N \in Nat
      /\ ledger \in Seq(Entries) /\ Len(ledger) \in Nat /\ pc[w] = "post"
  BY DEF LedgerInv, LedgerTypeOK, CreateLedgerEntry
<1>2. N + 1 \in 1..Len(Movements(s)) /\ Len(Movements(s)) \in {2, 3}
  <2>1. Len(Movements(s)) \in {2, 3} /\ DOMAIN Movements(s) = 1..Len(Movements(s))
    BY <1>1, MovementsShape
  <2> QED
    BY <2>1 DEF CreateLedgerEntry
<1>3. m.account \in Accounts /\ m.credit \in Int
  BY <1>1, <1>2, MovementsShape
<1>4. Balance(Visible(w), m.account) = Balance(ledger, m.account)
  <2>1. \A n \in 1..N : written[w][n].account # m.account
    <3> SUFFICES ASSUME NEW n \in 1..N PROVE written[w][n].account # m.account
      OBVIOUS
    <3>1. written[w][n].account = Movements(s)[n].account /\ N <= Len(Movements(s))
      BY DEF LedgerInv, Moving
    <3>2. n \in 1..Len(Movements(s)) /\ n # N + 1
      BY <1>1, <1>2, <3>1
    <3> HIDE DEF N
    <3> QED
      BY <1>1, <1>2, <3>1, <3>2, MovedOnce
  <2>2. Balance(written[w], m.account) = 0
    BY <1>1, <2>1, BalanceNone
  <2>3. Balance(ledger, m.account) \in Int
    BY <1>1, BalanceType
  <2>4. Balance(ledger \o written[w], m.account)
          = Balance(ledger, m.account) + Balance(written[w], m.account)
    BY <1>1, BalanceConcat
  <2> HIDE DEF m
  <2> QED
    BY <2>2, <2>3, <2>4 DEF Visible
<1>5. entry.balanceAfter = Balance(ledger, m.account) + m.credit
      /\ Balance(ledger, m.account) \in Int
  BY <1>1, <1>4, BalanceType DEF ComputeLedgerBalanceAfter
<1>6. entry \in Entries /\ entry.payment = s /\ entry.account = m.account
      /\ entry.credit = m.credit
  <2> HIDE DEF m
  <2> QED
    BY <1>1, <1>3, <1>5 DEF Entries
<1>7. /\ written' = [written EXCEPT ![w] = more]
      /\ UNCHANGED <<paid, ledger, pc, job>>
  BY DEF CreateLedgerEntry
<1> HIDE DEF m, entry
<1>8. /\ more \in Seq(Entries) /\ Len(more) = N + 1 /\ more[N + 1] = entry
      /\ \A n \in 1..N : more[n] = written[w][n]
  BY <1>1, <1>6, AppendProperties
<1> HIDE DEF more
<1>9. /\ written' \in [Writers -> Seq(Entries)] /\ written'[w] = more
      /\ \A v \in Writers \ {w} : written'[v] = written[v]
  BY <1>7, <1>8 DEF LedgerInv, LedgerTypeOK
<1>10. LedgerTypeOK'
  BY <1>7, <1>9 DEF LedgerInv, LedgerTypeOK
<1>11. Moving'
  <2>1. ASSUME NEW n \in 1..Len(more)
        PROVE  /\ more[n].payment = s /\ more[n].account = Movements(s)[n].account
               /\ more[n].credit = Movements(s)[n].credit
    <3>1. CASE n = N + 1
      BY <1>6, <1>8, <3>1 DEF m
    <3>2. CASE n # N + 1
      <4>1. n \in 1..N
        BY <1>1, <1>8, <3>2
      <4> QED
        BY <1>8, <4>1 DEF LedgerInv, Moving
    <3> QED
      BY <3>1, <3>2
  <2>2. Len(more) <= Len(Movements(s))
    BY <1>1, <1>2, <1>8
  <2> SUFFICES ASSUME NEW v \in Writers
               PROVE  /\ written'[v] # << >> => pc[v] = "post"
                      /\ Len(written'[v]) <= Len(Movements(job[v]))
                      /\ \A n \in 1..Len(written'[v]) :
                            /\ written'[v][n].payment = job[v]
                            /\ written'[v][n].account = Movements(job[v])[n].account
                            /\ written'[v][n].credit = Movements(job[v])[n].credit
    BY <1>7 DEF Moving
  <2>3. CASE v = w
    BY <1>1, <1>9, <2>1, <2>2, <2>3
  <2>4. CASE v # w
    BY <1>9, <2>4 DEF LedgerInv, Moving
  <2> QED
    BY <2>3, <2>4
<1>12. AccountsBalance' /\ BalanceOnceTrue'
  BY <1>7 DEF LedgerInv, AccountsBalance, BalanceOnceTrue
<1>13. OnceTrue(entry, Len(ledger))
  <2>1. SubSeq(ledger, 1, Len(ledger)) = ledger /\ Len(ledger) \in 0..Len(ledger)
    BY <1>1, WholePrefix
  <2> QED
    BY <1>5, <1>6, <2>1 DEF OnceTrue
<1>14. WrittenOnceTrue'
  <2>1. ASSUME NEW v \in Writers, NEW n \in 1..Len(written'[v])
        PROVE  OnceTrue(written'[v][n], Len(ledger))
    <3>1. CASE v = w /\ n = N + 1
      BY <1>8, <1>9, <1>13, <3>1
    <3>2. CASE v = w /\ n # N + 1
      <4>1. n \in 1..N /\ written'[v][n] = written[w][n]
        BY <1>1, <1>8, <1>9, <3>2
      <4> QED
        BY <4>1 DEF LedgerInv, WrittenOnceTrue
    <3>3. CASE v # w
      BY <1>9, <3>3 DEF LedgerInv, WrittenOnceTrue
    <3> QED
      BY <3>1, <3>2, <3>3
  <2> QED
    BY <1>7, <2>1 DEF WrittenOnceTrue, OnceTrue
<1>15. Places'
  BY <1>7 DEF LedgerInv, Places, Postings, Posters
<1> QED
  BY <1>10, <1>11, <1>12, <1>14, <1>15 DEF LedgerInv

\* A transaction commits all its payment's movements, once, and gives its place up.
LEMMA CommitLedger == ASSUME LedgerInv, NEW w \in Writers, Commit(w) PROVE LedgerInv'
<1> DEFINE s == job[w]
           e == written[w]
           L == Len(ledger)
           N == Len(e)
<1>1. /\ s \in Payments /\ e \in Seq(Entries) /\ N \in Nat
      /\ ledger \in Seq(Entries) /\ L \in Nat /\ pc[w] = "post"
      /\ N = Len(Movements(s))
  BY DEF LedgerInv, LedgerTypeOK, Commit
<1>2. \A n \in 1..N : /\ e[n].payment = s /\ e[n].account = Movements(s)[n].account
                      /\ e[n].credit = Movements(s)[n].credit
  BY DEF LedgerInv, Moving
<1>3. ledger' = ledger \o e /\ Leave(w) /\ UNCHANGED <<paid, job>>
  BY DEF Commit
<1>4. /\ pc' \in [Writers -> {"idle", "look", "post"}]
      /\ pc'[w] = "idle" /\ \A v \in Writers \ {w} : pc'[v] = pc[v]
  BY <1>3, LedgerMoved DEF LedgerInv, Leave
<1>5. /\ written' \in [Writers -> Seq(Entries)] /\ written'[w] = << >>
      /\ \A v \in Writers \ {w} : written'[v] = written[v]
  BY <1>3 DEF LedgerInv, LedgerTypeOK, Leave
<1>6. /\ ledger' \in Seq(Entries) /\ Len(ledger') = L + N /\ DOMAIN ledger' = 1..(L + N)
      /\ \A i \in 1..(L + N) : ledger'[i] = IF i <= L THEN ledger[i] ELSE e[i - L]
  <2>1. /\ ledger \o e \in Seq(Entries) /\ Len(ledger \o e) = L + N
        /\ \A i \in 1..(L + N) : (ledger \o e)[i] = IF i <= L THEN ledger[i] ELSE e[i - L]
    <3>1. ledger \in Seq(Entries) /\ e \in Seq(Entries)
      BY <1>1
    <3> HIDE DEF e
    <3> QED
      BY <3>1, ConcatProperties
  <2>2. ledger' \in Seq(Entries) => DOMAIN ledger' = 1..Len(ledger')
    OBVIOUS
  <2> QED
    BY <1>3, <2>1, <2>2
<1>7. ASSUME NEW n \in 0..L PROVE SubSeq(ledger', 1, n) = SubSeq(ledger, 1, n)
  BY <1>1, <1>3, PrefixStays
<1>8. Balance(ledger', "CUSTOMER_FUNDS") + Balance(ledger', "MERCHANT_BALANCE")
        + Balance(ledger', "PLATFORM_FEES") = 0
  <2>1. Total(e) = 0
    BY <1>1, <1>2, MovementsTotal
  <2>2. \A a : /\ Balance(ledger', a) = Balance(ledger, a) + Balance(e, a)
               /\ Balance(ledger, a) \in Int /\ Balance(e, a) \in Int
    BY <1>1, <1>3, BalanceConcat, BalanceType
  <2>3. Balance(ledger, "CUSTOMER_FUNDS") + Balance(ledger, "MERCHANT_BALANCE")
          + Balance(ledger, "PLATFORM_FEES") = 0
    BY DEF LedgerInv, AccountsBalance
  <2> HIDE DEF e
  <2> QED
    BY <2>1, <2>2, <2>3 DEF Total
<1> HIDE DEF e, s, L, N
<1>9. LedgerTypeOK'
  BY <1>3, <1>4, <1>5, <1>6 DEF LedgerInv, LedgerTypeOK
<1>10. Moving'
  <2> SUFFICES ASSUME NEW v \in Writers
               PROVE  /\ written'[v] # << >> => pc'[v] = "post"
                      /\ Len(written'[v]) <= Len(Movements(job[v]))
                      /\ \A n \in 1..Len(written'[v]) :
                            /\ written'[v][n].payment = job[v]
                            /\ written'[v][n].account = Movements(job[v])[n].account
                            /\ written'[v][n].credit = Movements(job[v])[n].credit
    BY <1>3 DEF Moving
  <2>1. CASE v = w
    <3>1. written'[v] = << >> /\ Len(written'[v]) = 0 /\ Len(Movements(job[v])) \in {2, 3}
      BY <1>1, <1>5, <2>1, MovementsShape DEF s
    <3> QED
      BY <3>1
  <2>2. CASE v # w
    <3>1. pc'[v] = pc[v] /\ written'[v] = written[v]
      BY <1>4, <1>5, <2>2
    <3> QED
      BY <3>1 DEF LedgerInv, Moving
  <2> QED
    BY <2>1, <2>2
<1>11. AccountsBalance'
  BY <1>8 DEF AccountsBalance
<1>12. BalanceOnceTrue'
  <2> SUFFICES ASSUME NEW i \in 1..(L + N)
               PROVE  \E last \in 0..(i - 1) :
                        ledger'[i].balanceAfter =
                          Balance(SubSeq(ledger', 1, last), ledger'[i].account)
                            + ledger'[i].credit
    BY <1>6 DEF BalanceOnceTrue
  <2>1. CASE i <= L
    <3>1. i \in DOMAIN ledger /\ ledger'[i] = ledger[i]
      BY <1>1, <1>6, <2>1 DEF L
    <3>2. PICK last \in 0..(i - 1) :
            ledger[i].balanceAfter =
              Balance(SubSeq(ledger, 1, last), ledger[i].account) + ledger[i].credit
      BY <3>1 DEF LedgerInv, BalanceOnceTrue
    <3>3. last \in 0..L
      BY <1>1, <2>1
    <3>4. SubSeq(ledger', 1, last) = SubSeq(ledger, 1, last)
      BY <1>7, <3>3
    <3> QED
      BY <3>1, <3>2, <3>4
  <2>2. CASE i > L
    <3>1. i - L \in 1..N /\ ledger'[i] = e[i - L]
      BY <1>1, <1>6, <2>2
    <3>2. OnceTrue(e[i - L], L)
      BY <3>1 DEF LedgerInv, WrittenOnceTrue, e, N, L
    <3>3. PICK last \in 0..L :
            ledger'[i].balanceAfter =
              Balance(SubSeq(ledger, 1, last), ledger'[i].account) + ledger'[i].credit
      BY <3>1, <3>2 DEF OnceTrue
    <3>4. last \in 0..(i - 1)
      BY <1>1, <2>2
    <3>5. SubSeq(ledger', 1, last) = SubSeq(ledger, 1, last)
      BY <1>7
    <3> QED
      BY <3>3, <3>4, <3>5
  <2> QED
    BY <1>1, <2>1, <2>2
<1>13. WrittenOnceTrue'
  <2> SUFFICES ASSUME NEW v \in Writers, NEW n \in 1..Len(written'[v])
               PROVE  OnceTrue(written[v][n], Len(ledger))'
    BY DEF WrittenOnceTrue
  <2>1. v # w /\ written'[v] = written[v]
    <3>1. Len(<< >>) = 0
      OBVIOUS
    <3> QED
      BY <1>5, <3>1
  <2>2. OnceTrue(written[v][n], L)
    BY <2>1 DEF LedgerInv, WrittenOnceTrue, L
  <2>3. PICK last \in 0..L :
          written[v][n].balanceAfter =
            Balance(SubSeq(ledger, 1, last), written[v][n].account) + written[v][n].credit
    BY <2>2 DEF OnceTrue
  <2>4. last \in 0..Len(ledger') /\ SubSeq(ledger', 1, last) = SubSeq(ledger, 1, last)
    BY <1>1, <1>6, <1>7
  <2> QED
    BY <2>1, <2>3, <2>4 DEF OnceTrue
<1>14. Places'
  <2> SUFFICES ASSUME NEW t \in Payments, NEW account \in Accounts
               PROVE  Cardinality(Postings(t, account)') + Cardinality(Posters(t)')
                        <= Cardinality(Writers)
    BY DEF Places
  <2> DEFINE P == Postings(t, account)
             Q == Posters(t)
             P1 == Postings(t, account)'
             Q1 == Posters(t)'
  <2>1. /\ IsFiniteSet(P) /\ Cardinality(P) \in Nat
        /\ IsFiniteSet(Q) /\ Cardinality(Q) \in Nat /\ Cardinality(Writers) \in Nat
    BY LedgerFinite DEF LedgerInv
  <2>2. IsFiniteSet(P1) /\ Cardinality(P1) \in Nat
        /\ IsFiniteSet(Q1) /\ Cardinality(Q1) \in Nat
    <3>1. P1 \in SUBSET (1..(L + N)) /\ Q1 \in SUBSET Writers
      BY <1>6 DEF Postings, Posters
    <3>2. IsFiniteSet(1..(L + N))
      BY <1>1, FS_Interval
    <3>3. IsFiniteSet(P1) /\ IsFiniteSet(Q1)
      BY <3>1, <3>2, WritersAssumption, FS_Subset
    <3> QED
      BY <3>3, FS_CardinalityType
  <2>3. Cardinality(P) + Cardinality(Q) <= Cardinality(Writers)
    BY DEF LedgerInv, Places
  <2>4. Q1 = Q \ {w}
    BY <1>3, <1>4 DEF Posters
  <2>5. \A i \in P1 : i \in P \/ (t = s /\ i > L /\ i - L \in 1..N
                                    /\ Movements(s)[i - L].account = account)
    <3> SUFFICES ASSUME NEW i \in P1, i \notin P
                 PROVE  t = s /\ i > L /\ i - L \in 1..N
                        /\ Movements(s)[i - L].account = account
      OBVIOUS
    <3>1. i \in 1..(L + N) /\ ledger'[i].payment = t /\ ledger'[i].account = account
      BY <1>6 DEF Postings
    <3>2. i > L
      BY <1>1, <1>6, <3>1 DEF Postings, L
    <3>3. i - L \in 1..N /\ ledger'[i] = e[i - L]
      BY <1>1, <1>6, <3>1, <3>2
    <3> QED
      BY <1>2, <3>1, <3>2, <3>3
  <2>6. P \subseteq P1
    BY <1>1, <1>6 DEF Postings, L
  <2> HIDE DEF P, Q, P1, Q1
  <2>7. CASE t # s
    <3>1. P1 = P
      BY <2>5, <2>6, <2>7
    <3>2. Cardinality(Q1) <= Cardinality(Q)
      BY <2>1, <2>4, FS_Subset
    <3>3. Cardinality(P1) + Cardinality(Q1) <= Cardinality(Writers)
      BY <2>1, <2>2, <2>3, <3>1, <3>2
    <3> QED
      BY <3>3 DEF P1, Q1
  <2>8. CASE t = s
    <3>1. w \in Q
      BY <1>1, <2>8 DEF Q, Posters, s
    <3>2. Cardinality(Q1) = Cardinality(Q) - 1
      BY <2>1, <2>4, <3>1, FS_RemoveElement
    <3>3. Cardinality(P1) <= Cardinality(P) + 1
      <4>1. CASE P1 = P
        BY <2>1, <4>1
      <4>2. CASE P1 # P
        <5>1. PICK i \in P1 : i \notin P
          BY <2>6, <4>2
        <5>2. P1 \subseteq P \cup {i}
          <6> SUFFICES ASSUME NEW k \in P1, k \notin P PROVE k = i
            OBVIOUS
          <6>1. /\ i - L \in 1..Len(Movements(s)) /\ k - L \in 1..Len(Movements(s))
                /\ Movements(s)[i - L].account = Movements(s)[k - L].account
            BY <1>1, <2>5, <5>1
          <6>2. i - L = k - L
            BY <1>1, <6>1, MovedOnce
          <6>3. i \in Int /\ k \in Int
            BY <5>1, <1>6 DEF P1, Postings
          <6> QED
            BY <1>1, <6>2, <6>3
        <5>3. Cardinality(P \cup {i}) = Cardinality(P) + 1 /\ IsFiniteSet(P \cup {i})
          BY <2>1, <5>1, FS_AddElement
        <5>4. Cardinality(P1) <= Cardinality(P \cup {i})
          BY <5>2, <5>3, FS_Subset
        <5> QED
          BY <5>3, <5>4
      <4> QED
        BY <4>1, <4>2
    <3>4. Cardinality(P1) + Cardinality(Q1) <= Cardinality(Writers)
      BY <2>1, <2>2, <2>3, <3>2, <3>3
    <3> QED
      BY <3>4 DEF P1, Q1
  <2> QED
    BY <2>7, <2>8
<1> QED
  BY <1>9, <1>10, <1>11, <1>12, <1>13, <1>14 DEF LedgerInv

-----------------------------------------------------------------------------
(* The ledger: the theorems *)

LEMMA LedgerStep == LedgerInv /\ [LedgerNext]_ledgerVars => LedgerInv'
<1> SUFFICES ASSUME LedgerInv, [LedgerNext]_ledgerVars PROVE LedgerInv'
  OBVIOUS
<1>1. ASSUME UNCHANGED <<ledger, pc, job, written>>, paid' \in [Payments -> BOOLEAN]
      PROVE  LedgerInv'
  <2>1. LedgerTypeOK' /\ Moving'
    BY <1>1 DEF LedgerInv, LedgerTypeOK, Moving
  <2>2. \A s \in Payments : Posters(s)' \subseteq Posters(s)
    BY <1>1 DEF Posters
  <2> QED
    BY <1>1, <2>1, <2>2, LedgerQuiet
<1>2. CASE UNCHANGED ledgerVars
  BY <1>1, <1>2 DEF ledgerVars, LedgerInv, LedgerTypeOK
<1>3. ASSUME NEW s \in Payments, StatusMoves(s) PROVE LedgerInv'
  <2>1. paid' \in [Payments -> BOOLEAN]
    BY <1>3 DEF StatusMoves, LedgerInv, LedgerTypeOK
  <2> QED
    BY <1>1, <1>3, <2>1 DEF StatusMoves
<1>4. ASSUME NEW w \in Writers, Writer(w) PROVE LedgerInv'
  <2>1. CASE Abort(w)
    BY <2>1, LeaveLedger DEF Abort
  <2> QED
    BY <1>4, <2>1, BeginLedger, LookLedger, CreateLedger, CommitLedger DEF Writer
<1> QED
  BY <1>2, <1>3, <1>4 DEF LedgerNext

LEMMA LedgerInvariant == LedgerSpec => []LedgerInv
<1> QED
  BY LedgerInit0, LedgerStep, PTL DEF LedgerSpec

\* The ledger's variables have their types, each balance is a number.
THEOREM LedgerTypeCorrect == LedgerSpec => []LedgerTypeOK
<1>1. LedgerInv => LedgerTypeOK
  BY DEF LedgerInv
<1> QED
  BY <1>1, LedgerInvariant, PTL

\* Whatever the payments' amounts, and whoever posts twice or is rolled back: the accounts
\* balance to zero at all times.
THEOREM LedgerBalances == LedgerSpec => []AccountsBalance
<1>1. LedgerInv => AccountsBalance
  BY DEF LedgerInv
<1> QED
  BY <1>1, LedgerInvariant, PTL

\* Of n writers at a time none more than n post a payment; a writer alone posts it once,
\* also when it is repeated after a rollback.
THEOREM PostedOncePerWriter == LedgerSpec => []PostedPerWriter
<1>1. LedgerInv => PostedPerWriter
  <2> SUFFICES ASSUME LedgerInv, NEW s \in Payments, NEW account \in Accounts
               PROVE  Cardinality(Postings(s, account)) <= Cardinality(Writers)
    BY DEF PostedPerWriter, Postings
  <2>1. /\ Cardinality(Postings(s, account)) \in Nat /\ Cardinality(Posters(s)) \in Nat
        /\ Cardinality(Writers) \in Nat
    BY LedgerFinite DEF LedgerInv
  <2>2. Cardinality(Postings(s, account)) + Cardinality(Posters(s)) <= Cardinality(Writers)
    BY DEF LedgerInv, Places
  <2> QED
    BY <2>1, <2>2
<1> QED
  BY <1>1, LedgerInvariant, PTL

\* An entry's balanceAfter is built on a balance its account has had: nothing that was
\* rolled back counts, and nothing of another account.
THEOREM BuiltOnABalance == LedgerSpec => []BalanceOnceTrue
<1>1. LedgerInv => BalanceOnceTrue
  BY DEF LedgerInv
<1> QED
  BY <1>1, LedgerInvariant, PTL

-----------------------------------------------------------------------------
(* Payouts: the inductive invariant *)

\* The type invariant in three parts: the tables, the requests and the webhooks.
Sets == /\ rows \subseteq Rows
        /\ status \in [References -> PayoutStatuses \cup {"none"}]
        /\ answers \subseteq Answers

RequestTypes == request \in [Clients -> Requests]

HookTypes ==
    /\ provider \in [References -> SUBSET Words]
    /\ processed \subseteq Events
    /\ hook \in [Hooks -> Webhooks]

\* The indexes: a key, and a reference, is of one row.
RowsUnique ==
    \A a, b \in rows : a.key = b.key \/ a.ref = b.ref => a = b

\* An answer that is not a refusal names the row of its key.
AnswersStand ==
    \A a \in answers : a.got # "conflict" => [key |-> a.key, ref |-> a.got] \in rows

\* A webhook in hand says what the provider did.
HooksTrue ==
    \A h \in Hooks : hook[h].step # "idle" => hook[h].event.word \in provider[hook[h].event.ref]

\* A webhook that is to write has read a status that admits what it writes.
SnapsAdmit ==
    \A h \in Hooks : hook[h].step = "write" =>
        CanTransitionPayoutStatus(hook[h].snap, MapDerivPayoutStatus(hook[h].event.word))

\* A status, and a webhook that is to write one, is of a row.
OfRows ==
    /\ \A r \in References : status[r] # "none" => \E row \in rows : row.ref = r
    /\ \A h \in Hooks : hook[h].step = "write" => \E row \in rows : row.ref = hook[h].event.ref

IInv == Sets /\ RequestTypes /\ HookTypes
        /\ RowsUnique /\ AnswersStand /\ HooksTrue /\ SettledTruthfully /\ SnapsAdmit
        /\ OfRows

USE DEF At, RowOf, Answer, Proceed, Done, Idle, Requests, Webhooks

-----------------------------------------------------------------------------
\* Initially.
LEMMA IInvInit == Init => IInv
  BY SMT DEF Init, IInv, Sets, RequestTypes, HookTypes, RowsUnique, AnswersStand, HooksTrue, SettledTruthfully, SnapsAdmit, OfRows

\* A word is mapped into the statuses.
LEMMA Mapped ==
  \A word \in Words : MapDerivPayoutStatus(word) \in PayoutStatuses
  BY SMT DEF Words, MapDerivPayoutStatus, PayoutStatuses

\* Where no row, status or webhook about to write is new, all are still of rows.
LEMMA OfRowsKept ==
    ASSUME IInv, UNCHANGED <<rows, status>>,
           \A h \in Hooks : hook'[h].step = "write" => hook'[h] = hook[h]
    PROVE  OfRows'
  BY DEF IInv, OfRows

-----------------------------------------------------------------------------
(* Payouts: createPayout *)

\* What the requests leave alone: the webhooks' side of the invariant.
LEMMA HooksApart ==
    ASSUME IInv, UNCHANGED <<provider, processed, hook>>
    PROVE  /\ HookTypes' /\ HooksTrue' /\ SnapsAdmit'
           /\ UNCHANGED <<rows, status>> => OfRows'
<1>1. provider' = provider /\ processed' = processed /\ hook' = hook
  OBVIOUS
<1>2. HookTypes'
  BY <1>1 DEF IInv, HookTypes
<1>3. HooksTrue'
  BY <1>1 DEF IInv, HooksTrue
<1>4. SnapsAdmit'
  BY <1>1 DEF IInv, SnapsAdmit
<1>5. UNCHANGED <<rows, status>> => OfRows'
  BY <1>1, OfRowsKept
<1> QED
  BY <1>2, <1>3, <1>4, <1>5

LEMMA AskInv ==
    ASSUME IInv, NEW c \in Clients, NEW key \in Keys, NEW ref \in References,
           CreatePayout(c, key, ref) \/ RequestLost(c)
    PROVE  IInv'
<1>1. RequestTypes'
  <2>1. CASE CreatePayout(c, key, ref)
    BY <2>1 DEF IInv, RequestTypes, CreatePayout
  <2>2. CASE RequestLost(c)
    BY <2>2 DEF IInv, RequestTypes, RequestLost
  <2> QED
    BY <2>1, <2>2
<1>2. UNCHANGED <<rows, status, answers, provider, processed, hook>>
  BY DEF CreatePayout, RequestLost
<1> QED
  BY <1>1, <1>2, HooksApart
     DEF IInv, Sets, RowsUnique, AnswersStand, SettledTruthfully

\* An answer naming the row of the request's key may be given.
LEMMA AnswerInv ==
    ASSUME IInv, NEW c \in Clients, NEW got \in References \cup {"conflict"},
           request[c].step \in {"find", "insert", "refetch"},
           got # "conflict" => [key |-> request[c].key, ref |-> got] \in rows',
           Answer(c, got), rows \subseteq rows'
    PROVE  /\ RequestTypes' /\ answers' \subseteq Answers /\ AnswersStand'
<1>1. request[c].key \in Keys /\ request[c].ref \in References
  BY DEF IInv, RequestTypes
<1>2. RequestTypes'
  BY DEF IInv, RequestTypes
<1>3. answers' \subseteq Answers
  BY <1>1 DEF IInv, Sets, Answers
<1>4. AnswersStand'
  BY DEF IInv, AnswersStand
<1> QED
  BY <1>2, <1>3, <1>4

LEMMA FoundInv ==
    ASSUME IInv, NEW c \in Clients, FindExisting(c) \/ Refetch(c)
    PROVE  IInv'
<1>1. UNCHANGED <<rows, status, provider, processed, hook>>
  BY DEF FindExisting, Refetch
<1>2. request[c].step \in {"find", "insert", "refetch"}
  BY DEF FindExisting, Refetch
<1>3. CASE Proceed(c, "insert")
  <2>1. RequestTypes'
    BY <1>2, <1>3 DEF IInv, RequestTypes
  <2>2. UNCHANGED answers
    BY <1>3
  <2> QED
    BY <1>1, <2>1, <2>2, HooksApart
       DEF IInv, Sets, RowsUnique, AnswersStand, SettledTruthfully
<1>4. ASSUME NEW row \in RowOf(request[c].key), Answer(c, row.ref)
      PROVE  IInv'
  <2>1. row \in rows /\ row.key = request[c].key /\ row \in Rows
    BY DEF IInv, Sets
  <2>2. row.ref \in References /\ row = [key |-> request[c].key, ref |-> row.ref]
    BY <2>1 DEF Rows
  <2>3. RequestTypes' /\ answers' \subseteq Answers /\ AnswersStand'
    BY <1>1, <1>2, <1>4, <2>1, <2>2, AnswerInv
  <2> QED
    BY <1>1, <2>3, HooksApart
       DEF IInv, Sets, RowsUnique, SettledTruthfully
<1> QED
  BY <1>3, <1>4 DEF FindExisting, Refetch

LEMMA InsertInv ==
    ASSUME IInv, NEW c \in Clients, Insert(c)
    PROVE  IInv'
<1> DEFINE r == request[c]
           new == [key |-> r.key, ref |-> r.ref]
<1>1. r.key \in Keys /\ r.ref \in References /\ r.step = "insert"
  BY DEF IInv, RequestTypes, Insert
<1>2. UNCHANGED <<provider, processed, hook>>
  BY DEF Insert
<1>3. CASE Answer(c, "conflict") /\ UNCHANGED <<rows, status>>
  <2>1. RequestTypes' /\ answers' \subseteq Answers /\ AnswersStand'
    BY <1>1, <1>3, AnswerInv
  <2> QED
    BY <1>2, <1>3, <2>1, HooksApart
       DEF IInv, Sets, RowsUnique, SettledTruthfully
<1>4. CASE Proceed(c, "refetch") /\ UNCHANGED <<rows, status>>
  <2>1. RequestTypes'
    BY <1>1, <1>4 DEF IInv, RequestTypes
  <2> QED
    BY <1>2, <1>4, <2>1, HooksApart
       DEF IInv, Sets, RowsUnique, AnswersStand, SettledTruthfully
<1>5. ASSUME \A row \in rows : row.ref # r.ref, ~KeyTaken(r.key),
             rows' = rows \cup {new}, status' = [status EXCEPT ![r.ref] = "CREATED"],
             Answer(c, r.ref)
      PROVE  IInv'
  <2>1. RequestTypes' /\ answers' \subseteq Answers /\ AnswersStand'
    BY <1>1, <1>5, AnswerInv
  <2>2. rows' \subseteq Rows
    BY <1>1, <1>5 DEF IInv, Sets, Rows
  <2>3. status' \in [References -> PayoutStatuses \cup {"none"}]
    BY <1>1, <1>5 DEF IInv, Sets, PayoutStatuses
  <2>4. RowsUnique'
    BY <1>5 DEF IInv, RowsUnique, KeyTaken
  <2>5. SettledTruthfully'
    BY <1>1, <1>2, <1>5 DEF IInv, Sets, SettledTruthfully
  <2>6. OfRows'
    BY <1>1, <1>2, <1>5 DEF IInv, Sets, OfRows
  <2> QED
    BY <1>2, <2>1, <2>2, <2>3, <2>4, <2>5, <2>6, HooksApart DEF IInv, Sets
<1> QED
  BY <1>3, <1>4, <1>5 DEF Insert

-----------------------------------------------------------------------------
(* Payouts: the webhooks and the provider *)

\* What the webhooks leave alone: the requests' side of the invariant.
LEMMA RequestsApart ==
    ASSUME IInv, UNCHANGED <<rows, request, answers>>
    PROVE  /\ rows' \subseteq Rows /\ answers' \subseteq Answers
           /\ RequestTypes' /\ RowsUnique' /\ AnswersStand'
  BY DEF IInv, Sets, RequestTypes, RowsUnique, AnswersStand

LEMMA ReceivedInv ==
    ASSUME IInv, NEW h \in Hooks, NEW ref \in References, NEW word \in Words,
           WebhookReceived(h, ref, word)
    PROVE  IInv'
<1>1. UNCHANGED <<rows, status, request, answers, provider, processed>>
  BY DEF WebhookReceived
<1>2. hook' = [hook EXCEPT ![h] = [step |-> "begin", event |-> [ref |-> ref, word |-> word]]]
  BY DEF WebhookReceived
<1>3. [ref |-> ref, word |-> word] \in Events /\ word \in provider[ref]
  BY DEF WebhookReceived, Events
<1>4. HookTypes' /\ HooksTrue' /\ SnapsAdmit'
  BY <1>1, <1>2, <1>3 DEF IInv, HookTypes, HooksTrue, SnapsAdmit
<1>5. OfRows'
  BY <1>1, <1>2, OfRowsKept DEF IInv, HookTypes
<1> QED
  BY <1>1, <1>4, <1>5, RequestsApart DEF IInv, Sets, SettledTruthfully

\* A webhook that is done leaves the others as they were.
LEMMA DoneInv ==
    ASSUME IInv, NEW h \in Hooks, Done(h), UNCHANGED provider, processed' \subseteq Events
    PROVE  /\ HookTypes' /\ HooksTrue' /\ SnapsAdmit'
           /\ \A g \in Hooks : hook'[g].step = "write" => hook'[g] = hook[g]
<1>1. /\ hook' \in [Hooks -> Webhooks] /\ hook'[h] = Idle
      /\ \A g \in Hooks \ {h} : hook'[g] = hook[g]
  BY DEF IInv, HookTypes
<1>2. \A g \in Hooks : hook'[g] # hook[g] => hook'[g].step = "idle"
  BY <1>1
<1>3. HookTypes'
  BY <1>1 DEF IInv, HookTypes
<1>4. HooksTrue'
  BY <1>2 DEF IInv, HooksTrue
<1>5. SnapsAdmit'
  BY <1>2 DEF IInv, SnapsAdmit
<1> QED
  BY <1>2, <1>3, <1>4, <1>5

LEMMA BeginInv ==
    ASSUME IInv, NEW h \in Hooks, WebhookBegin(h)
    PROVE  IInv'
<1> DEFINE event == hook[h].event
           to    == MapDerivPayoutStatus(event.word)
<1>1. UNCHANGED <<rows, status, request, answers, provider>>
  BY DEF WebhookBegin
<1>2. event \in Events /\ event.ref \in References /\ hook[h].step = "begin"
  BY DEF IInv, HookTypes, WebhookBegin, Events
<1>3. HookTypes' /\ HooksTrue' /\ SnapsAdmit' /\ OfRows'
  <2>1. CASE Done(h) /\ processed' \in {processed, processed \cup {event}}
    <3>1. processed' \subseteq Events
      BY <1>2, <2>1 DEF IInv, HookTypes
    <3> QED
      BY <1>1, <2>1, <3>1, DoneInv, OfRowsKept
  <2>2. CASE /\ Admits(event.ref, to) /\ UNCHANGED processed
             /\ hook' = [hook EXCEPT ![h] =
                    [step |-> "write", event |-> event, snap |-> status[event.ref]]]
    <3>1. status[event.ref] \in PayoutStatuses
      BY <1>2, <2>2 DEF IInv, Sets, Admits
    <3>2. CanTransitionPayoutStatus(status[event.ref], to)
      BY <2>2 DEF Admits
    <3>3. HookTypes'
      BY <1>1, <1>2, <2>2, <3>1 DEF IInv, HookTypes
    <3>4. HooksTrue'
      BY <1>1, <1>2, <2>2 DEF IInv, Sets, HooksTrue
    <3>5. SnapsAdmit'
      BY <2>2, <3>2 DEF IInv, Sets, SnapsAdmit
    <3>6. OfRows'
      BY <1>1, <1>2, <2>2 DEF IInv, HookTypes, OfRows, Admits
    <3> QED
      BY <3>3, <3>4, <3>5, <3>6
  <2> QED
    BY <2>1, <2>2 DEF WebhookBegin
<1> QED
  BY <1>1, <1>3, RequestsApart DEF IInv, Sets, SettledTruthfully

LEMMA CommitInv ==
    ASSUME IInv, NEW h \in Hooks, WebhookCommit(h)
    PROVE  IInv'
<1> DEFINE event == hook[h].event
           to    == MapDerivPayoutStatus(event.word)
<1>1. /\ UNCHANGED <<rows, request, answers, provider>>
      /\ status' = [status EXCEPT ![event.ref] = to]
      /\ processed' = processed \cup {event} /\ Done(h)
  BY DEF WebhookCommit
<1>2. /\ event \in Events /\ event.ref \in References /\ event.word \in Words
      /\ event.word \in provider[event.ref]
  BY DEF IInv, HookTypes, HooksTrue, WebhookCommit, Events
<1>3. to \in PayoutStatuses
  BY <1>2, Mapped
<1>4. status' \in [References -> PayoutStatuses \cup {"none"}]
  BY <1>1, <1>2, <1>3 DEF IInv, Sets
<1>5. processed' \subseteq Events
  BY <1>1, <1>2 DEF IInv, HookTypes
<1>6. SettledTruthfully'
  <2>1. /\ to = "SUCCESS" => event.word = "paid"
        /\ to = "FAILED" => event.word \in {"failed", "reversed"}
    BY <1>2, SMT DEF MapDerivPayoutStatus, Words
  <2> QED
    BY <1>1, <1>2, <2>1 DEF IInv, Sets, SettledTruthfully
<1>7. OfRows'
  BY <1>1, <1>2, <1>5, DoneInv DEF IInv, Sets, HookTypes, OfRows, WebhookCommit
<1> QED
  BY <1>1, <1>4, <1>5, <1>6, <1>7, DoneInv, RequestsApart DEF IInv, Sets

LEMMA ProviderInv ==
    ASSUME IInv, NEW ref \in References, NEW word \in Words, ProviderMoves(ref, word)
    PROVE  IInv'
<1>1. /\ UNCHANGED <<rows, status, request, answers, processed, hook>>
      /\ provider' = [provider EXCEPT ![ref] = @ \cup {word}]
  BY DEF ProviderMoves
<1>2. /\ provider' \in [References -> SUBSET Words]
      /\ \A r \in References : provider[r] \subseteq provider'[r]
  BY <1>1 DEF IInv, HookTypes
<1>3. \A h \in Hooks : hook[h].step # "idle" => hook[h].event.ref \in References
  BY DEF IInv, HookTypes, Events
<1>4. HookTypes' /\ HooksTrue' /\ SnapsAdmit'
  BY <1>1, <1>2, <1>3 DEF IInv, HookTypes, HooksTrue, SnapsAdmit
<1>5. SettledTruthfully'
  BY <1>1, <1>2 DEF IInv, SettledTruthfully
<1>6. OfRows'
  BY <1>1, OfRowsKept
<1> QED
  BY <1>1, <1>4, <1>5, <1>6, RequestsApart DEF IInv, Sets

-----------------------------------------------------------------------------
(* Payouts: the theorems *)

LEMMA LostInv ==
    ASSUME IInv, NEW h \in Hooks, WebhookLost(h)
    PROVE  IInv'
<1>1. Done(h) /\ UNCHANGED <<rows, status, request, answers, provider, processed>>
  BY DEF WebhookLost
<1>2. processed' \subseteq Events
  BY <1>1 DEF IInv, HookTypes
<1> QED
  BY <1>1, <1>2, DoneInv, OfRowsKept, RequestsApart DEF IInv, Sets, SettledTruthfully

LEMMA StepInv ==
    ASSUME IInv, [Next]_vars
    PROVE  IInv'
<1>1. ASSUME NEW c \in Clients, NEW key \in Keys, NEW ref \in References, CreatePayout(c, key, ref)
      PROVE  IInv'
  BY <1>1, AskInv
<1>2. ASSUME NEW c \in Clients, RequestLost(c)
      PROVE  IInv'
  <2>1. request[c].key \in Keys /\ request[c].ref \in References
    BY <1>2 DEF IInv, RequestTypes, RequestLost
  <2> QED
    BY <1>2, <2>1, AskInv
<1>3. ASSUME NEW c \in Clients, FindExisting(c) \/ Insert(c) \/ Refetch(c)
      PROVE  IInv'
  BY <1>3, FoundInv, InsertInv
<1>4. ASSUME NEW h \in Hooks, NEW ref \in References, NEW word \in Words,
             WebhookReceived(h, ref, word)
      PROVE  IInv'
  BY <1>4, ReceivedInv
<1>5. ASSUME NEW h \in Hooks, WebhookBegin(h) \/ WebhookCommit(h) \/ WebhookLost(h)
      PROVE  IInv'
  BY <1>5, BeginInv, CommitInv, LostInv
<1>6. ASSUME NEW ref \in References, NEW word \in Words, ProviderMoves(ref, word)
      PROVE  IInv'
  BY <1>6, ProviderInv
<1>7. CASE UNCHANGED vars
  BY <1>7, HooksApart, RequestsApart DEF vars, IInv, Sets, SettledTruthfully
<1> QED
  BY <1>1, <1>2, <1>3, <1>4, <1>5, <1>6, <1>7 DEF Next

LEMMA Invariance == Spec => []IInv
  BY IInvInit, StepInv, PTL DEF Spec

\* Every variable has its type.
THEOREM TypeCorrect == Spec => []TypeOK
<1>1. IInv => TypeOK
  BY DEF IInv, Sets, RequestTypes, HookTypes, TypeOK
<1> QED
  BY <1>1, Invariance, PTL

\* For every number of clients, keys and references: the answers given to a key that
\* are not refusals name one and the same payout.
THEOREM ReplaysAgree == Spec => []ReplayAgrees
<1>1. IInv => ReplayAgrees
  BY DEF IInv, RowsUnique, AnswersStand, ReplayAgrees
<1> QED
  BY <1>1, Invariance, PTL

\* For every number of webhooks in any order: a payout is SUCCESS only if the provider
\* paid it, FAILED only if the provider failed or reversed it.
THEOREM SettlementTrue == Spec => []SettledTruthfully
<1>1. IInv => SettledTruthfully
  BY DEF IInv
<1> QED
  BY <1>1, Invariance, PTL

\* A payout's status leaves the transition table only under a webhook whose read was
\* overtaken by another's commit.
THEOREM Orderliness == Spec => OrderlyUnlessOvertaken
<1>1. ASSUME IInv, [Next]_vars
      PROVE  StatusOrderly
  <2> SUFFICES ASSUME NEW r \in References, status[r] # "none",
                      ~CanTransitionPayoutStatus(status[r], status'[r])
               PROVE  \E h \in Hooks : hook[h].step = "write" /\ hook'[h].step = "idle"
                                       /\ hook[h].event.ref = r /\ hook[h].snap # status[r]
    BY DEF StatusOrderly
  <2>1. status'[r] # status[r]
    BY DEF CanTransitionPayoutStatus
  <2>2. CASE \E c \in Clients : Insert(c)
    <3>1. PICK c \in Clients : Insert(c)
      BY <2>2
    <3>2. request[c].ref \in References
      BY <1>1, <3>1 DEF IInv, RequestTypes, Insert
    <3>3. status' = [status EXCEPT ![request[c].ref] = "CREATED"] /\ status[request[c].ref] = "none"
      BY <1>1, <2>1, <3>1, <3>2 DEF IInv, OfRows, Insert
    <3> QED
      BY <1>1, <2>1, <3>2, <3>3 DEF IInv, Sets
  <2>3. ASSUME NEW h \in Hooks, WebhookCommit(h)
        PROVE  hook[h].event.ref = r /\ hook[h].snap # status[r]
    <3>1. /\ hook[h].event.ref = r
          /\ status'[r] = MapDerivPayoutStatus(hook[h].event.word)
      BY <1>1, <2>1, <2>3 DEF IInv, Sets, HookTypes, Events, WebhookCommit
    <3> QED
      BY <1>1, <2>3, <3>1 DEF IInv, SnapsAdmit, WebhookCommit
  <2>4. CASE UNCHANGED status
    BY <2>1, <2>4
  <2>5. CASE \E h \in Hooks : WebhookCommit(h)
    <3>1. PICK h \in Hooks : WebhookCommit(h)
      BY <2>5
    <3>2. hook[h].step = "write" /\ hook'[h].step = "idle"
      BY <1>1, <3>1 DEF IInv, HookTypes, WebhookCommit
    <3> QED
      BY <2>3, <3>1, <3>2
  <2> QED
    BY <1>1, <2>2, <2>4, <2>5 DEF Next, vars, CreatePayout, FindExisting, Refetch, RequestLost,
       WebhookReceived, WebhookBegin, WebhookLost, ProviderMoves
<1> QED
  BY <1>1, Invariance, PTL DEF Spec, OrderlyUnlessOvertaken
=============================================================================
