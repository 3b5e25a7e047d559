------------------------------ MODULE MCSupport ------------------------------
(* Instances of Support for TLC. *)
EXTENDS Support, TLC

CONSTANTS p1, p2, s1, m1, m2, m3, ann, bob, annsName, bobsName, deskTitle,
          shopA, shopB

\* A message of one customer and two of another.
SomeFrom == (m1 :> ann) @@ (m2 :> bob) @@ (m3 :> bob)

\* m2 goes to another merchant and comes with another's contact only, under a name that is
\* new; m3 goes to the first and comes with the sender's own, which is not the first one
\* and has a name that both have.
SomeContacts ==
    (m1 :> << [waId |-> ann, name |-> annsName] >>)
    @@ (m2 :> << [waId |-> ann, name |-> bobsName] >>)
    @@ (m3 :> << [waId |-> ann, name |-> bobsName], [waId |-> bob, name |-> annsName] >>)

SomeMerchants == (m1 :> shopA) @@ (m2 :> shopB) @@ (m3 :> shopA)

Symmetry == Permutations({p1, p2})
=============================================================================
