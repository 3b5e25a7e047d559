------------------------------ MODULE MCIntake -------------------------------
(* Instances of Intake for TLC. *)
EXTENDS Intake, TLC

CONSTANTS p1, p2, k1, named, unnamed, intent, r1

\* A payment with a reference of its own, one without that names its gateway, an intent.
SomeScope == (named :> "payments.create") @@ (unnamed :> "payments.create")
                @@ (intent :> "payment_intents.create")
SomeReference == (named :> r1) @@ (unnamed :> NoReference) @@ (intent :> NoReference)
SomeGateway == (named :> "AUTO") @@ (unnamed :> "EXPLICIT") @@ (intent :> "AUTO")

\* 1.5 % of 34 cents is just over half a cent, of 33 just under.
SomeAmount == (named :> 34) @@ (unnamed :> 33) @@ (intent :> 34)

\* A starter that goes by the plan's fee, a scale plan with a fixed fee of its own.
SomeMerchants ==
    {[plan |-> "starter", fee |-> [fixed |-> 0, bps |-> 0]],
     [plan |-> "scale", fee |-> [fixed |-> 2, bps |-> 0]]}
SomePlanFee == [plan \in Plans |->
                    IF plan = "starter" THEN [fixed |-> 1, bps |-> 150] ELSE NoFee]
SomePlatformFee == [fixed |-> 5, bps |-> 0]

\* Monthly from the 28th before a new year, weekly from the one before a leap day.
SomeOffers == {[start |-> [y |-> 2027, m |-> 12, d |-> 28], interval |-> "MONTH"],
               [start |-> [y |-> 2028, m |-> 2, d |-> 28], interval |-> "WEEK"]}

Symmetry == Permutations({p1, p2})
=============================================================================
