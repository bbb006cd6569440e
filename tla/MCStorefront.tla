----------------------------- MODULE MCStorefront -----------------------------
(* What a customer does beside buying: the rewards, the checkout page and    *)
(* the form.                                                                 *)
EXTENDS TopUpForm, Naturals, Parts

CONSTANTS Calls, Spins, TargetSize, MaxPoints,
          Requests, MaxPollAttempts

\* a squad has a place beside its leader's
ASSUME StoreAssumption ==
    /\ TargetSize \in Nat /\ TargetSize >= 2
    /\ MaxPoints \in Nat /\ MaxPollAttempts \in Nat

VARIABLES checkins, spin, balance, recorded, pool, box, call, died, disturbed,
          status, order, request, polling, attempts, loading, error, failed

Customer == INSTANCE Rewards
Page == INSTANCE CheckoutPage WITH NoOrder <- None

rewardVars == <<checkins, spin, balance, recorded, pool, box, call, died, disturbed>>
pageVars == <<status, order, request, polling, attempts, loading, error, failed>>
storeRows == <<rewardVars, pageVars, formVars>>
storeVars == <<checked, storeRows>>
StoreParts == {"points", "squads", "boxes", "page", "form"}
StoreStart ==
    /\ Customer!Init /\ FormInit /\ Page!Init
    /\ checked # "page" => status = "PENDING"

OfCustomer(part, step) == Of(part, step, <<pageVars, formVars>>)
OfPage(step) == Of("page", step, <<rewardVars, formVars>>)

StoreNext ==
    \/ OfCustomer("points", Customer!Points)
    \/ OfCustomer("squads", Customer!Squads)
    \/ OfCustomer("boxes", Customer!Boxes)
    \/ OfPage(Page!Next)
    \/ Of("form", FormNext, <<rewardVars, pageVars>>)

\* CheckoutPage's Fairness, when it is the part checked
StoreFairness ==
    /\ \A r \in Requests :
          WF_storeVars(OfPage(Page!Answers(r) \/ Page!FetchFails(r) \/ Page!VerifyFails(r)))
    /\ WF_storeVars(OfPage(\E r \in Requests : Page!Timers(r)))

StoreSpec ==
    checked \in StoreParts /\ StoreStart /\ [][StoreNext]_storeVars /\ StoreFairness

\* Every row, call and page of the three parts keeps its type.
StoreTypeOK == Customer!TypeOK /\ Page!TypeOK /\ FormTypeOK

\* The properties of Rewards and CheckoutPage, stated there.
PointsAreAccounted == Customer!PointsAreAccounted
TwiceNeedsDisturbance == Customer!TwiceNeedsDisturbance
PoolAddsUp == Customer!PoolAddsUp
DeliveredIsShown == checked = "page" => Page!DeliveredIsShown
=============================================================================
