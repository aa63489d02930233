----------------------------- MODULE MCOnline -----------------------------
(* What TLC checks of the desktop program on the network, in one run: a    *)
(* behaviour is one of the synchronisation of some games, of the search    *)
(* for an update, or of the policy that decides at a start whether the     *)
(* program may go online.                                                  *)
EXTENDS MCGameSync, UpdateOffer, ReleasePolicy

CONSTANTS first, second   \* two builds

VARIABLE runs   \* the part that is at work

\* Of the manifests about three versions and two builds, two are signed.
SignedManifests ==
    {[version |-> 2, build |-> first], [version |-> 3, build |-> second]}

onlineVars == <<vars, offerVars, policyVars, runs>>

NoOffer  == OfferInit /\ current = 1
NoPolicy == PolicyInit /\ installed = 1 /\ row.minimum = 0

OnlineInit ==
    /\ Init
    /\ \/ runs = "sync"   /\ NoOffer   /\ NoPolicy
       \/ runs = "offer"  /\ OfferInit /\ NoPolicy
       \/ runs = "policy" /\ NoOffer   /\ PolicyInit

OnlineNext ==
    \/ runs = "sync"   /\ Next       /\ UNCHANGED <<offerVars, policyVars, runs>>
    \/ runs = "offer"  /\ OfferNext  /\ UNCHANGED <<vars, policyVars, runs>>
    \/ runs = "policy" /\ PolicyNext /\ UNCHANGED <<vars, offerVars, runs>>

OnlineSpec == OnlineInit /\ [][OnlineNext]_onlineVars
=============================================================================
