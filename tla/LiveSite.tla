------------------------------ MODULE LiveSite ------------------------------
(***************************************************************************)
(* What the publication protocol promises about the public site, with no   *)
(* tables, receipts or failures: which release is live, and which releases *)
(* have ever been.  Release.tla implements it (ImplementsLiveSite).        *)
(***************************************************************************)
EXTENDS Naturals

CONSTANT MaxReleases

VARIABLES live,       \* the release the site serves, 0 before the first one
          published   \* the releases that have ever been live

vars == <<live, published>>

Init == live = 0 /\ published = {}

\* A publication is newer than everything the public has ever seen.
Publish(r) ==
  /\ \A q \in published : q < r
  /\ published' = published \cup {r}
  /\ live' = r

\* A rollback restores an earlier release that the public has seen.
RollBack(r) ==
  /\ r \in published /\ r < live
  /\ live' = r
  /\ UNCHANGED published

Next == \E r \in 1..MaxReleases : Publish(r) \/ RollBack(r)

Spec == Init /\ [][Next]_vars
=============================================================================
