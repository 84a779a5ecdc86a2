------------------------------ MODULE Catalog ------------------------------
(***************************************************************************)
(* What the publication ledger promises its readers, with the artifacts,   *)
(* the projection, the locks and the clocks left out.  A slug shows at     *)
(* most one version; a version that replaces another, or that follows a    *)
(* withdrawal, is newer than every version the slug ever showed, so that   *)
(* what was pulled or superseded never comes back.                         *)
(***************************************************************************)
EXTENDS Naturals

CONSTANTS Slugs,      \* skills, by their stable name
          MaxVersion  \* versions are 1 .. MaxVersion in semver order

VARIABLES live,       \* live[s]: the version s shows, as a set of at most one
          released    \* released[s]: every version s has ever shown

catalogVars == <<live, released>>

CatalogTypeOK ==
  /\ live \in [Slugs -> SUBSET (1 .. MaxVersion)]
  /\ released \in [Slugs -> SUBSET (1 .. MaxVersion)]

CatalogInit ==
  /\ live = [s \in Slugs |-> {}]
  /\ released = [s \in Slugs |-> {}]

\* A newer version becomes the one shown, whether s showed another or none.
Release(s, v) ==
  /\ \A u \in released[s] : u < v
  /\ live' = [live EXCEPT ![s] = {v}]
  /\ released' = [released EXCEPT ![s] = @ \cup {v}]

Withdraw(s) ==
  /\ live[s] # {}
  /\ live' = [live EXCEPT ![s] = {}]
  /\ UNCHANGED released

CatalogNext ==
  \E s \in Slugs :
    \/ \E v \in 1 .. MaxVersion : Release(s, v)
    \/ Withdraw(s)

CatalogSpec == CatalogInit /\ [][CatalogNext]_catalogVars
=============================================================================
