----------------------------- MODULE MCSession -----------------------------
(***************************************************************************)
(* Instances of Session for TLC.                                           *)
(***************************************************************************)
EXTENDS Session

CONSTANTS left, right, alice, bob

TwoTabs == {left, right}
OnlyHome == {"home"}
TwoPeople == {alice, bob}

Allow(submits, links, signOuts, reloads, writes, losses, expiries) ==
    [submit |-> submits, link |-> links, signOut |-> signOuts, reload |-> reloads,
     write |-> writes, lost |-> losses, expire |-> expiries]

\* Two forms and a write; everything that fails or expires; links and a reload.
Visits == {Allow(2, 0, 1, 0, 1, 0, 0), Allow(1, 0, 1, 0, 1, 1, 1), Allow(1, 1, 1, 1, 0, 0, 0)}
=============================================================================
