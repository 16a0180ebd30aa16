---------------------------- MODULE PortfolioBook ----------------------------
(***************************************************************************)
(* What the confirmed writes promise about the portfolio of a user,        *)
(* without calls, revisions or snapshots: a change that was confirmed      *)
(* replaces the portfolio at one instant, at most once, and a watchlist    *)
(* item, once it is added, stays there whatever else is written.           *)
(***************************************************************************)
EXTENDS Naturals

CONSTANTS Change, Item

VARIABLES watch, times

bookVars == <<watch, times>>

BookInit == watch = {} /\ times = [c \in Change |-> 0]

AddItem(i) ==
    /\ i \notin watch
    /\ watch' = watch \cup {i}
    /\ UNCHANGED times

ApplyChange(c) ==
    /\ times[c] = 0
    /\ times' = [times EXCEPT ![c] = 1]
    /\ UNCHANGED watch

BookNext == (\E i \in Item : AddItem(i)) \/ (\E c \in Change : ApplyChange(c))

BookSpec == BookInit /\ [][BookNext]_bookVars
=============================================================================
