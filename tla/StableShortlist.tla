-------------------------- MODULE StableShortlist --------------------------
(***************************************************************************)
(* The weekly shortlist (stable_shortlist_engine.py): one snapshot a week  *)
(* of one list, made from the ranking of that week, the members of the     *)
(* last snapshot and how long they have been members, so that the list     *)
(* follows the ranking in small steps only.                                *)
(*                                                                         *)
(* Abstraction: a ranking is the sequence of the eligible tickers, best    *)
(* first; everything else is ineligible, left the scope or has no signal.  *)
(* Of a decision the membership and the snapshots held are kept.           *)
(***************************************************************************)
EXTENDS Naturals, FiniteSets, Sequences, Functions

CONSTANTS
  Tickers,
  Sectors,
  Params,     \* the settings in force: records of topk, n_drop, hold_thresh, sector_cap
  MaxHeld     \* bound: snapshots held are counted up to here

VARIABLES
  held,       \* held[t]: snapshots the member t has been held, 0 for a non-member
  taken,      \* this week's snapshot is written
  given       \* what the last snapshot was made from

shortlistVars == <<held, taken, given>>

Members(h) == {t \in Tickers : h[t] > 0}
Rankings == {r \in UNION {[1..n -> Tickers] : n \in 0..Cardinality(Tickers)} : IsInjective(r)}
SectorMaps == [Tickers -> Sectors]

Eligible(r) == {r[i] : i \in DOMAIN r}
Rank(r, t) == CHOOSE i \in DOMAIN r : r[i] = t
InSector(kept, sector, s) == Cardinality({m \in kept : sector[m] = s})

-----------------------------------------------------------------------------
(* select_members: three loops over the ranking, each the function of what *)
(* is kept after the first n of it.                                        *)

HasRoom(in, kept, t) == InSector(kept, in.sector, in.sector[t]) < in.params.sector_cap

(* Previous members that are still eligible, the best first, as far as     *)
(* their sector and the list have room.                                    *)
Carry(in, kept, t) ==
  IF t \in Members(in.prior) /\ HasRoom(in, kept, t) /\ Cardinality(kept) < in.params.topk
  THEN kept \cup {t} ELSE kept

Carrying(in) ==
  LET after[n \in 0..Len(in.ranking)] ==
        IF n = 0 THEN {} ELSE Carry(in, after[n - 1], in.ranking[n])
  IN after
Carried(in) == Carrying(in)[Len(in.ranking)]

(* Who was a member and is not carried does not come back this week.       *)
Dropped(in) == Members(in.prior) \ Carried(in)

Fill(in, out, kept, t) ==
  IF Cardinality(kept) < in.params.topk /\ t \notin kept \cup out /\ HasRoom(in, kept, t)
  THEN kept \cup {t} ELSE kept

Filling(in) ==
  LET out == Dropped(in)
      after[n \in 0..Len(in.ranking)] ==
        IF n = 0 THEN Carried(in) ELSE Fill(in, out, after[n - 1], in.ranking[n])
  IN after
Filled(in) == Filling(in)[Len(in.ranking)]

Removable(in, now, t) ==
  {m \in now.kept : /\ m \in Members(in.prior) /\ in.prior[m] >= in.params.hold_thresh
                    /\ Rank(in.ranking, m) > Rank(in.ranking, t)}

Partners(in, now, t) ==
  {m \in Removable(in, now, t) : in.sector[m] = in.sector[t] \/ HasRoom(in, now.kept, t)}

Worst(in, ms) == CHOOSE m \in ms : \A o \in ms : Rank(in.ranking, o) <= Rank(in.ranking, m)

NoMoreSwaps(in, now) == now.swaps >= in.params.n_drop

(* Variant: a candidate without a partner ends the swaps. *)
StopsAtBlocked(in, now, t) == Partners(in, now, t) = {}
NoneRemovable(in, now, t) == Removable(in, now, t) = {}

Swap(in, now, t) ==
  IF now.stop \/ NoMoreSwaps(in, now) \/ t \in now.kept \cup now.out THEN now
  ELSE IF NoneRemovable(in, now, t) THEN [now EXCEPT !.stop = TRUE]
  ELSE IF Partners(in, now, t) = {} THEN now
  ELSE LET m == Worst(in, Partners(in, now, t))
       IN [now EXCEPT !.kept = (@ \ {m}) \cup {t}, !.out = @ \cup {m}, !.swaps = @ + 1]

Swapping(in) ==
  LET after[n \in 0..Len(in.ranking)] ==
        IF n = 0 THEN [kept |-> Filled(in), out |-> Dropped(in), swaps |-> 0, stop |-> FALSE]
        ELSE Swap(in, after[n - 1], in.ranking[n])
  IN after
Swapped(in) == Swapping(in)[Len(in.ranking)]

Capped(n) == IF n < MaxHeld THEN n ELSE MaxHeld

(* A new member has been held for one snapshot. *)
Selected(in) == [t \in Tickers |-> IF t \in Swapped(in).kept THEN Capped(in.prior[t] + 1) ELSE 0]

-----------------------------------------------------------------------------
(* take_snapshot *)

Nothing == [ranking |-> <<>>]

Init ==
  /\ held = [t \in Tickers |-> 0]
  /\ taken = FALSE
  /\ given = Nothing

(* The settings are read on every run. *)
TakeSnapshot ==
  /\ ~taken
  /\ \E ranking \in Rankings, sector \in SectorMaps, params \in Params :
       given' = [ranking |-> ranking, sector |-> sector, params |-> params, prior |-> held]
  /\ held' = Selected(given')
  /\ taken' = TRUE

NewWeek ==
  /\ taken
  /\ taken' = FALSE
  /\ given' = Nothing
  /\ UNCHANGED held

Next == TakeSnapshot \/ NewWeek

Spec == Init /\ [][Next]_shortlistVars

-----------------------------------------------------------------------------
(* Properties: what a snapshot promises, told without the order in which   *)
(* it is made.                                                             *)

Prior == Members(given.prior)
Now == Members(held)
Better(t, u) == Rank(given.ranking, t) < Rank(given.ranking, u)
RoomFor(t) == InSector(Now, given.sector, given.sector[t]) < given.params.sector_cap

(* Members that must go although they are eligible: better members of the *)
(* last list fill their sector, or those their sectors had room for fill   *)
(* the list.                                                               *)
Ahead(t) == {u \in Prior \cap Eligible(given.ranking) : Better(u, t)}
Crowded(t) == InSector(Ahead(t), given.sector, given.sector[t]) >= given.params.sector_cap
Forced ==
  {t \in Prior \cap Eligible(given.ranking) :
     Crowded(t) \/ Cardinality({u \in Ahead(t) : ~Crowded(u)}) >= given.params.topk}

Voluntary == (Prior \cap Eligible(given.ranking)) \ (Now \cup Forced)

TypeOK == held \in [Tickers -> 0..MaxHeld] /\ taken \in BOOLEAN /\ (taken => given.prior \in [Tickers -> 0..MaxHeld])

(* The list is never longer than its size, no sector is over its cap, and  *)
(* nobody on it is ineligible, after any number of weeks, swaps and        *)
(* changes of the settings.                                                *)
ListIsSound ==
  taken => /\ Cardinality(Now) <= given.params.topk
           /\ \A s \in Sectors : InSector(Now, given.sector, s) <= given.params.sector_cap
           /\ Now \subseteq Eligible(given.ranking)

(* Few names change at a time, and none that is eligible goes before it    *)
(* was held for the minimum, unless the list or its sector had no room.    *)
ChangesAreSmall ==
  taken => /\ Cardinality(Voluntary) <= given.params.n_drop
           /\ \A t \in Voluntary : given.prior[t] >= given.params.hold_thresh

(* Free places are filled: if the list is short, every eligible name that  *)
(* was not on it is in a full sector.                                      *)
FreePlacesFilled ==
  taken /\ Cardinality(Now) < given.params.topk =>
    \A t \in Eligible(given.ranking) \ (Prior \cup Now) : ~RoomFor(t)

(* The swaps go as far as they may: while swaps are left, no eligible name *)
(* stays outside that ranks before a member that may go and fits in its    *)
(* place.                                                                  *)
NoSwapMissed ==
  taken /\ Cardinality(Voluntary) < given.params.n_drop =>
    \A t \in Eligible(given.ranking) \ (Prior \cup Now), m \in Now \cap Prior :
      Better(t, m) /\ given.prior[m] >= given.params.hold_thresh
        => given.sector[t] # given.sector[m] /\ ~RoomFor(t)
=============================================================================
