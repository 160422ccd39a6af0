-------------------------- MODULE MCServicesRules --------------------------
(* Instances of services for TLC, one at a time: the postings of an        *)
(* account and its books, Treasury Bills without a crash, repairs of daily *)
(* bars by themselves, the coordinator of cache refreshes against its      *)
(* abstract specification, and the weekly shortlist.  A behaviour follows  *)
(* the service `focus`; the variables of the others stay as they start.    *)
EXTENDS CacheRefresh, Integers, Sequences, TLC

CONSTANTS
  Operators, Occurrences, TransfersMade, None, Fallible, MaxFaults, MaxCrashes,
  Bills, Sweeps, Price, Faces, FailingDeals,
  Ops, LastDate, Suspect, Quotes, Fixes, Gone, NoRepair, Removed, MaxFailures,
  Quantities, Prices, Fees, Earnings, Movements, MaxRows,
  Tickers, Sectors, Params, MaxHeld

ASSUME PostingsAssumption == Occurrences \intersect TransfersMade = {} /\ MaxCrashes \in Nat
ASSUME BillsAssumption ==
  /\ Price \in Nat /\ Faces \subseteq Nat /\ MaxFaults \in Nat
  /\ Operators \intersect Sweeps = {}
ASSUME RepairsAssumption ==
  /\ LastDate \in Nat \ {0, 1} /\ Suspect \subseteq 1 .. LastDate
  /\ Quotes # {} /\ Gone \notin Quotes \union Fixes
  /\ {NoRepair, Removed} \intersect Fixes = {} /\ NoRepair # Removed
  /\ None \notin Ops /\ MaxFailures \in Nat
ASSUME LedgerAssumption ==
  /\ Quantities \subseteq Nat \ {0} /\ Prices \subseteq Nat
  /\ Fees \subseteq Int /\ Earnings \subseteq Int /\ Movements \subseteq Int
ASSUME ShortlistAssumption ==
  /\ IsFiniteSet(Tickers) /\ MaxHeld \in Nat \ {0}
  /\ Params \subseteq [topk : Nat, n_drop : Nat, hold_thresh : Nat, sector_cap : Nat]

VARIABLES
  focus,
  entries, due, thread, failed, crashes, overlapped, early,
  deals, row, age, dealer, missed, met,
  file, saved, quant, score, lock, op, refresh, failures, mixed,
  held, taken, given,
  rows

Postings == INSTANCE AccountPostings
  WITH Threads <- Operators, Transfers <- TransfersMade, ledger <- entries, pending <- due
Dealing == INSTANCE TreasuryBills
  WITH Requests <- Operators, Fallible <- FailingDeals, MaxCrashes <- 0, crashes <- 0,
       ledger <- deals, thread <- dealer, failed <- missed, overlapped <- met
Repairs == INSTANCE PriceRepair
  WITH Kinds <- {"repair"}, Refreshing <- FALSE, MaxCrashes <- 0, crashes <- 0, Nothing <- NoRepair
Shortlist == INSTANCE StableShortlist
Books == INSTANCE AccountLedger

postingVars == <<entries, due, thread, failed, crashes, overlapped, early>>
dealVars == <<deals, row, age, dealer, missed, met>>
repairVars == <<file, saved, quant, score, lock, op, refresh, failures, mixed>>
shortlistVars == <<held, taken, given>>
ruleVars == <<focus, postingVars, dealVars, repairVars, refreshVars, shortlistVars, rows>>

OneWorkerEach == [background |-> 1, awaited |-> 1]
Withdrawn == {-1}
Settings == {[topk |-> 3, n_drop |-> 1, hold_thresh |-> 2, sector_cap |-> 2],
             [topk |-> 2, n_drop |-> 2, hold_thresh |-> 1, sector_cap |-> 1]}
Names == Permutations(Operators)

StartOne ==
  /\ focus \in {"postings", "books", "deals", "repairs", "flights", "shortlist"}
  /\ Init /\ Postings!Init /\ Dealing!Init /\ Repairs!Init /\ Shortlist!Init /\ Books!Init

StepOne ==
  /\ UNCHANGED focus
  /\ IF focus = "postings" THEN Postings!Next ELSE UNCHANGED postingVars
  /\ IF focus = "deals" THEN Dealing!Next ELSE UNCHANGED dealVars
  /\ IF focus = "repairs" THEN Repairs!Next ELSE UNCHANGED repairVars
  /\ IF focus = "flights" THEN Next ELSE UNCHANGED refreshVars
  /\ IF focus = "shortlist" THEN Shortlist!Next ELSE UNCHANGED shortlistVars
  /\ IF focus = "books" THEN Books!Next ELSE UNCHANGED rows

SpecOne == StartOne /\ [][StepOne]_ruleVars

-----------------------------------------------------------------------------
(* The properties of the modules, each stated and explained there.         *)
(* FlightsServed and AcceptedIsCarriedOut are those of CacheRefresh itself. *)

\* StableShortlist: the list obeys its limits and changes little, but no place is
\* left free and no swap left out that was allowed.
ShortlistIsBest ==
  focus = "shortlist" => Shortlist!TypeOK /\ Shortlist!ListIsSound /\ Shortlist!ChangesAreSmall
                         /\ Shortlist!FreePlacesFilled /\ Shortlist!NoSwapMissed

Posted == focus = "postings" => Postings!TypeOK /\ Postings!TransfersWhole /\ Postings!PostedAsResolved
\* AccountPostings: transfers are whole, exactly what was confirmed is posted, and a
\* decision is final.
PostedWhole == []Posted /\ Postings!ResolvedOnce

Reconciled == focus = "deals" => Dealing!TypeOK /\ Dealing!Reconciled /\ Dealing!MaturedIsPaid
\* TreasuryBills: bills and ledger agree after operations that came one after the other,
\* what matured was paid out, and a matured bill keeps its payout, whatever operations
\* overlap and calls fail.
BooksAgreeTogether == []Reconciled /\ Dealing!MaturityIsFinal

Repaired ==
  focus = "repairs" => Repairs!TypeOK /\ Repairs!RepairsApplied /\ Repairs!ScoresFollowRepairs
\* PriceRepair: by themselves, repairs replace the history they verified, keep the scores in
\* agreement with the registry and, as long as each read the history that it replaced, the
\* file too, and when refused leave all other bars alone.
RepairsReplaceOnlyTheirs == []Repaired /\ Repairs!ReplacesWhatItVerified /\ Repairs!RefusalHarmless

\* AccountLedger: cash and holdings balance, at an average cost that is a price.
BooksBalance == focus = "books" => Books!BooksBalance /\ Books!AverageIsAPrice
=============================================================================
