------------------------- MODULE MCServicesOutside -------------------------
(* Instances of services for TLC, one at a time, that face the outside:    *)
(* Yahoo behind the process-wide session, passwords and sessions, the      *)
(* keys, throttles and audit log of the MCP server, and the learning cards.*)
(* A behaviour follows the service `focus`; the variables of the others    *)
(* stay as they start.                                                     *)
EXTENDS McpKeys, Sequences, TLC

VARIABLES
  focus,
  mode, locked, ready, latch, cache, call, yahooReq, late, faults, calls, trips,
  env, file, failed, barred, links, sessions, stepUps, signReq, signOuts, out, filed, tried, resets, raced, crashes,
  now, spent, active, failures, lockedOut, refusals, notified, lastSweep, mcpReq, let, wrong, tripped, notices,
  pending, window, rows, suppressed, hand, entering, queue, writing, kept, missed, recorded,
  cards, cardState, day, answering, reviews, doubled, starts

CONSTANTS Callers, Tickers, Requests, Links, Addresses, Readers,
          Threshold, MaxFailed, MaxSessions, MaxSignOuts, MaxCrashes,
          MaxCalls, MaxTries, MaxTrips, Cap, QueueMax, MaxRecords,
          Rate, Slots, FailuresMax, MaxEntries, Minute, SweepEvery, Window, Lockout, LogEvery, Cooldown, MaxTime,
          Cards, Levels, Seeds, Size, LastDay, MaxReviews, MaxStarts

ASSUME RequestsAssumption == IsFiniteSet(Requests) /\ Requests # {}
ASSUME ThresholdAssumption == Threshold \in Nat
ASSUME AuditAssumption == Cap \in Nat /\ QueueMax \in Nat
ASSUME LimitsAssumption ==
  MaxEntries \in Nat \ {0} /\ {Rate, Slots, Minute, Window, Lockout, Cooldown, MaxTime} \subseteq Nat
ASSUME LearnAssumption ==
  /\ IsFiniteSet(Cards) /\ Cards \subseteq Nat \ {0} /\ Levels \subseteq Nat \ {0} /\ Size \in Nat
  /\ Seeds \subseteq [Cards -> Levels \cup {0}]
ASSUME TickersAssumption == IsFiniteSet(Tickers)

\* The levels of three cards, at one start and at another that moves two and lacks one.
MCSeeds == {<<1, 1, 2>>, <<0, 2, 1>>}

Yahoo == INSTANCE YahooAccess
  WITH req <- yahooReq
Signing == INSTANCE SignIns
  WITH locked <- barred, req <- signReq
Limits == INSTANCE McpLimits
  WITH calls <- spent, req <- mcpReq
Audit == INSTANCE McpAudit
Learn == INSTANCE LearnCards
  WITH Threads <- Readers, state <- cardState, at <- answering, raced <- doubled

yahooVars == <<mode, locked, ready, latch, cache, call, yahooReq, late, faults, calls, trips>>
signingVars == <<env, file, failed, barred, links, sessions, stepUps, signReq, signOuts, out, filed, tried, resets, raced, crashes>>
limitVars == <<now, spent, active, failures, lockedOut, refusals, notified, lastSweep, mcpReq, let, wrong, tripped, notices>>
auditVars == <<pending, window, rows, suppressed, hand, entering, queue, writing, kept, missed, recorded>>
learnVars == <<cards, cardState, day, answering, reviews, doubled, starts>>
outsideVars == <<focus, yahooVars, signingVars, limitVars, vars, auditVars, learnVars>>

\* Neither who calls, which request it is nor who reads matters.
WhoSymmetry == Permutations(Callers) \union Permutations(Requests) \union Permutations(Readers)

OutsideInit ==
  /\ focus \in {"yahoo", "sign-ins", "attempts", "links", "limits", "keys", "audit", "learn"}
  /\ Yahoo!Init /\ Signing!Init /\ Limits!Init /\ Init /\ Audit!Init /\ Learn!Init
  /\ focus # "learn" => cards = CHOOSE s \in Seeds : TRUE
  /\ focus # "yahoo" => mode = "plain" /\ ~latch

\* Over the one session bound to IPv6, calls of one ticker only.
OneAtATimeOverIPv6 == mode = "ipv6" => \A c \in Callers : Cardinality(call'[c].want) <= 1

OutsideNext ==
  /\ UNCHANGED focus
  /\ \/ /\ focus = "yahoo" /\ Yahoo!Next /\ OneAtATimeOverIPv6
        /\ UNCHANGED <<signingVars, limitVars, vars, auditVars, learnVars>>
     \/ /\ focus = "sign-ins" /\ Signing!Next /\ UNCHANGED <<links, failed>>
        /\ UNCHANGED <<yahooVars, limitVars, vars, auditVars, learnVars>>
     \/ /\ focus = "attempts" /\ Signing!Next /\ UNCHANGED <<links, stepUps>>
        /\ UNCHANGED <<yahooVars, limitVars, vars, auditVars, learnVars>>
     \/ /\ focus = "links" /\ Signing!Next /\ UNCHANGED <<failed, sessions>>
        /\ UNCHANGED <<yahooVars, limitVars, vars, auditVars, learnVars>>
     \/ focus = "limits" /\ Limits!Next /\ UNCHANGED <<yahooVars, signingVars, vars, auditVars, learnVars>>
     \/ focus = "keys" /\ Next /\ UNCHANGED <<yahooVars, signingVars, limitVars, auditVars, learnVars>>
     \/ focus = "audit" /\ Audit!Next /\ UNCHANGED <<yahooVars, signingVars, limitVars, vars, learnVars>>
     \/ focus = "learn" /\ Learn!Next /\ UNCHANGED <<yahooVars, signingVars, limitVars, vars, auditVars>>

OutsideSpec == OutsideInit /\ [][OutsideNext]_outsideVars
\* Sign-ins alone.
SignInsSpec == focus = "sign-ins" /\ OutsideInit /\ [][OutsideNext]_outsideVars

-----------------------------------------------------------------------------
(* The properties of the modules, each stated and explained there.         *)
(* KeysHold is that of McpKeys itself.                                     *)

Shared == focus = "yahoo" => Yahoo!TypeOK /\ Yahoo!OneAtTheSession /\ Yahoo!PauseIsKept /\ Yahoo!NobodyAsksTwice
\* YahooAccess: one caller at the session, none during a pause, none twice; and the
\* latch against IPv6 is final.
SessionIsShared == []Shared /\ [][focus = "yahoo" => Yahoo!LatchStays]_yahooVars

\* SignIns: who was signed out stays out, and wrong passwords are bounded.
StaysSignedOut ==
  /\ focus = "sign-ins" => Signing!TypeOK /\ Signing!StaysSignedOut
  /\ focus = "attempts" => Signing!LockBoundsTries
\* SignIns: what a sign-out promises, which the end of the process may take back.
NoneComesBack == Signing!NoneComesBack
\* SignIns: a reset link sets one password.
OneResetPerLink == focus = "links" => Signing!OneResetPerLink

Limited == focus = "limits" => Limits!TypeOK /\ Limits!CallsLimited /\ Limits!LockoutsHold
\* McpLimits: rate, slots and lockouts hold across sweeps, and notices about one
\* subject are a cooldown apart.
ThrottlesHold == []Limited /\ [][focus = "limits" => Limits!SpacesNotices]_limitVars

\* McpAudit: every recorded row is written, waiting, or counted as lost.
AuditIsComplete == focus = "audit" => Audit!EveryRowCounted /\ Audit!QueueBounded

Fair == focus = "learn" => Learn!SessionsAreFair /\ Learn!StudiedComesBack
\* LearnCards: what is due is shown, oldest first, then new cards of open levels; what
\* was studied comes back; and an open level stays open.
SessionsAreFair == []Fair /\ [][focus = "learn" => Learn!KeepsOpen]_learnVars
=============================================================================
