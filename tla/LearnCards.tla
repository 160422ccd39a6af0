----------------------------- MODULE LearnCards ----------------------------
(* The glossary's learning cards (glossary_learn_engine.py): boxes and due *)
(* days, levels that open one after the other, the sessions put together   *)
(* from both, and the cards seeded anew at every start (db_schema.py).     *)
(* An answer reads the card's state and writes it in two statements.       *)
EXTENDS Naturals, Sequences, FiniteSetsExt

CONSTANTS Threads, Cards, Levels, Seeds, Size, LastDay, MaxReviews, MaxStarts

VARIABLES
  cards,     \* learn_cards: the level of each card, NoLevel if it is not there
  state,     \* learn_term_state; box 0 stands for no row
  day,       \* the date
  at,        \* the answer in each thread
  reviews,   \* history: the answers to each card since its state was last deleted
  raced,     \* history: cards with two answers at once
  starts     \* restarts, for the bound

vars == <<cards, state, day, at, reviews, raced, starts>>

NoLevel == 0
NoState == [box |-> 0, due |-> 0, total |-> 0]
NoAnswer == [card |-> 0, read |-> NoState, now |-> 0]
Interval == <<1, 3, 7, 14, 30>>
Less(a, b) == IF a <= b THEN a ELSE b

\* Cards are numbers, in the order of their keys; a seed gives each its level.
Init ==
  /\ cards \in Seeds /\ state = [c \in Cards |-> NoState] /\ day = 0
  /\ at = [t \in Threads |-> NoAnswer] /\ reviews = [c \in Cards |-> 0] /\ raced = {} /\ starts = 0

There == {c \in Cards : cards[c] # NoLevel}

-----------------------------------------------------------------------------
(* get_answer.                                                             *)

Read(t, c) ==
  /\ at[t].card = 0 /\ c \in There /\ at' = [at EXCEPT ![t] = [card |-> c, read |-> state[c], now |-> day]]
  /\ raced' = IF \E u \in Threads : at[u].card = c THEN raced \cup {c} ELSE raced
  /\ UNCHANGED <<cards, state, day, reviews, starts>>

\* apply_grade.
Box(old, grade) ==
  CASE grade = "good" -> Less(old + 1, 5)
    [] grade = "hard" -> IF old = 0 THEN 1 ELSE old
    [] grade = "fail" -> 1
Graded(s, grade, now) ==
  [box |-> Box(s.box, grade), due |-> now + Interval[Box(s.box, grade)], total |-> s.total + 1]
Answered == MapThenSumSet(LAMBDA d : reviews[d], Cards)
Write(t, grade) ==
  LET c == at[t].card
  IN /\ c # 0 /\ Answered < MaxReviews
     /\ state' = [state EXCEPT ![c] = Graded(at[t].read, grade, at[t].now)]
     /\ reviews' = [reviews EXCEPT ![c] = @ + 1] /\ at' = [at EXCEPT ![t] = NoAnswer]
     /\ UNCHANGED <<cards, day, raced, starts>>

\* _seed_learn_cards, at a start: the state of cards that are gone is deleted.
Restart(seed) ==
  /\ starts < MaxStarts /\ starts' = starts + 1
  /\ cards' = seed /\ state' = [c \in Cards |-> IF seed[c] = NoLevel THEN NoState ELSE state[c]]
  /\ reviews' = [c \in Cards |-> IF seed[c] = NoLevel THEN 0 ELSE reviews[c]]
  /\ at' = [t \in Threads |-> NoAnswer]
  /\ UNCHANGED <<day, raced>>
DaysPass(n) == day + n <= LastDay /\ day' = day + n /\ UNCHANGED <<cards, state, at, reviews, raced, starts>>

-----------------------------------------------------------------------------
(* What is shown.                                                          *)

In(level) == {c \in There : cards[c] = level}
(* Variant: a card counts while it is out of the first box. *)
OutOfTheFirst(level) == {c \in In(level) : state[c].box > 1}
Studied(level) == {c \in In(level) : state[c].total > 0}
Opens(level) == In(level) # {} /\ 5 * Cardinality(Studied(level)) >= 4 * Cardinality(In(level))
\* _level_unlocked_map: one locked level keeps those after it locked.
Unlocked == {l \in Levels : \A k \in Levels : k < l => Opens(k)}

Due == {c \in There : state[c].box > 0 /\ state[c].due <= day}
New(levels) == {c \in There : cards[c] \in levels /\ state[c].total = 0}
\* Pairs of which the first goes first.
InOrder == {p \in Cards \X Cards : p[1] < p[2]}
ByDay == {p \in Cards \X Cards :
            state[p[1]].due < state[p[2]].due \/ (state[p[1]].due = state[p[2]].due /\ p \in InOrder)}
ByLevel == {p \in Cards \X Cards : cards[p[1]] < cards[p[2]] \/ (cards[p[1]] = cards[p[2]] /\ p \in InOrder)}
Sorted(S, order) ==
  [n \in 1..Cardinality(S) |-> CHOOSE c \in S : Cardinality({d \in S : <<d, c>> \in order}) = n - 1]
First(n, s) == [i \in 1..Less(n, Len(s)) |-> s[i]]
\* build_session: what is due, then new cards of the levels that are open, or of all.
Open(all) == IF all THEN Levels ELSE Unlocked
NewCards(all) == Sorted(New(Open(all)) \ Due, ByLevel)
Session(all) ==
  LET due == First(Size, Sorted(Due, ByDay)) IN due \o First(Size - Len(due), NewCards(all))
\* ... or the cards of one section.
SectionSession(level) ==
  First(Size, Sorted(Due \cap In(level), ByDay) \o Sorted(In(level) \ Due, InOrder))

Next ==
  \/ \E t \in Threads : (\E c \in Cards : Read(t, c)) \/ (\E g \in {"good", "hard", "fail"} : Write(t, g))
  \/ \E seed \in Seeds : Restart(seed)
  \/ \E n \in {1, 3} : DaysPass(n)

Spec == Init /\ [][Next]_vars

-----------------------------------------------------------------------------
(* Properties.                                                             *)

Members(s) == {s[i] : i \in DOMAIN s}
NoRepeats(s) == \A i, j \in DOMAIN s : s[i] = s[j] => i = j

\* A session repeats no card, is filled when there is enough, leaves no due card out for a
\* new one or for one that is due later, and brings no new card of a locked level unless
\* asked to (build_session, _level_unlocked_map).
Fair(s, all) ==
  LET shown == Due \cup New(Open(all))
      left == shown \ Members(s)
  IN /\ NoRepeats(s) /\ Len(s) <= Size /\ Members(s) \subseteq shown
     /\ Len(s) < Size => left = {}
     /\ left \cap Due # {} => Members(s) \subseteq Due
     /\ \A c \in Members(s) \cap Due, d \in left \cap Due : state[c].due <= state[d].due
SessionsAreFair ==
  /\ \A all \in BOOLEAN : Fair(Session(all), all)
  /\ \A l \in Levels : LET s == SectionSession(l)
                       IN /\ NoRepeats(s) /\ Members(s) \subseteq In(l)
                          /\ (In(l) \cap Due) \ Members(s) # {} => Members(s) \subseteq Due

\* Answers only bring levels nearer: one that is open stays open until the cards are
\* seeded anew (apply_grade, _level_unlocked_map).
KeepsOpen == cards' = cards => Unlocked \subseteq Unlocked'
LevelsStayOpen == [][KeepsOpen]_vars

\* A card that was ever studied comes back: it is due within thirty days, and every answer
\* counts unless two to the same card were given at once (get_answer).
StudiedComesBack ==
  \A c \in There : /\ reviews[c] > 0 <=> state[c].box > 0
                   /\ state[c].box > 0 => state[c].box <= 5 /\ state[c].due <= day + 30
                   /\ c \notin raced => state[c].total = reviews[c]
=============================================================================
