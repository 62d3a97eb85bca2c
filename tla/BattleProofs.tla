---------------------------- MODULE BattleProofs ----------------------------
(***************************************************************************)
(* TLAPS proofs about Battle, for any number of participants, rounds and   *)
(* turns, whatever reactions and legendary actions they have and whatever  *)
(* the journey does in between: the turns of its combats, the types of all *)
(* rows, and the effects that end with concentration, time and combats.    *)
(***************************************************************************)
EXTENDS Battle, ExpeditionProofs

\* What is left of having acted until one's first turn ends.
Marked(b) ==
  b.turns > 0 \/ b.action \/ b.bonus \/ b.reacted \/ b.free \/ b.moved \/ b.legendary

\* A token names a turn that was opened, and that has ended unless it is open.
Windows == Nat \X Nat \X Nat
TokenPast(t) ==
  t[2] \in Players =>
    \/ t[3] < BudgetOf(t[2]).turns
    \/ active = t[2] /\ t[3] = BudgetOf(t[2]).turns

\* The budget of whose turn is open remembers the spells that were cast in it.
CastKept ==
  /\ active = NoOne => cast = {}
  /\ active # NoOne =>
       /\ active \in DOMAIN budget
       /\ "bonus" \in cast => BudgetOf(active).bonusSpell
       /\ "other" \in cast => BudgetOf(active).otherSpell = "other"

TurnsInv ==
  /\ TurnsTypeOK /\ CastKept /\ TurnsFair
  /\ \A p \in acted : active = p \/ Marked(BudgetOf(p))
  /\ \A p \in Players, t \in Windows : BudgetOf(p).token = t => TokenPast(t)

-----------------------------------------------------------------------------
\* Budgets

LEMMA FreshIsBudget == FreshBudget \in Budgets
<1>1. NoWindow \in Nat \X Nat \X Nat
  BY CompanionNumbers DEF NoWindow, NoOne
<1> QED
  BY <1>1 DEF FreshBudget, Budgets

LEMMA BudgetTypes ==
  ASSUME NEW b \in Budgets
  PROVE  /\ b.turns \in Nat /\ b.spent \in Nat /\ b.reactions \in Nat
         /\ b.surprised \in BOOLEAN /\ b.bonusSpell \in BOOLEAN
         /\ b.otherSpell \in {"none", "cantrip", "other"}
         /\ b.token \in Nat \X Nat \X Nat
  BY DEF Budgets

LEMMA BudgetOfTypes ==
  ASSUME TurnsTypeOK, NEW p \in Players PROVE BudgetOf(p) \in Budgets
  BY FreshIsBudget DEF TurnsTypeOK, BudgetOf

LEMMA EndedFacts ==
  ASSUME NEW b \in Budgets
  PROVE  /\ Ended(b) \in Budgets /\ Ended(b).turns = b.turns + 1
         /\ Ended(b).surprised = FALSE /\ Ended(b).token = b.token
         /\ Ended(b).spent = b.spent
<1> DEFINE one == [b EXCEPT !.turns = @ + 1]
           two == [one EXCEPT !.surprised = FALSE]
<1>1. /\ one \in Budgets /\ one.turns = b.turns + 1 /\ one.token = b.token
      /\ one.spent = b.spent
  BY DEF Budgets
<1> HIDE DEF one
<1>2. /\ two \in Budgets /\ two.turns = one.turns /\ two.surprised = FALSE
      /\ two.token = one.token /\ two.spent = one.spent
  BY <1>1 DEF Budgets
<1>3. Ended(b) = two
  BY DEF Ended, one, two
<1> QED
  BY <1>1, <1>2, <1>3

LEMMA RenewedFacts ==
  ASSUME NEW b \in Budgets
  PROVE  /\ Renewed(b) \in Budgets /\ Renewed(b).turns = b.turns
         /\ Renewed(b).surprised = b.surprised /\ Renewed(b).token = b.token
         /\ Renewed(b).spent = 0
<1> DEFINE one == [FreshBudget EXCEPT !.turns = b.turns]
           two == [one EXCEPT !.surprised = b.surprised]
           three == [two EXCEPT !.token = b.token]
<1>1. /\ b.turns \in Nat /\ b.surprised \in BOOLEAN /\ b.token \in Nat \X Nat \X Nat
  BY BudgetTypes
<1>2. FreshBudget.spent = 0
  BY DEF FreshBudget
<1>3. one \in Budgets /\ one.turns = b.turns /\ one.spent = 0
  BY <1>1, <1>2, FreshIsBudget DEF Budgets
<1> HIDE DEF one
<1>4. /\ two \in Budgets /\ two.turns = b.turns /\ two.surprised = b.surprised
      /\ two.spent = 0
  BY <1>1, <1>3 DEF Budgets
<1> HIDE DEF two
<1>5. /\ three \in Budgets /\ three.turns = b.turns /\ three.surprised = b.surprised
      /\ three.token = b.token /\ three.spent = 0
  BY <1>1, <1>4 DEF Budgets
<1>6. Renewed(b) = three
  BY DEF Renewed, one, two, three
<1> QED
  BY <1>5, <1>6

LEMMA NoOneIsNoPlayer == NoOne \notin Players /\ Lead \in Players /\ NoOne \in Nat
  BY CompanionNumbers DEF NoOne, Players, Lead

LEMMA BudgetKept ==
  ASSUME NEW p, NEW b, budget' = Keep(p, b)
  PROVE  /\ DOMAIN budget' = DOMAIN budget \cup {p}
         /\ BudgetOf(p)' = b
         /\ \A q : q # p => BudgetOf(q)' = BudgetOf(q)
<1>1. /\ DOMAIN budget' = DOMAIN budget \cup {p}
      /\ \A q \in DOMAIN budget \cup {p} : budget'[q] = IF q = p THEN b ELSE budget[q]
  BY DEF Keep
<1>2. BudgetOf(p)' = b
  BY <1>1 DEF BudgetOf
<1>3. ASSUME NEW q, q # p PROVE BudgetOf(q)' = BudgetOf(q)
  <2>1. BudgetOf(q)' = IF q \in DOMAIN budget' THEN budget'[q] ELSE FreshBudget'
    BY DEF BudgetOf
  <2>2. FreshBudget' = FreshBudget
    BY DEF FreshBudget, NoWindow
  <2> QED
    BY <1>1, <1>3, <2>1, <2>2 DEF BudgetOf
<1> QED
  BY <1>1, <1>2, <1>3

\* What the first test of a typed budget table becomes after one is kept.
LEMMA KeptTypes ==
  ASSUME TurnsTypeOK, NEW p \in Players, NEW b \in Budgets, budget' = Keep(p, b)
  PROVE  DOMAIN budget' \subseteq Players /\ \A q \in DOMAIN budget' : budget'[q] \in Budgets
  BY DEF TurnsTypeOK, Keep

-----------------------------------------------------------------------------
\* Spending

\* The spells of the open turn, after p with its new budget b has cast some.
CastsWell(p, b) ==
  /\ cast' \subseteq {"bonus", "cantrip", "other"}
  /\ ~ {"bonus", "other"} \subseteq cast'
  /\ p # active => cast' = cast
  /\ p = active => /\ "bonus" \in cast' => b.bonusSpell
                   /\ "other" \in cast' => b.otherSpell = "other"

\* The option of this window is used now, or nothing is said of options.
OptsWell(p, b) ==
  \/ b.token = BudgetOf(p).token /\ opted' = opted
  \/ b.token = Window /\ active \notin {p, NoOne} /\ opted' = opted \cup {p}

\* No turn is counted.
SameTurns == /\ round' = round /\ active' = active
             /\ \A q \in Players : BudgetOf(q)'.turns = BudgetOf(q).turns

LEMMA SpendKeeps ==
  ASSUME TurnsInv, NEW p \in Players, NEW b \in Budgets, Spends(p, b),
         ~ BudgetOf(p).surprised, b.surprised = BudgetOf(p).surprised,
         b.turns = BudgetOf(p).turns, Marked(b), b.spent <= Legends[p],
         CastsWell(p, b), OptsWell(p, b)
  PROVE  TurnsInv' /\ SameTurns
<1>1. /\ budget' = Keep(p, b) /\ acted' = acted \cup {p}
      /\ round' = round /\ active' = active
  BY DEF Spends
<1>2. /\ TurnsTypeOK /\ CastKept /\ TurnsFair
      /\ \A q \in acted : active = q \/ Marked(BudgetOf(q))
      /\ \A q \in Players, t \in Windows : BudgetOf(q).token = t => TokenPast(t)
  BY DEF TurnsInv
<1>3. /\ DOMAIN budget' = DOMAIN budget \cup {p} /\ BudgetOf(p)' = b
      /\ \A q : q # p => BudgetOf(q)' = BudgetOf(q)
  BY <1>1, BudgetKept
<1>4. \A q : BudgetOf(q)'.turns = BudgetOf(q).turns
  BY <1>3
<1>5. Window' = Window
  BY <1>1, <1>4 DEF Window
<1>6. TurnsTypeOK'
  <2>1. DOMAIN budget' \subseteq Players /\ \A q \in DOMAIN budget' : budget'[q] \in Budgets
    BY <1>1, <1>2, KeptTypes
  <2>2. opted' \subseteq Players
    BY <1>2 DEF OptsWell, TurnsTypeOK
  <2> QED
    BY <1>1, <1>2, <2>1, <2>2 DEF TurnsTypeOK, CastsWell
<1>7. CastKept'
  BY <1>1, <1>2, <1>3, NoOneIsNoPlayer DEF CastKept, CastsWell
<1>8. \A q \in acted' : ~ BudgetOf(q)'.surprised /\ (active' = q \/ Marked(BudgetOf(q)'))
  BY <1>1, <1>2, <1>3 DEF TurnsFair
<1>9. active # NoOne => \A q \in Players : q \in opted' <=> BudgetOf(q)'.token = Window
  BY <1>2, <1>3 DEF OptsWell, TurnsFair
<1>10. \A q \in Players : BudgetOf(q)'.spent <= Legends[q]
  BY <1>2, <1>3 DEF TurnsFair
<1>11. TurnsFair'
  BY <1>1, <1>5, <1>8, <1>9, <1>10 DEF TurnsFair, CastsWell
<1>12. ASSUME NEW q \in Players, NEW t \in Windows, BudgetOf(q)'.token = t
       PROVE  TokenPast(t)'
  <2>1. CASE t = BudgetOf(q).token
    BY <2>1, <1>1, <1>2, <1>4 DEF TokenPast
  <2>2. CASE t = Window
    <3>1. t[2] = active /\ t[3] = BudgetOf(active).turns
      BY <2>2 DEF Window
    <3> QED
      BY <3>1, <1>1, <1>4 DEF TokenPast
  <2> QED
    BY <2>1, <2>2, <1>3, <1>12 DEF OptsWell
<1> QED
  BY <1>1, <1>4, <1>6, <1>7, <1>8, <1>11, <1>12 DEF TurnsInv, SameTurns

-----------------------------------------------------------------------------
\* A turn begins

LEMMA RestedFacts ==
  ASSUME NEW b \in Budgets
  PROVE  LET c == [b EXCEPT !.reactions = 0] IN
         /\ c \in Budgets /\ c.turns = b.turns /\ c.surprised = b.surprised
         /\ c.token = b.token /\ c.spent = b.spent
         /\ Marked(b) => Marked(c)
  BY DEF Budgets, Marked

LEMMA EndedMarked == ASSUME NEW b \in Budgets PROVE Marked(Ended(b))
<1>1. Ended(b).turns = b.turns + 1 /\ b.turns \in Nat
  BY EndedFacts, BudgetTypes
<1> QED
  BY <1>1 DEF Marked

\* One turn more for whose turn was open.
Elapsed(q) == BudgetOf(q).turns + (IF q = active THEN 1 ELSE 0)

LEMMA OthersOpened ==
  ASSUME TurnsInv, NEW p \in Players, NEW b, budget' = Opened(p, b),
         NEW q \in Players, q # p
  PROVE  LET c == BudgetOf(q)' IN
         /\ c \in Budgets /\ c.turns = Elapsed(q)
         /\ c.token = BudgetOf(q).token /\ c.spent = BudgetOf(q).spent
         /\ ~ BudgetOf(q).surprised => ~ c.surprised
         /\ active = q \/ Marked(BudgetOf(q)) => Marked(c)
<1> DEFINE left == IF q = active THEN Ended(budget[q]) ELSE budget[q]
<1>1. /\ DOMAIN budget' = DOMAIN budget \cup {p}
      /\ q \in DOMAIN budget =>
           budget'[q] = IF q \in Tireless THEN [left EXCEPT !.reactions = 0] ELSE left
  BY DEF Opened
<1>2. TurnsTypeOK /\ q # NoOne /\ CastKept
  BY NoOneIsNoPlayer DEF TurnsInv
<1>3. CASE q \notin DOMAIN budget
  <2>1. q # active
    BY <1>2, <1>3 DEF CastKept
  <2>2. BudgetOf(q)' = FreshBudget /\ BudgetOf(q) = FreshBudget
    BY <1>1, <1>3 DEF BudgetOf, FreshBudget, NoWindow
  <2>3. FreshBudget.turns + 0 = FreshBudget.turns
    BY DEF FreshBudget
  <2> QED
    BY <2>1, <2>2, <2>3, FreshIsBudget DEF Elapsed
<1>4. CASE q \in DOMAIN budget
  <2>1. BudgetOf(q) = budget[q] /\ BudgetOf(q)' = budget'[q]
    BY <1>1, <1>4 DEF BudgetOf
  <2>2. budget[q] \in Budgets /\ budget[q].turns \in Nat
    BY <1>2, <1>4, BudgetTypes DEF TurnsTypeOK
  <2>3. /\ left \in Budgets /\ left.turns = Elapsed(q)
        /\ left.token = budget[q].token /\ left.spent = budget[q].spent
        /\ ~ budget[q].surprised => ~ left.surprised
        /\ active = q \/ Marked(budget[q]) => Marked(left)
    <3>1. CASE q = active
      BY <3>1, <2>1, <2>2, EndedFacts, EndedMarked DEF Elapsed
    <3>2. CASE q # active
      BY <3>2, <2>1, <2>2 DEF Elapsed
    <3> QED
      BY <3>1, <3>2
  <2> HIDE DEF left
  <2>4. CASE q \in Tireless
    <3> DEFINE c == [left EXCEPT !.reactions = 0]
    <3>1. /\ c \in Budgets /\ c.turns = left.turns /\ c.surprised = left.surprised
          /\ c.token = left.token /\ c.spent = left.spent /\ (Marked(left) => Marked(c))
      BY <2>3, RestedFacts
    <3>2. budget'[q] = c
      BY <2>4, <1>1, <1>4
    <3> HIDE DEF c
    <3> QED
      BY <3>1, <3>2, <2>1, <2>3
  <2>5. CASE q \notin Tireless
    BY <2>5, <2>1, <2>3, <1>1, <1>4
  <2> QED
    BY <2>4, <2>5
<1> QED
  BY <1>3, <1>4

LEMMA OwnOpened ==
  ASSUME TurnsInv, NEW p \in Players
  PROVE  /\ Beginning(p) \in Budgets /\ Beginning(p).turns = Elapsed(p)
         /\ Beginning(p).token = BudgetOf(p).token /\ Beginning(p).spent = 0
         /\ ~ BudgetOf(p).surprised => ~ Beginning(p).surprised
<1> DEFINE base == IF p = active THEN Ended(BudgetOf(p)) ELSE BudgetOf(p)
<1>1. BudgetOf(p) \in Budgets /\ BudgetOf(p).turns \in Nat
  BY BudgetOfTypes, BudgetTypes DEF TurnsInv
<1>2. /\ base \in Budgets /\ base.turns = Elapsed(p)
      /\ base.token = BudgetOf(p).token
      /\ ~ BudgetOf(p).surprised => ~ base.surprised
  <2>1. CASE p = active
    BY <2>1, <1>1, EndedFacts DEF Elapsed
  <2>2. CASE p # active
    BY <2>2, <1>1 DEF Elapsed
  <2> QED
    BY <2>1, <2>2
<1>3. Beginning(p) = Renewed(base)
  BY DEF Beginning
<1> HIDE DEF base
<1> QED
  BY <1>2, <1>3, RenewedFacts

LEMMA BeginTurnKeeps ==
  ASSUME TurnsInv, NEW p \in Players, NEW r \in 1 .. MaxRounds, BeginTurn(p, r)
  PROVE  TurnsInv'
<1> DEFINE b == IF Available(p) THEN Beginning(p) ELSE Ended(Beginning(p))
<1>1. /\ round' = r /\ active' = (IF Available(p) THEN p ELSE NoOne)
      /\ budget' = Opened(p, b) /\ cast' = {} /\ opted' = {} /\ acted' = acted
  BY DEF BeginTurn
<1>2. /\ TurnsTypeOK /\ CastKept /\ TurnsFair
      /\ \A q \in acted : active = q \/ Marked(BudgetOf(q))
      /\ \A q \in Players, t \in Windows : BudgetOf(q).token = t => TokenPast(t)
  BY DEF TurnsInv
<1>3. \A q \in Players : BudgetOf(q) \in Budgets /\ BudgetOf(q).turns \in Nat
                       /\ Elapsed(q) \in Nat /\ Elapsed(q) >= BudgetOf(q).turns
                       /\ (q = active => Elapsed(q) > BudgetOf(q).turns)
  <2> SUFFICES ASSUME NEW q \in Players
               PROVE  /\ BudgetOf(q) \in Budgets /\ BudgetOf(q).turns \in Nat
                      /\ Elapsed(q) \in Nat /\ Elapsed(q) >= BudgetOf(q).turns
                      /\ (q = active => Elapsed(q) > BudgetOf(q).turns)
    OBVIOUS
  <2>1. BudgetOf(q) \in Budgets /\ BudgetOf(q).turns \in Nat
    BY <1>2, BudgetOfTypes, BudgetTypes
  <2> QED
    BY <2>1 DEF Elapsed
<1>4. /\ b \in Budgets /\ b.turns \in Nat /\ b.turns >= Elapsed(p)
      /\ b.token = BudgetOf(p).token /\ b.spent = 0
      /\ ~ BudgetOf(p).surprised => ~ b.surprised
      /\ active' = p \/ Marked(b)
  <2>1. CASE Available(p)
    BY <2>1, <1>1, <1>3, OwnOpened
  <2>2. CASE ~ Available(p)
    <3>1. /\ Beginning(p) \in Budgets /\ Beginning(p).turns = Elapsed(p)
          /\ Beginning(p).token = BudgetOf(p).token /\ Beginning(p).spent = 0
      BY OwnOpened
    <3>2. /\ b \in Budgets /\ b.turns = Elapsed(p) + 1 /\ b.surprised = FALSE
          /\ b.token = BudgetOf(p).token /\ b.spent = 0
      BY <2>2, <3>1, EndedFacts
    <3>3. Marked(b)
      BY <2>2, <3>1, EndedMarked
    <3> HIDE DEF b
    <3> QED
      BY <3>2, <3>3, <1>3
  <2> QED
    BY <2>1, <2>2
<1> HIDE DEF b
<1>5. DOMAIN budget' = DOMAIN budget \cup {p} /\ budget'[p] = b
  BY <1>1 DEF Opened
<1>6. BudgetOf(p)' = b
  BY <1>5 DEF BudgetOf
<1>7. \A q \in Players : q # p =>
        LET c == BudgetOf(q)' IN
        /\ c \in Budgets /\ c.turns = Elapsed(q)
        /\ c.token = BudgetOf(q).token /\ c.spent = BudgetOf(q).spent
        /\ ~ BudgetOf(q).surprised => ~ c.surprised
        /\ active = q \/ Marked(BudgetOf(q)) => Marked(c)
  BY <1>1, OthersOpened
<1>8. \A q \in Players :
        /\ BudgetOf(q)' \in Budgets /\ BudgetOf(q)'.token = BudgetOf(q).token
        /\ BudgetOf(q)'.turns \in Nat /\ BudgetOf(q)'.turns >= Elapsed(q)
        /\ ~ BudgetOf(q).surprised => ~ BudgetOf(q)'.surprised
  BY <1>3, <1>4, <1>6, <1>7
<1>9. ASSUME NEW q \in Players, NEW t \in Windows, BudgetOf(q)'.token = t,
             t[2] \in Players
      PROVE  t[3] < BudgetOf(t[2])'.turns
  <2>1. BudgetOf(q).token = t /\ TokenPast(t)
    BY <1>2, <1>8, <1>9
  <2>2. t[3] \in Nat /\ t[2] \in Players
    BY <1>9 DEF Windows
  <2>3. t[3] < Elapsed(t[2])
    BY <2>1, <2>2, <1>3 DEF TokenPast
  <2> QED
    BY <2>2, <2>3, <1>3, <1>8
<1>10. TurnsTypeOK'
  <2>1. DOMAIN budget' \subseteq Players /\ \A q \in DOMAIN budget' : budget'[q] \in Budgets
    BY <1>2, <1>5, <1>8 DEF TurnsTypeOK, BudgetOf
  <2>2. round' \in 0 .. MaxRounds
    BY <1>1, TurnNumbers
  <2> QED
    BY <1>1, <1>2, <2>1, <2>2 DEF TurnsTypeOK
<1>11. CastKept'
  BY <1>1, <1>5, NoOneIsNoPlayer DEF CastKept
<1>12. \A q \in acted' : ~ BudgetOf(q)'.surprised /\ (active' = q \/ Marked(BudgetOf(q)'))
  BY <1>1, <1>2, <1>4, <1>6, <1>7, <1>8 DEF TurnsFair, TurnsTypeOK
<1>13. active' # NoOne => \A q \in Players : BudgetOf(q)'.token # Window'
  <2> SUFFICES ASSUME active' # NoOne, NEW q \in Players, BudgetOf(q)'.token = Window'
               PROVE  FALSE
    OBVIOUS
  <2>1. active' = p /\ Window' = <<r, p, BudgetOf(p)'.turns>>
    BY <1>1 DEF Window
  <2>2. BudgetOf(p)'.turns \in Nat /\ r \in Nat /\ p \in Nat
    BY <1>8 DEF Players
  <2> DEFINE t == <<r, p, BudgetOf(p)'.turns>>
  <2>3. t \in Windows /\ t[2] = p /\ t[3] = BudgetOf(p)'.turns
    BY <2>2 DEF Windows
  <2>4. BudgetOf(q)'.token = t
    BY <2>1
  <2> HIDE DEF t
  <2>5. t[3] < BudgetOf(p)'.turns
    BY <2>3, <2>4, <1>9
  <2> QED
    BY <2>2, <2>3, <2>5
<1>14. \A q \in Players : BudgetOf(q)'.spent <= Legends[q]
  BY <1>2, <1>4, <1>6, <1>7, TurnNumbers DEF TurnsFair
<1>15. TurnsFair'
  BY <1>1, <1>12, <1>13, <1>14 DEF TurnsFair
<1>16. \A q \in Players, t \in Windows : BudgetOf(q)'.token = t => TokenPast(t)'
  BY <1>9 DEF TokenPast
<1> QED
  BY <1>10, <1>11, <1>12, <1>15, <1>16 DEF TurnsInv

-----------------------------------------------------------------------------
\* The tools that spend

\* What every spender starts from.
LEMMA SpenderFacts ==
  ASSUME TurnsInv, NEW p \in Players
  PROVE  /\ BudgetOf(p) \in Budgets /\ BudgetOf(p).spent <= Legends[p]
         /\ cast \subseteq {"bonus", "cantrip", "other"}
         /\ ~ {"bonus", "other"} \subseteq cast
         /\ active = p => /\ "bonus" \in cast => BudgetOf(p).bonusSpell
                          /\ "other" \in cast => BudgetOf(p).otherSpell = "other"
         /\ Legends[p] \in Nat
<1>1. p # NoOne
  BY NoOneIsNoPlayer
<1> QED
  BY <1>1, BudgetOfTypes, TurnNumbers DEF TurnsInv, TurnsFair, CastKept, TurnsTypeOK

LEMMA SpendActionKeeps ==
  ASSUME TurnsInv, NEW p \in Players, NEW spell \in {"none", "cantrip", "other"},
         SpendAction(p, spell)
  PROVE  TurnsInv' /\ SameTurns
<1> DEFINE a == BudgetOf(p)
           other == Escalated(a.otherSpell, spell)
           one == [a EXCEPT !.action = TRUE]
           b == [one EXCEPT !.otherSpell = other]
<1>1. /\ active = p /\ ~ a.surprised /\ (a.bonusSpell => spell # "other")
      /\ Casts({spell} \ {"none"})
      /\ Spends(p, [a EXCEPT !.action = TRUE, !.otherSpell = Escalated(@, spell)])
  BY DEF SpendAction, MaySpend, Unready
<1>2. /\ a \in Budgets /\ a.spent <= Legends[p]
      /\ cast \subseteq {"bonus", "cantrip", "other"} /\ ~ {"bonus", "other"} \subseteq cast
      /\ "bonus" \in cast => a.bonusSpell
      /\ "other" \in cast => a.otherSpell = "other"
  BY <1>1, SpenderFacts
<1>3. /\ other \in {"none", "cantrip", "other"}
      /\ spell = "other" \/ a.otherSpell = "other" => other = "other"
  BY <1>2, BudgetTypes DEF Escalated
<1>4. Spends(p, b)
  BY <1>1
<1> HIDE DEF a, other
<1>5. /\ one \in Budgets /\ one.turns = a.turns /\ one.surprised = a.surprised
      /\ one.bonusSpell = a.bonusSpell /\ one.token = a.token /\ one.spent = a.spent
      /\ one.action
  BY <1>2 DEF Budgets
<1> HIDE DEF one
<1>6. /\ b \in Budgets /\ b.turns = a.turns /\ b.surprised = a.surprised
      /\ b.bonusSpell = a.bonusSpell /\ b.token = a.token /\ b.spent = a.spent
      /\ b.otherSpell = other /\ b.action
  BY <1>3, <1>5 DEF Budgets
<1> HIDE DEF b
<1>7. Marked(b)
  BY <1>6 DEF Marked
<1>8. CastsWell(p, b) /\ OptsWell(p, b)
  <2>1. cast' = cast \cup ({spell} \ {"none"}) /\ opted' = opted
    BY <1>1 DEF Casts
  <2>2. OptsWell(p, b)
    BY <1>6, <2>1 DEF OptsWell, a
  <2>3. "bonus" \in cast' => b.bonusSpell
    BY <1>2, <1>6, <2>1
  <2>4. "other" \in cast' => b.otherSpell = "other"
    BY <1>2, <1>3, <1>6, <2>1
  <2>5. cast' \subseteq {"bonus", "cantrip", "other"}
    BY <1>2, <2>1
  <2>6. ~ {"bonus", "other"} \subseteq cast'
    BY <1>1, <1>2, <2>1
  <2> QED
    BY <1>1, <2>2, <2>3, <2>4, <2>5, <2>6 DEF CastsWell
<1> QED
  BY <1>1, <1>2, <1>4, <1>6, <1>7, <1>8, SpendKeeps DEF a

LEMMA SpendBonusActionKeeps ==
  ASSUME TurnsInv, NEW p \in Players, NEW spell \in BOOLEAN, SpendBonusAction(p, spell)
  PROVE  TurnsInv' /\ SameTurns
<1> DEFINE a == BudgetOf(p)
           one == [a EXCEPT !.bonus = TRUE]
           b == [one EXCEPT !.bonusSpell = @ \/ spell]
<1>1. /\ active = p /\ ~ a.surprised /\ (spell => a.otherSpell # "other")
      /\ Casts(IF spell THEN {"bonus"} ELSE {})
      /\ Spends(p, [a EXCEPT !.bonus = TRUE, !.bonusSpell = @ \/ spell])
  BY DEF SpendBonusAction, MaySpend, Unready
<1>2. /\ a \in Budgets /\ a.spent <= Legends[p]
      /\ cast \subseteq {"bonus", "cantrip", "other"} /\ ~ {"bonus", "other"} \subseteq cast
      /\ "bonus" \in cast => a.bonusSpell
      /\ "other" \in cast => a.otherSpell = "other"
  BY <1>1, SpenderFacts
<1>3. Spends(p, b)
  BY <1>1
<1> HIDE DEF a
<1>4. /\ one \in Budgets /\ one.turns = a.turns /\ one.surprised = a.surprised
      /\ one.bonusSpell = a.bonusSpell /\ one.token = a.token /\ one.spent = a.spent
      /\ one.otherSpell = a.otherSpell /\ one.bonus
  BY <1>2 DEF Budgets
<1>5. one.bonusSpell \in BOOLEAN
  BY <1>4, BudgetTypes
<1> HIDE DEF one
<1>6. /\ b \in Budgets /\ b.turns = a.turns /\ b.surprised = a.surprised
      /\ b.otherSpell = a.otherSpell /\ b.token = a.token /\ b.spent = a.spent
      /\ b.bonusSpell = (a.bonusSpell \/ spell) /\ b.bonus
  BY <1>4, <1>5 DEF Budgets
<1> HIDE DEF b
<1>7. Marked(b)
  BY <1>6 DEF Marked
<1>8. CastsWell(p, b) /\ OptsWell(p, b)
  <2>1. cast' = cast \cup (IF spell THEN {"bonus"} ELSE {}) /\ opted' = opted
    BY <1>1 DEF Casts
  <2>2. OptsWell(p, b)
    BY <1>6, <2>1 DEF OptsWell, a
  <2>3. "bonus" \in cast' => b.bonusSpell
    BY <1>2, <1>6, <2>1
  <2>4. "other" \in cast' => b.otherSpell = "other"
    BY <1>2, <1>6, <2>1
  <2>5. cast' \subseteq {"bonus", "cantrip", "other"}
    BY <1>2, <2>1
  <2>6. ~ {"bonus", "other"} \subseteq cast'
    BY <1>1, <1>2, <2>1
  <2> QED
    BY <1>1, <2>2, <2>3, <2>4, <2>5, <2>6 DEF CastsWell
<1> QED
  BY <1>1, <1>2, <1>3, <1>6, <1>7, <1>8, SpendKeeps DEF a

LEMMA SpendReactionKeeps ==
  ASSUME TurnsInv, NEW p \in Players, NEW spell \in BOOLEAN, SpendReaction(p, spell)
  PROVE  TurnsInv' /\ SameTurns
<1> DEFINE a == BudgetOf(p)
           counts == spell /\ active = p
           other == IF counts THEN "other" ELSE a.otherSpell
           one == [a EXCEPT !.reactions = @ + 1]
           two == [one EXCEPT !.reacted = TRUE]
           b == [two EXCEPT !.otherSpell = other]
<1>1. /\ ~ a.surprised /\ (counts => ~ a.bonusSpell)
      /\ Casts(IF counts THEN {"other"} ELSE {})
      /\ Spends(p, [a EXCEPT !.reactions = @ + 1, !.reacted = TRUE,
                            !.otherSpell = IF counts THEN "other" ELSE @])
  BY DEF SpendReaction, Unready
<1>2. /\ a \in Budgets /\ a.spent <= Legends[p]
      /\ cast \subseteq {"bonus", "cantrip", "other"} /\ ~ {"bonus", "other"} \subseteq cast
      /\ active = p => /\ "bonus" \in cast => a.bonusSpell
                       /\ "other" \in cast => a.otherSpell = "other"
  BY SpenderFacts
<1>3. Spends(p, b)
  BY <1>1
<1>4. other \in {"none", "cantrip", "other"}
  BY <1>2, BudgetTypes
<1> HIDE DEF a, other
<1>5. /\ one \in Budgets /\ one.turns = a.turns /\ one.surprised = a.surprised
      /\ one.bonusSpell = a.bonusSpell /\ one.token = a.token /\ one.spent = a.spent
  BY <1>2 DEF Budgets
<1> HIDE DEF one
<1>6. /\ two \in Budgets /\ two.turns = a.turns /\ two.surprised = a.surprised
      /\ two.bonusSpell = a.bonusSpell /\ two.token = a.token /\ two.spent = a.spent
      /\ two.reacted
  BY <1>5 DEF Budgets
<1> HIDE DEF two
<1>7. /\ b \in Budgets /\ b.turns = a.turns /\ b.surprised = a.surprised
      /\ b.bonusSpell = a.bonusSpell /\ b.token = a.token /\ b.spent = a.spent
      /\ b.otherSpell = other /\ b.reacted
  BY <1>4, <1>6 DEF Budgets
<1> HIDE DEF b
<1>8. Marked(b)
  BY <1>7 DEF Marked
<1>9. CastsWell(p, b) /\ OptsWell(p, b)
  <2>1. cast' = cast \cup (IF counts THEN {"other"} ELSE {}) /\ opted' = opted
    BY <1>1 DEF Casts
  <2>2. OptsWell(p, b)
    BY <1>7, <2>1 DEF OptsWell, a
  <2>3. active = p => ("bonus" \in cast' => b.bonusSpell)
    BY <1>2, <1>7, <2>1
  <2>4. active = p => ("other" \in cast' => b.otherSpell = "other")
    BY <1>2, <1>7, <2>1 DEF other
  <2>5. cast' \subseteq {"bonus", "cantrip", "other"}
    BY <1>2, <2>1
  <2>6. ~ {"bonus", "other"} \subseteq cast'
    BY <1>1, <1>2, <2>1
  <2>7. active # p => cast' = cast
    BY <2>1
  <2> QED
    BY <2>2, <2>3, <2>4, <2>5, <2>6, <2>7 DEF CastsWell
<1> QED
  BY <1>1, <1>2, <1>3, <1>7, <1>8, <1>9, SpendKeeps DEF a

LEMMA SpendLegendaryKeeps ==
  ASSUME TurnsInv, NEW p \in Players, NEW cost \in LegendCosts, SpendLegendary(p, cost)
  PROVE  TurnsInv' /\ SameTurns
<1> DEFINE a == BudgetOf(p)
           one == [a EXCEPT !.spent = @ + cost]
           two == [one EXCEPT !.legendary = TRUE]
           b == [two EXCEPT !.token = Window]
<1>1. /\ ~ a.surprised /\ active \notin {p, NoOne} /\ a.spent + cost <= Legends[p]
      /\ opted' = opted \cup {p} /\ cast' = cast
      /\ Spends(p, [a EXCEPT !.spent = @ + cost, !.legendary = TRUE, !.token = Window])
  BY DEF SpendLegendary, Unready
<1>2. /\ a \in Budgets
      /\ cast \subseteq {"bonus", "cantrip", "other"} /\ ~ {"bonus", "other"} \subseteq cast
  BY SpenderFacts
<1>3. Spends(p, b)
  BY <1>1
<1>4. Window \in Nat \X Nat \X Nat
  <2>1. active \in Players
    BY <1>1 DEF TurnsInv, TurnsTypeOK
  <2>2. BudgetOf(active).turns \in Nat
    BY <2>1, BudgetOfTypes, BudgetTypes DEF TurnsInv
  <2>3. round \in Nat /\ active \in Nat
    BY <2>1, TurnNumbers DEF TurnsInv, TurnsTypeOK, Players
  <2> QED
    BY <2>2, <2>3 DEF Window
<1>5. a.spent \in Nat /\ cost \in Nat
  BY <1>2, BudgetTypes, TurnNumbers
<1> HIDE DEF a
<1>6. /\ one \in Budgets /\ one.turns = a.turns /\ one.surprised = a.surprised
      /\ one.spent = a.spent + cost
  BY <1>2, <1>5 DEF Budgets
<1> HIDE DEF one
<1>7. /\ two \in Budgets /\ two.turns = a.turns /\ two.surprised = a.surprised
      /\ two.spent = a.spent + cost /\ two.legendary
  BY <1>6 DEF Budgets
<1> HIDE DEF two
<1>8. /\ b \in Budgets /\ b.turns = a.turns /\ b.surprised = a.surprised
      /\ b.spent = a.spent + cost /\ b.legendary /\ b.token = Window
  BY <1>4, <1>7 DEF Budgets
<1> HIDE DEF b
<1>9. Marked(b)
  BY <1>8 DEF Marked
<1>10. CastsWell(p, b) /\ OptsWell(p, b)
  BY <1>1, <1>2, <1>8 DEF CastsWell, OptsWell
<1> QED
  BY <1>1, <1>2, <1>3, <1>8, <1>9, <1>10, SpendKeeps DEF a

LEMMA SpendFreeKeeps ==
  ASSUME TurnsInv, NEW p \in Players, SpendInteraction(p) \/ Move(p)
  PROVE  TurnsInv' /\ SameTurns
<1> DEFINE a == BudgetOf(p)
<1>1. /\ active = p /\ ~ a.surprised /\ Casts({})
      /\ \/ Spends(p, [a EXCEPT !.free = TRUE])
         \/ Spends(p, [a EXCEPT !.moved = TRUE])
  BY DEF SpendInteraction, Move, MaySpend, Unready
<1>2. /\ a \in Budgets /\ a.spent <= Legends[p]
      /\ cast \subseteq {"bonus", "cantrip", "other"} /\ ~ {"bonus", "other"} \subseteq cast
      /\ "bonus" \in cast => a.bonusSpell
      /\ "other" \in cast => a.otherSpell = "other"
  BY <1>1, SpenderFacts
<1>3. cast' = cast /\ opted' = opted
  BY <1>1 DEF Casts
<1> HIDE DEF a
<1>4. PICK b : /\ Spends(p, b) /\ b \in Budgets /\ Marked(b)
               /\ b.turns = a.turns /\ b.surprised = a.surprised
               /\ b.bonusSpell = a.bonusSpell /\ b.otherSpell = a.otherSpell
               /\ b.token = a.token /\ b.spent = a.spent
  <2>1. CASE Spends(p, [a EXCEPT !.free = TRUE])
    <3> DEFINE b == [a EXCEPT !.free = TRUE]
    <3>1. /\ b \in Budgets /\ b.free
          /\ b.turns = a.turns /\ b.surprised = a.surprised
          /\ b.bonusSpell = a.bonusSpell /\ b.otherSpell = a.otherSpell
          /\ b.token = a.token /\ b.spent = a.spent
      BY <1>2 DEF Budgets
    <3>2. Spends(p, b)
      BY <2>1
    <3> HIDE DEF b
    <3>3. Marked(b)
      BY <3>1 DEF Marked
    <3> QED
      BY <3>1, <3>2, <3>3
  <2>2. CASE Spends(p, [a EXCEPT !.moved = TRUE])
    <3> DEFINE b == [a EXCEPT !.moved = TRUE]
    <3>1. /\ b \in Budgets /\ b.moved
          /\ b.turns = a.turns /\ b.surprised = a.surprised
          /\ b.bonusSpell = a.bonusSpell /\ b.otherSpell = a.otherSpell
          /\ b.token = a.token /\ b.spent = a.spent
      BY <1>2 DEF Budgets
    <3>2. Spends(p, b)
      BY <2>2
    <3> HIDE DEF b
    <3>3. Marked(b)
      BY <3>1 DEF Marked
    <3> QED
      BY <3>1, <3>2, <3>3
  <2> QED
    BY <1>1, <2>1, <2>2
<1>5. CastsWell(p, b) /\ OptsWell(p, b)
  BY <1>1, <1>2, <1>3, <1>4 DEF CastsWell, OptsWell, a
<1> QED
  BY <1>1, <1>2, <1>4, <1>5, SpendKeeps DEF a

LEMMA SetSurprisedKeeps ==
  ASSUME TurnsInv, NEW p \in Players, SetSurprised(p)
  PROVE  TurnsInv' /\ SameTurns
<1> DEFINE a == BudgetOf(p)
           b == [a EXCEPT !.surprised = TRUE]
<1>1. /\ active # p /\ a.turns = 0
      /\ ~ (a.action \/ a.bonus \/ a.reacted \/ a.free \/ a.moved \/ a.legendary)
      /\ budget' = Keep(p, b)
      /\ round' = round /\ active' = active /\ acted' = acted /\ cast' = cast
      /\ opted' = opted
  BY DEF SetSurprised
<1>2. /\ TurnsTypeOK /\ CastKept /\ TurnsFair
      /\ \A q \in acted : active = q \/ Marked(BudgetOf(q))
      /\ \A q \in Players, t \in Windows : BudgetOf(q).token = t => TokenPast(t)
  BY DEF TurnsInv
<1>3. a \in Budgets
  BY <1>2, BudgetOfTypes
<1>4. p \notin acted
  BY <1>1, <1>2 DEF Marked
<1>5. BudgetOf(p) = a
  OBVIOUS
<1> HIDE DEF a
<1>6. /\ b \in Budgets /\ b.turns = a.turns /\ b.token = a.token /\ b.spent = a.spent
      /\ b.bonusSpell = a.bonusSpell /\ b.otherSpell = a.otherSpell
  BY <1>3 DEF Budgets
<1> HIDE DEF b
<1>7. /\ DOMAIN budget' = DOMAIN budget \cup {p} /\ BudgetOf(p)' = b
      /\ \A q : q # p => BudgetOf(q)' = BudgetOf(q)
  BY <1>1, BudgetKept
<1>8. \A q : /\ BudgetOf(q)'.turns = BudgetOf(q).turns
             /\ BudgetOf(q)'.token = BudgetOf(q).token
             /\ BudgetOf(q)'.spent = BudgetOf(q).spent
  BY <1>5, <1>6, <1>7
<1>9. Window' = Window
  BY <1>1, <1>8 DEF Window
<1>10. TurnsTypeOK'
  BY <1>1, <1>2, <1>6, KeptTypes DEF TurnsTypeOK
<1>11. CastKept'
  BY <1>1, <1>2, <1>7 DEF CastKept
<1>12. \A q \in acted' : ~ BudgetOf(q)'.surprised /\ (active' = q \/ Marked(BudgetOf(q)'))
  BY <1>1, <1>2, <1>4, <1>7 DEF TurnsFair
<1>13. TurnsFair'
  BY <1>1, <1>2, <1>8, <1>9, <1>12 DEF TurnsFair
<1>14. \A q \in Players, t \in Windows : BudgetOf(q)'.token = t => TokenPast(t)'
  BY <1>1, <1>2, <1>8 DEF TokenPast
<1> QED
  BY <1>1, <1>8, <1>10, <1>11, <1>12, <1>13, <1>14 DEF TurnsInv, SameTurns

-----------------------------------------------------------------------------
\* Steps

\* With no turn opened yet there is nothing to remember.
LEMMA UnspentSound == TurnsInit => TurnsInv
<1> SUFFICES ASSUME TurnsInit PROVE TurnsInv
  OBVIOUS
<1>0. /\ round = 0 /\ active = NoOne /\ budget = Unspent
      /\ acted = {} /\ cast = {} /\ opted = {}
  BY DEF TurnsInit
<1>1. DOMAIN budget = {}
  BY <1>0 DEF Unspent
<1>2. \A p : BudgetOf(p) = FreshBudget
  BY <1>1 DEF BudgetOf
<1>3. FreshBudget.spent = 0 /\ FreshBudget.token = NoWindow /\ NoWindow[2] = NoOne
  BY DEF FreshBudget, NoWindow
<1>4. TurnsTypeOK /\ CastKept
  BY <1>0, <1>1, TurnNumbers DEF TurnsTypeOK, CastKept
<1>5. TurnsFair
  BY <1>0, <1>2, <1>3, TurnNumbers DEF TurnsFair
<1>6. \A p \in Players, t \in Windows : BudgetOf(p).token = t => TokenPast(t)
  BY <1>2, <1>3, NoOneIsNoPlayer DEF TokenPast
<1> QED
  BY <1>0, <1>4, <1>5, <1>6 DEF TurnsInv

LEMMA NoTurnsSound == NoTurns => TurnsInv'
<1>1. NoTurns => TurnsInit'
  BY DEF NoTurns, TurnsInit, Unspent, FreshBudget, NoWindow
<1> QED
  BY <1>1, UnspentSound, PTL

LEMMA TurnsStill == ASSUME TurnsInv, UNCHANGED turnVars PROVE TurnsInv'
<1>1. /\ round' = round /\ active' = active /\ budget' = budget
      /\ acted' = acted /\ cast' = cast /\ opted' = opted
  BY DEF turnVars
<1>2. /\ \A p : BudgetOf(p)' = BudgetOf(p)
      /\ Window' = Window
  BY <1>1 DEF BudgetOf, Window, FreshBudget, NoWindow
<1> QED
  BY <1>1, <1>2 DEF TurnsInv, TurnsTypeOK, CastKept, TurnsFair, TokenPast

LEMMA TurnsStep == ASSUME TurnsInv, [BattleNext]_battleVars PROVE TurnsInv'
<1>1. CASE JourneyNext /\ Aftermath
  <2>1. TurnsFollow
    BY <1>1 DEF Aftermath
  <2>2. NoTurns \/ SpendBonusAction(Lead, FALSE) \/ UNCHANGED turnVars
    BY <2>1 DEF TurnsFollow
  <2> QED
    BY <2>2, NoTurnsSound, TurnsStill, SpendBonusActionKeeps, NoOneIsNoPlayer
<1>2. ASSUME NEW p \in Players, NEW r \in 1 .. MaxRounds, BeginTurn(p, r)
      PROVE  TurnsInv'
  BY <1>2, BeginTurnKeeps
<1>3. CASE TurnsNext
  BY <1>3, SpendActionKeeps, SpendBonusActionKeeps, SpendReactionKeeps,
     SpendLegendaryKeeps, SpendFreeKeeps, SetSurprisedKeeps DEF TurnsNext
<1>4. CASE UNCHANGED turnVars
  BY <1>4, TurnsStill
<1> QED
  BY <1>1, <1>2, <1>3, <1>4 DEF BattleNext, battleVars, turnVars

-----------------------------------------------------------------------------
\* Creatures and their rows: what a step of the campaign does to both.

\* A row that is added belongs to the active combat.
Grows ==
  /\ Len(rows') = Len(rows) + 1 /\ DOMAIN rows' = DOMAIN rows \cup {Len(rows')}
  /\ Len(rows') \notin DOMAIN rows /\ Len(rows') \in Nat
  /\ \A i \in DOMAIN rows : rows'[i].in = rows[i].in /\ rows'[i].mine = rows[i].mine
  /\ rows'[Len(rows')].in = fights /\ fighting /\ UNCHANGED clockVars

\* A row becomes the actor's, the first that is.
Voiced ==
  Stay /\ Mine = {} /\ Mine' # {} /\ UNCHANGED clockVars

Moves ==
  \/ Undisturbed
  \/ Grows /\ ~ rows'[Len(rows')].mine
  \/ Grows /\ rows'[Len(rows')].mine
  \/ Voiced

LEMMA JoinGrows ==
  ASSUME CInv, NEW full \in Fulls, Join(full)
  PROVE  Grows /\ ~ rows'[Len(rows')].mine
<1> DEFINE R == [in : Nat, mine : BOOLEAN, k : Combatants]
           r == [in |-> fights, mine |-> FALSE, k |-> Creature(full)]
<1>1. r \in R /\ r.in = fights /\ ~ r.mine
  <2>1. Creature(full) \in Combatants
    BY CompanionNumbers, CreatureLegal
  <2> QED
    BY <2>1 DEF CInv, Typed
<1>2. rows' = Append(rows, r) /\ fighting /\ UNCHANGED clockVars
  BY DEF Join
<1>3. rows \in Seq(R)
  BY DEF CInv, Typed
<1> HIDE DEF r, R
<1>4. /\ Len(rows') = Len(rows) + 1 /\ Len(rows) \in Nat
      /\ DOMAIN rows = 1 .. Len(rows) /\ DOMAIN rows' = 1 .. Len(rows) + 1
      /\ \A i \in 1 .. Len(rows) : rows'[i] = rows[i]
      /\ rows'[Len(rows) + 1] = r
  BY <1>1, <1>2, <1>3, AppendFacts
<1>5. DOMAIN rows' = DOMAIN rows \cup {Len(rows')} /\ Len(rows') \notin DOMAIN rows
  BY <1>4
<1> QED
  BY <1>1, <1>2, <1>4, <1>5 DEF Grows

LEMMA EnterGrows ==
  ASSUME CInv, NEW full, Enter(full)
  PROVE  Grows /\ rows'[Len(rows')].mine
<1> DEFINE R == [in : Nat, mine : BOOLEAN, k : Combatants]
           k == IF Fresh THEN Creature(full) ELSE Entering(actor)
           r == [in |-> fights, mine |-> TRUE, k |-> k]
           s == Retired
<1>1. rows' = Append(s, r) /\ fighting /\ UNCHANGED clockVars
  BY DEF Enter
<1>2. r.in = fights /\ r.mine
  OBVIOUS
<1>3. /\ s \in Seq(R) /\ Len(s) = Len(rows) /\ DOMAIN s = DOMAIN rows
      /\ \A i \in DOMAIN rows : s[i].in = rows[i].in /\ s[i].mine = rows[i].mine
  BY RetiredFacts DEF CInv
<1>4. DOMAIN rows = 1 .. Len(rows) /\ Len(rows) \in Nat
  BY DEF CInv, Typed
<1> HIDE DEF r, R, s
<1>5. /\ Len(rows') = Len(rows) + 1 /\ DOMAIN rows' = 1 .. Len(rows) + 1
      /\ \A i \in 1 .. Len(rows) : rows'[i] = s[i]
      /\ rows'[Len(rows) + 1] = r
  BY <1>1, <1>3, <1>4
<1>6. DOMAIN rows' = DOMAIN rows \cup {Len(rows')} /\ Len(rows') \notin DOMAIN rows
  BY <1>4, <1>5
<1> QED
  BY <1>1, <1>2, <1>3, <1>4, <1>5, <1>6 DEF Grows

LEMMA StartTakes ==
  ASSUME CInv, NEW i \in DOMAIN rows, NEW zero, NEW policy, NEW claims \in BOOLEAN,
         StartEffect(i, zero, policy, claims)
  PROVE  Undisturbed \/ Voiced
<1> DEFINE R == [in : Nat, mine : BOOLEAN, k : Combatants]
           k == [rows[i].k EXCEPT !.zero = IF zero = "none" THEN @ ELSE zero]
           durable == claims \/ rows[i].mine
           voice == IF Mine = {} THEN i ELSE Speaker
           one == [rows EXCEPT ![i].k = k]
           two == [one EXCEPT ![voice].mine = @ \/ durable]
<1>0. Stay /\ UNCHANGED clockVars
  BY StartStays DEF StartEffect
<1>1. \A j \in DOMAIN rows : rows[j] \in R
  <2>1. rows \in Seq(R)
    BY DEF CInv, Typed
  <2> HIDE DEF R
  <2> QED
    BY <2>1
<1>2. rows' = two
  BY DEF StartEffect
<1>3. voice \in DOMAIN rows /\ (Mine # {} => rows[voice].mine = TRUE)
  BY <1>1, SpeakerFacts DEF CInv, Mine
<1>4. durable \in BOOLEAN /\ (Mine = {} /\ durable => claims)
  BY <1>1 DEF Mine
<1> HIDE DEF k, durable, voice
<1>5. DOMAIN one = DOMAIN rows
      /\ \A j \in DOMAIN rows : /\ one[j].mine = rows[j].mine
                                /\ DOMAIN one[j] = DOMAIN rows[j]
  BY <1>1
<1>6. \A j \in DOMAIN rows : "mine" \in DOMAIN one[j] /\ rows[j].mine \in BOOLEAN
  BY <1>1, <1>5
<1> HIDE DEF one, R
<1>7. DOMAIN two = DOMAIN rows
      /\ \A j \in DOMAIN rows :
           two[j].mine = IF j = voice THEN one[j].mine \/ durable ELSE one[j].mine
  BY <1>3, <1>5, <1>6
<1> HIDE DEF two
<1>8. CASE Mine # {} \/ ~ durable
  <2>1. \A j \in DOMAIN rows : rows'[j].mine = rows[j].mine
    BY <1>2, <1>3, <1>4, <1>5, <1>6, <1>7, <1>8
  <2> QED
    BY <1>0, <2>1 DEF Undisturbed
<1>9. CASE Mine = {} /\ durable
  <2>1. voice \in DOMAIN rows' /\ rows'[voice].mine
    BY <1>2, <1>3, <1>7, <1>9
  <2> QED
    BY <1>0, <1>9, <2>1 DEF Voiced, Mine
<1> QED
  BY <1>8, <1>9

LEMMA CreaturesMove ==
  ASSUME CInv, Next
  PROVE  Moves
<1>0. rows' = rows => Moves
  BY DEF Moves, Undisturbed, Stay
<1>1. StartEncounter \/ CloseCombat \/ Recast \/ UNCHANGED companionVars => Moves
  BY <1>0 DEF StartEncounter, CloseCombat, CompanionsLeave, Recast, companionVars
<1>2. ASSUME NEW at, CompanionsRecover(at)
      PROVE  Moves
  BY <1>2, RecoveryStays DEF Moves
<1>3. ASSUME NEW id, Rest(id)
      PROVE  Moves
  BY <1>2, <1>3 DEF Rest
<1>4. ASSUME NEW hours, AdvanceWorldTime(hours)
      PROVE  Moves
  BY <1>2, <1>4 DEF AdvanceWorldTime
<1>5. ASSUME NEW full \in Fulls, Join(full) \/ Enter(full)
      PROVE  Moves
  BY <1>5, JoinGrows, EnterGrows DEF Moves
<1>6. ASSUME NEW i \in DOMAIN rows, Act(i)
      PROVE  Moves
  BY <1>6, ActStays DEF Moves
<1>7. ASSUME NEW i \in DOMAIN rows, NEW zero, NEW policy, NEW claims \in BOOLEAN,
             StartEffect(i, zero, policy, claims)
      PROVE  Moves
  BY <1>7, StartTakes DEF Moves
<1>8. EndEffect => Moves
  BY EndStays DEF Moves
<1>9. CompanionsNext => Moves
  BY <1>1, <1>5, <1>6, <1>7, <1>8 DEF CompanionsNext
<1> QED
  BY <1>1, <1>3, <1>4, <1>9 DEF Next

\* A combat starts, ends or goes on.
Starts == /\ ~ fighting /\ fighting' /\ fights' = fights + 1 /\ rows' = rows
          /\ actor' = actor
Ends == /\ fighting /\ ~ fighting' /\ fights' = fights /\ rows' = rows
        /\ hero' = hero /\ clock' = clock /\ magic' = magic /\ CompanionsLeave
GoesOn == fighting' = fighting /\ fights' = fights

LEMMA FightsMove ==
  ASSUME Next
  PROVE  Starts \/ Ends \/ GoesOn
<1>1. StartEncounter => Starts
  BY DEF StartEncounter, FightStarts, Starts
<1>2. CloseCombat => Ends
  BY DEF CloseCombat, FightEnds, CompanionsLeave, Ends, restVars
<1>3. ASSUME NEW hours, TimePasses(hours)
      PROVE  GoesOn
  BY <1>3 DEF TimePasses, GoesOn
<1>4. ASSUME NEW hours, AdvanceWorldTime(hours)
      PROVE  GoesOn
  BY <1>3, <1>4 DEF AdvanceWorldTime
<1>5. ASSUME NEW id, Rest(id)
      PROVE  GoesOn
  BY <1>3, <1>5 DEF Rest, ShortRest, LongRest, Takes
<1>6. UNCHANGED clockVars => GoesOn
  BY DEF clockVars, GoesOn
<1>7. CompanionsNext => GoesOn
  BY <1>6, CreaturesKeepTime
<1>8. ASSUME BodyNext
      PROVE  GoesOn
  <2>1. UNCHANGED clockVars
    BY <1>8 DEF BodyNext, HeroHurt, HeroHealed, HeroBolstered, HeroSaves,
       HeroStabilized, HeroSuffocates, HeroBreathes, HeroTires, FinishRecovery,
       SpendHitDie, Becomes
  <2> QED
    BY <1>6, <2>1
<1>9. ASSUME MagicNext
      PROVE  GoesOn
  <2>1. UNCHANGED clockVars
    BY <1>9 DEF MagicNext, Cast, CreateSlot, ConvertSlot, SpendPoints, Conjures
  <2> QED
    BY <1>6, <2>1
<1> QED
  BY <1>1, <1>2, <1>4, <1>5, <1>7, <1>8, <1>9 DEF Next

LEMMA JourneyMoves ==
  ASSUME CInv, JourneyNext
  PROVE  Moves /\ (Starts \/ Ends \/ GoesOn)
<1>1. CASE Next
  BY <1>1, CreaturesMove, FightsMove
<1>2. CASE UNCHANGED vars
  BY <1>2 DEF vars, Moves, Undisturbed, Stay, GoesOn
<1> QED
  BY <1>1, <1>2 DEF JourneyNext

LEMMA Onward ==
  ASSUME CInv, CInv', Moves
  PROVE  /\ DOMAIN rows \subseteq DOMAIN rows' /\ Mine \subseteq Mine'
         /\ \A i \in DOMAIN rows : rows'[i].in = rows[i].in
         /\ DOMAIN rows' \subseteq DOMAIN rows \cup {Len(rows')}
         /\ actor # NoActor => actor' # NoActor
<1>1. /\ DOMAIN rows \subseteq DOMAIN rows' /\ Mine \subseteq Mine'
      /\ \A i \in DOMAIN rows : rows'[i].in = rows[i].in
      /\ DOMAIN rows' \subseteq DOMAIN rows \cup {Len(rows')}
  BY DEF Moves, Undisturbed, Stay, Grows, Voiced, Mine
<1>2. actor # NoActor => actor' # NoActor
  BY <1>1 DEF CInv, Embodied
<1> QED
  BY <1>1, <1>2

\* The numbers of the creatures: the hero, the rows, the actor, nobody.
LEMMA CreatureNumbers ==
  /\ MaxRows \in Nat /\ NoOne \notin Creatures /\ Lead \in Creatures
  /\ Durable \in Creatures /\ Durable \notin Players /\ Players \subseteq Creatures
  /\ NoOne \notin Players /\ Lead \in Players
  /\ Durable # Lead /\ Durable # NoOne /\ Lead # NoOne
BY CompanionNumbers DEF NoOne, Creatures, Durable, Lead, Players

RowFacts ==
  /\ DOMAIN rows \subseteq Players
  /\ Lead \notin DOMAIN rows /\ Durable \notin DOMAIN rows /\ NoOne \notin DOMAIN rows
  /\ Len(rows) \in Nat /\ DOMAIN rows = 1 .. Len(rows)

LEMMA RowNumbers == CInv /\ Bounded => RowFacts
<1> SUFFICES ASSUME CInv, Bounded
             PROVE  /\ DOMAIN rows \subseteq Players /\ Lead \notin DOMAIN rows
                    /\ Len(rows) \in Nat /\ DOMAIN rows = 1 .. Len(rows)
  BY CreatureNumbers DEF RowFacts
<1>1. Len(rows) \in Nat /\ DOMAIN rows = 1 .. Len(rows) /\ Len(rows) <= MaxRows
  BY DEF CInv, Typed, Bounded, Placed
<1> QED
  BY <1>1, CompanionNumbers DEF Players, Lead

LEMMA RowNumbersAfter == CInv' /\ Bounded' => RowFacts'
BY RowNumbers, PTL

SpeaksFor == Mine # {} => Speaker \in DOMAIN rows

LEMMA SpeakerIs == CInv => SpeaksFor
BY SpeakerFacts DEF CInv, SpeaksFor

LEMMA SpeakerAfter == CInv' => SpeaksFor'
BY SpeakerIs, PTL

\* The actor's row of the active combat is the one that speaks.
TwinFacts ==
  /\ Twins \subseteq Creatures
  /\ \/ Twins = {} /\ ActorRow = {}
     \/ /\ Twins = {Speaker, Durable} /\ Mine # {} /\ Speaker \in DOMAIN rows
        /\ Here(Speaker) /\ actor # NoActor

LEMMA TwinsAre == CInv /\ Bounded => TwinFacts
<1> SUFFICES ASSUME CInv, Bounded, ActorRow # {}
             PROVE  /\ Twins \subseteq Creatures
                    /\ Twins = {Speaker, Durable} /\ Mine # {} /\ Speaker \in DOMAIN rows
                    /\ Here(Speaker) /\ actor # NoActor
  BY DEF Twins, TwinFacts
<1>1. /\ Max(ActorRow) = Speaker /\ Speaker \in DOMAIN rows /\ Here(Speaker)
  BY ActorRowFacts
<1>2. Mine # {} /\ actor # NoActor
  BY DEF ActorRow, CInv, Embodied
<1>3. Twins = {Speaker, Durable}
  BY <1>1 DEF Twins
<1> QED
  BY <1>1, <1>2, <1>3, RowNumbers, CreatureNumbers DEF RowFacts

LEMMA TwinsAfter == CInv' /\ Bounded' => TwinFacts'
BY TwinsAre, PTL

-----------------------------------------------------------------------------
\* Effects: of what they are

Seated(e) ==
  /\ e \in EffectRows
  /\ e.on \in DOMAIN rows \cup {Lead, Durable, NoOne}
  /\ e.on \in DOMAIN rows => Here(e.on)
  /\ e.on = Durable => actor # NoActor
  /\ e.timer = "turn" => e.whose \in Players
  /\ e.owner \in DOMAIN rows \cup {Lead, NoOne}

Seats ==
  /\ conds \in [Creatures -> SUBSET Conditions] /\ strayed \subseteq EffectIds
  /\ \A e \in live : Seated(e)

\* What the proofs about effects take from the rest of the campaign.
Play == CInv /\ Bounded /\ TurnsInv

LEMMA SeatedStill ==
  ASSUME UNCHANGED vars, NEW e, Seated(e)
  PROVE  Seated(e)'
  BY DEF vars, Seated, Here

LEMMA SeatedMoves ==
  ASSUME CInv, Bounded, CInv', Bounded', Moves, Starts \/ GoesOn, NEW e, Seated(e)
  PROVE  Seated(e)'
<1>1. /\ DOMAIN rows \subseteq DOMAIN rows'
      /\ \A i \in DOMAIN rows : rows'[i].in = rows[i].in
      /\ DOMAIN rows' \subseteq DOMAIN rows \cup {Len(rows')}
      /\ actor # NoActor => actor' # NoActor
  BY Onward
<1>2. e.on \in DOMAIN rows' => Here(e.on)'
  <2> SUFFICES ASSUME e.on \in DOMAIN rows'
               PROVE  Here(e.on)'
    OBVIOUS
  <2>1. e.on \in DOMAIN rows
    BY <1>1, RowNumbersAfter DEF Seated, RowFacts
  <2>2. Here(e.on)
    BY <2>1 DEF Seated
  <2> QED
    BY <1>1, <2>1, <2>2 DEF Here, Starts, GoesOn
<1> QED
  BY <1>1, <1>2 DEF Seated

\* An effect with fewer claims is seated where it was.
LEMMA FreedTypes ==
  ASSUME NEW c \in [Creatures -> SUBSET Conditions], NEW es, NEW reach, NEW T
  PROVE  Freed(c, es, reach, T) \in [Creatures -> SUBSET Conditions]
  BY DEF Freed

LEMMA WithTypes ==
  ASSUME NEW c \in [Creatures -> SUBSET Conditions], NEW w, NEW cond \in Conditions
  PROVE  With(c, w, cond) \in [Creatures -> SUBSET Conditions]
  BY DEF With

\* Collateral is of those that are left.
LEMMA CollateralIds ==
  ASSUME NEW L, NEW gone, NEW T
  PROVE  Collateral(L, gone, T) \subseteq {e.id : e \in L}
  BY DEF Collateral, Losing

LEMMA IdTypes ==
  ASSUME Seats, NEW L \in SUBSET live
  PROVE  {e.id : e \in L} \subseteq EffectIds
<1> SUFFICES ASSUME NEW e \in L
             PROVE  e.id \in EffectIds
  OBVIOUS
<1>1. e \in EffectRows
  BY DEF Seats, Seated
<1> QED
  BY <1>1 DEF EffectRows

LEMMA CopiedTypes ==
  ASSUME NEW c \in [Creatures -> SUBSET Conditions], Play, Play', Moves
  PROVE  Copied(c) \in [Creatures -> SUBSET Conditions]
<1>1. Durable \in Creatures
  BY CreatureNumbers
<1>2. CASE Enters
  <2> DEFINE given == IF Fresh THEN {} ELSE c[Durable]
             d == [c EXCEPT ![Len(rows')] = given]
  <2>1. given \in SUBSET Conditions
    BY <1>1
  <2> HIDE DEF given
  <2>2. d \in [Creatures -> SUBSET Conditions]
    BY <2>1
  <2>3. Copied(c) = [d EXCEPT ![Durable] = IF Fresh THEN {} ELSE @]
    BY <1>2 DEF Copied, given
  <2> HIDE DEF d
  <2> QED
    BY <1>1, <2>2, <2>3
<1>3. CASE ~ Enters /\ (Embodies \/ Wakes)
  <2>1. Mine' # {}
    BY <1>3, Onward DEF Embodies, Wakes, Play, CInv, Embodied
  <2>2. Speaker' \in DOMAIN rows'
    BY <2>1, SpeakerAfter DEF Play, SpeaksFor
  <2>3. Speaker' \in Creatures
    BY <2>2, RowNumbersAfter, CreatureNumbers DEF Play, RowFacts
  <2> QED
    BY <1>1, <1>3, <2>3 DEF Copied
<1>4. CASE ~ Enters /\ ~ (Embodies \/ Wakes)
  BY <1>4 DEF Copied
<1> QED
  BY <1>2, <1>3, <1>4

\* What a step of the campaign leaves of the effects.
JourneyEnds(due, broken) ==
  LET left == live \ (due \cup broken)
      gone == Cleaned(due, broken)
  IN /\ live' = left
     /\ conds' = Copied(Freed(conds, gone, Reachable', Twins'))
     /\ strayed' = (strayed \cap {e.id : e \in left})
          \cup Collateral(left, gone, Twins')
          \cup {e.id : e \in {f \in left : /\ Enters \/ Wakes
                                           /\ f.on = Durable
                                           /\ f.cond \notin conds'[Durable]}}

DueBy(hour) == {e \in live : e.timer = "clock" /\ e.at <= hour}
BrokenOf(due) == {e \in live \ due : e.owner # NoOne /\ Falls(e.owner)}

LEMMA FollowFacts ==
  ASSUME EffectsFollow
  PROVE  \/ fighting /\ ~ fighting' /\ CombatEnds
         \/ ~ (fighting /\ ~ fighting') /\ JourneyEnds(DueBy(clock'), BrokenOf(DueBy(clock')))
  BY DEF EffectsFollow, JourneyEnds, DueBy, BrokenOf

LEMMA JourneySeats ==
  ASSUME Seats, Play, Play', JourneyNext, ~ (fighting /\ ~ fighting'),
         NEW due, NEW broken, JourneyEnds(due, broken)
  PROVE  Seats'
<1> DEFINE left == live \ (due \cup broken)
           gone == Cleaned(due, broken)
           lost == {f \in left : /\ Enters \/ Wakes
                                 /\ f.on = Durable /\ f.cond \notin conds'[Durable]}
<1>1. /\ live' = left /\ conds' = Copied(Freed(conds, gone, Reachable', Twins'))
      /\ strayed' = (strayed \cap {e.id : e \in left})
           \cup Collateral(left, gone, Twins') \cup {e.id : e \in lost}
  BY DEF JourneyEnds
<1>2. left \in SUBSET live /\ lost \in SUBSET live
  OBVIOUS
<1> HIDE DEF left, gone, lost
<1>3. \A e \in live' : Seated(e)'
  <2> SUFFICES ASSUME NEW e \in left
               PROVE  Seated(e)'
    BY <1>1
  <2>1. Seated(e)
    BY <1>2 DEF Seats
  <2>2. Moves /\ (Starts \/ GoesOn)
    BY JourneyMoves DEF Ends, Play
  <2> QED
    BY <2>1, <2>2, SeatedMoves DEF Play
<1>4. conds' \in [Creatures -> SUBSET Conditions]
  <2>1. Freed(conds, gone, Reachable', Twins') \in [Creatures -> SUBSET Conditions]
    BY FreedTypes DEF Seats
  <2>2. Moves
    BY JourneyMoves DEF Play
  <2> QED
    BY <1>1, <2>1, <2>2, CopiedTypes
<1>5. strayed' \subseteq EffectIds
  <2>1. {e.id : e \in left} \subseteq EffectIds /\ {e.id : e \in lost} \subseteq EffectIds
    BY <1>2, IdTypes
  <2>2. Collateral(left, gone, Twins') \subseteq {e.id : e \in left}
    BY CollateralIds
  <2> QED
    BY <1>1, <2>1, <2>2
<1> QED
  BY <1>3, <1>4, <1>5 DEF Seats

\* Where the end of a combat leaves an effect that was on one of its rows.
Passed(e, lasting) == [e EXCEPT !.on = IF @ \in lasting THEN Durable ELSE NoOne]

TimedNow == {e \in live : e.timer \in {"round", "turn"}}
OrphanedNow == {e \in live \ TimedNow : e.owner \in DOMAIN rows /\ Here(e.owner)}
KeptNow == live \ (TimedNow \cup OrphanedNow)
ThereNow == {e \in KeptNow : e.on \in DOMAIN rows /\ Here(e.on)}
Lasting == {i \in DOMAIN rows : Here(i) /\ (Claimed(i) \/ (i \in Mine /\ i = Speaker))}
GoneNow == Cleaned(TimedNow \cup {e \in ThereNow : e.on \notin Lasting}, OrphanedNow)

LEMMA CloseFacts ==
  ASSUME CombatEnds
  PROVE  /\ live' = (KeptNow \ ThereNow) \cup {Passed(e, Lasting) : e \in ThereNow}
         /\ conds' = Freed(conds, GoneNow, Reachable, Twins)
         /\ strayed' = (strayed \cap {e.id : e \in KeptNow})
                         \cup Collateral(KeptNow, GoneNow, Twins)
  BY DEF CombatEnds, Passed, TimedNow, OrphanedNow, KeptNow, ThereNow, Lasting, GoneNow

LEMMA PassedFacts ==
  ASSUME NEW e \in EffectRows, NEW lasting
  PROVE  LET f == Passed(e, lasting) IN
         /\ f \in EffectRows
         /\ f.on = IF e.on \in lasting THEN Durable ELSE NoOne
         /\ f.id = e.id /\ f.owner = e.owner /\ f.cond = e.cond /\ f.timer = e.timer
         /\ f.at = e.at /\ f.whose = e.whose
<1> DEFINE on == IF e.on \in lasting THEN Durable ELSE NoOne
<1>1. on \in Creatures \cup {NoOne}
  BY CreatureNumbers
<1>2. Passed(e, lasting) = [e EXCEPT !.on = on]
  BY DEF Passed
<1> HIDE DEF on
<1> QED
  BY <1>1, <1>2 DEF EffectRows, on

LEMMA LastingIsActor ==
  ASSUME CInv, CInv', Ends, Lasting # {}
  PROVE  actor' # NoActor
<1>1. Mine # {}
  BY DEF Lasting, Claimed, CInv, Linked, OwnsActor
<1>2. Mine' = Mine
  BY DEF Ends, Mine
<1> QED
  BY <1>1, <1>2 DEF CInv, Embodied

LEMMA CloseSeats ==
  ASSUME Seats, Play, Play', Ends, CombatEnds
  PROVE  Seats'
<1>1. /\ live' = (KeptNow \ ThereNow) \cup {Passed(e, Lasting) : e \in ThereNow}
      /\ conds' = Freed(conds, GoneNow, Reachable, Twins)
      /\ strayed' = (strayed \cap {e.id : e \in KeptNow})
                      \cup Collateral(KeptNow, GoneNow, Twins)
  BY CloseFacts
<1>2. KeptNow \in SUBSET live /\ ThereNow \in SUBSET KeptNow
  BY DEF KeptNow, ThereNow
<1>3. ASSUME NEW e \in KeptNow \ ThereNow
      PROVE  Seated(e)'
  <2>1. Seated(e)
    BY <1>2 DEF Seats
  <2>2. e.on \notin DOMAIN rows
    BY <2>1 DEF Seated, ThereNow
  <2>3. actor # NoActor => actor' # NoActor
    <3>1. Mine' = Mine
      BY DEF Ends, Mine
    <3> QED
      BY <3>1 DEF Play, CInv, Embodied
  <2> QED
    BY <2>1, <2>2, <2>3 DEF Seated, Ends
<1>4. ASSUME NEW e \in ThereNow, NEW f, f = Passed(e, Lasting)
      PROVE  Seated(f)'
  <2>1. Seated(e) /\ e \in EffectRows
    BY <1>2 DEF Seats, Seated
  <2>2. /\ f \in EffectRows /\ f.on = (IF e.on \in Lasting THEN Durable ELSE NoOne)
        /\ f.owner = e.owner /\ f.timer = e.timer /\ f.whose = e.whose
    BY <1>4, <2>1, PassedFacts
  <2>3. e.on \in Lasting => actor' # NoActor
    BY LastingIsActor DEF Play
  <2>4. rows' = rows
    BY DEF Ends
  <2>5. f.on \notin DOMAIN rows
    BY <2>2, RowNumbers DEF Play, RowFacts
  <2>6. f.on = Durable => actor' # NoActor
    BY <2>2, <2>3, CreatureNumbers
  <2> QED
    BY <2>1, <2>2, <2>4, <2>5, <2>6 DEF Seated
<1>5. ASSUME NEW f \in live'
      PROVE  Seated(f)'
  <2>1. f \in KeptNow \ ThereNow \/ \E e \in ThereNow : f = Passed(e, Lasting)
    BY <1>1
  <2> QED
    BY <2>1, <1>3, <1>4
<1>6. conds' \in [Creatures -> SUBSET Conditions]
  BY <1>1, FreedTypes DEF Seats
<1>7. strayed' \subseteq EffectIds
  BY <1>1, <1>2, IdTypes, CollateralIds
<1> QED
  BY <1>5, <1>6, <1>7 DEF Seats

-----------------------------------------------------------------------------
\* The same of the tools that write effects and conditions.
LEMMA FinishSeats ==
  ASSUME Seats, UNCHANGED vars, NEW ended, NEW broken, Finish(ended, broken)
  PROVE  Seats'
<1> DEFINE left == live \ (ended \cup broken)
           gone == Cleaned(ended, broken)
<1>1. /\ live' = left /\ conds' = Freed(conds, gone, Reachable', Twins')
      /\ strayed' = (strayed \cap {e.id : e \in left}) \cup Collateral(left, gone, Twins')
  BY DEF Finish
<1>2. left \in SUBSET live
  OBVIOUS
<1> HIDE DEF left, gone
<1>3. \A e \in live' : Seated(e)'
  BY <1>1, <1>2, SeatedStill DEF Seats
<1>4. conds' \in [Creatures -> SUBSET Conditions]
  BY <1>1, FreedTypes DEF Seats
<1>5. strayed' \subseteq EffectIds
  BY <1>1, <1>2, IdTypes, CollateralIds
<1> QED
  BY <1>3, <1>4, <1>5 DEF Seats

LEMMA BaseTypes ==
  ASSUME Play, NEW p \in Players \cup {NoOne}, NEW timer \in Timers,
         timer = "turn" => p \in Players
  PROVE  Base(timer, p) \in Nat
<1>1. clock \in Nat
  BY DEF Play, CInv, Typed
<1>2. Max({1, round}) \in Nat
  <2>1. round \in Nat
    BY DEF Play, TurnsInv, TurnsTypeOK
  <2> QED
    BY <2>1, GreaterOfTwo
<1>3. ASSUME p \in Players
      PROVE  BudgetOf(p).turns + (IF active = p THEN 1 ELSE 0) \in Nat
  <2>1. BudgetOf(p).turns \in Nat
    BY <1>3, BudgetOfTypes, BudgetTypes DEF Play, TurnsInv
  <2> QED
    BY <2>1
<1> QED
  BY <1>1, <1>2, <1>3 DEF Base

LEMMA LeastIn ==
  ASSUME NEW n \in Nat, NEW S \in SUBSET (1 .. n), S # {}
  PROVE  Min(S) \in S
<1> DEFINE less == {ss \in Nat \X Nat : ss[1] < ss[2]}
<1>1. IsWellFoundedOn(less, Nat)
  BY NatLessThanWellFounded DEF OpToRel
<1>2. S \subseteq Nat
  OBVIOUS
<1> HIDE DEF less
<1>3. PICK x \in S : \A y \in S : <<y, x>> \notin less
  BY <1>1, <1>2, WFMin
<1>4. \A y \in S : x <= y
  <2> SUFFICES ASSUME NEW y \in S
               PROVE  x <= y
    OBVIOUS
  <2>1. ~ (y < x)
    BY <1>2, <1>3 DEF less
  <2> QED
    BY <1>2, <2>1
<1> QED
  BY <1>4 DEF Min

\* A new effect, as the tool that makes it makes it.
LEMMA CreateSeats ==
  ASSUME Seats, Play, UNCHANGED vars, NEW e \in EffectRows, CreateEffect(e),
         e.on \in Creatures
  PROVE  Seats'
<1> DEFINE prior == Focused(e.owner)
           freed == Cleaned({}, prior)
           before == Freed(conds, freed, Reachable, Twins)
           shaken == Shaken(before, live \ prior, e.on, e.cond)
           after == Cleaned({}, shaken)
           left == live \ (prior \cup shaken)
<1>1. /\ InPlayNow(e.on) /\ MayAnchor(e.timer, e.whose)
      /\ e.owner # NoOne => InPlayNow(e.owner)
      /\ live' = left \cup {e}
      /\ conds' = Freed(With(before, e.on, e.cond), after, Reachable, Twins)
      /\ strayed' = (strayed \cap {f.id : f \in left}) \cup Collateral(left, freed, Twins)
                      \cup Collateral(left \cup {e}, after, Twins)
  BY DEF CreateEffect
<1>2. left \in SUBSET live
  OBVIOUS
<1> HIDE DEF prior, freed, before, shaken, after, left
<1>3. Seated(e)
  <2>1. e.on \in DOMAIN rows \cup {Lead, Durable} /\ (e.on \in DOMAIN rows => Here(e.on))
    <3>1. e.on \in DOMAIN rows => Present(e.on) \/ e.on \in {Lead, Durable}
      BY <1>1 DEF InPlayNow
    <3> QED
      BY <1>1, <3>1, RowNumbers DEF Play, RowFacts, InPlayNow, Present
  <2>2. e.on = Durable => actor # NoActor
    BY <1>1, CreatureNumbers, RowNumbers DEF InPlayNow, Play, RowFacts
  <2>3. e.owner \in DOMAIN rows \cup {Lead, NoOne}
    <3>1. e.owner \in Players \cup {NoOne}
      BY DEF EffectRows
    <3> QED
      BY <1>1, <3>1, CreatureNumbers DEF InPlayNow
  <2>4. e.timer = "turn" => e.whose \in Players
    <3>1. e.whose \in Players \cup {NoOne}
      BY DEF EffectRows
    <3> QED
      BY <1>1, <3>1 DEF MayAnchor
  <2> QED
    BY <2>1, <2>2, <2>3, <2>4 DEF Seated
<1>4. \A f \in live' : Seated(f)'
  BY <1>1, <1>2, <1>3, SeatedStill DEF Seats
<1>5. conds' \in [Creatures -> SUBSET Conditions]
  <2>1. before \in [Creatures -> SUBSET Conditions] /\ e.cond \in Conditions
    BY FreedTypes DEF Seats, before, EffectRows
  <2>2. With(before, e.on, e.cond) \in [Creatures -> SUBSET Conditions]
    BY <2>1, WithTypes
  <2> QED
    BY <1>1, <2>2, FreedTypes
<1>6. strayed' \subseteq EffectIds
  <2>1. {f.id : f \in left} \subseteq EffectIds
    BY <1>2, IdTypes
  <2>2. {f.id : f \in left \cup {e}} \subseteq EffectIds
    BY <2>1 DEF EffectRows
  <2>3. /\ Collateral(left, freed, Twins) \subseteq {f.id : f \in left}
        /\ Collateral(left \cup {e}, after, Twins) \subseteq {f.id : f \in left \cup {e}}
    BY CollateralIds
  <2> QED
    BY <1>1, <2>1, <2>2, <2>3
<1> QED
  BY <1>4, <1>5, <1>6 DEF Seats

\* What the tool is given makes a row.
Given(s, owner, whose, on) ==
  [id |-> Min(Unused), owner |-> owner, on |-> on, cond |-> s.cond, onEnd |-> s.onEnd,
   onBreak |-> s.onBreak, timer |-> s.timer, whose |-> whose,
   at |-> Base(s.timer, whose) + Span]

LEMMA GivenTypes ==
  ASSUME Play, NEW s \in Spells, NEW owner \in Players \cup {NoOne},
         NEW whose \in Players \cup {NoOne}, NEW on \in Creatures,
         Unused # {}, MayAnchor(s.timer, whose)
  PROVE  Given(s, owner, whose, on) \in EffectRows /\ Min(Unused) \in Unused
<1>1. Min(Unused) \in Unused
  BY EffectNumbers, LeastIn DEF Unused, EffectIds
<1>2. /\ s.cond \in Conditions /\ s.onEnd \in Policies /\ s.onBreak \in Policies
      /\ s.timer \in Timers
  BY EffectNumbers
<1>3. s.timer = "turn" => whose \in Players
  BY DEF MayAnchor
<1>4. Base(s.timer, whose) + Span \in Nat
  BY <1>2, <1>3, BaseTypes, EffectNumbers
<1> QED
  BY <1>1, <1>2, <1>4 DEF Given, EffectRows, Unused

LEMMA RefreshedFacts ==
  ASSUME NEW e \in EffectRows, NEW at \in Nat
  PROVE  LET f == [e EXCEPT !.at = at] IN
         /\ f \in EffectRows /\ f.at = at /\ f.on = e.on /\ f.id = e.id
         /\ f.owner = e.owner /\ f.cond = e.cond /\ f.timer = e.timer
         /\ f.whose = e.whose
  BY DEF EffectRows

LEMMA UntargetedFacts ==
  ASSUME NEW e \in EffectRows
  PROVE  LET f == [e EXCEPT !.on = NoOne] IN
         /\ f \in EffectRows /\ f.on = NoOne /\ f.at = e.at /\ f.id = e.id
         /\ f.owner = e.owner /\ f.cond = e.cond /\ f.timer = e.timer
         /\ f.whose = e.whose
  BY DEF EffectRows

LEMMA TargetSeats ==
  ASSUME Seats, Play, UNCHANGED vars, NEW e \in live, RemoveEffectTarget(e)
  PROVE  Seats'
<1> DEFINE left == live \ {e}
           gone == Cleaned({e}, {})
           f == [e EXCEPT !.on = NoOne]
<1>1. /\ live' = left \cup {f} /\ conds' = Freed(conds, gone, Reachable, Twins)
      /\ strayed' = (strayed \ {e.id}) \cup Collateral(left, gone, Twins)
  BY DEF RemoveEffectTarget
<1>2. left \in SUBSET live
  OBVIOUS
<1>3. Seated(e) /\ e \in EffectRows
  BY DEF Seats, Seated
<1>4. /\ f \in EffectRows /\ f.on = NoOne /\ f.owner = e.owner
      /\ f.timer = e.timer /\ f.whose = e.whose
  BY <1>3, UntargetedFacts
<1> HIDE DEF left, gone, f
<1>5. Seated(f)
  BY <1>3, <1>4, RowNumbers, CreatureNumbers DEF Seated, Play, RowFacts
<1>6. \A d \in live' : Seated(d)'
  BY <1>1, <1>2, <1>5, SeatedStill DEF Seats
<1>7. conds' \in [Creatures -> SUBSET Conditions]
  BY <1>1, FreedTypes DEF Seats
<1>8. strayed' \subseteq EffectIds
  BY <1>1, <1>2, IdTypes, CollateralIds DEF Seats
<1> QED
  BY <1>6, <1>7, <1>8 DEF Seats

LEMMA RefreshSeats ==
  ASSUME Seats, Play, UNCHANGED vars, NEW e \in live, RefreshEffect(e)
  PROVE  Seats'
<1> DEFINE at == Base(e.timer, e.whose) + Span
           f == [e EXCEPT !.at = at]
<1>1. live' = (live \ {e}) \cup {f} /\ conds' = conds /\ strayed' = strayed
      /\ MayAnchor(e.timer, e.whose)
  BY DEF RefreshEffect
<1>2. Seated(e) /\ e \in EffectRows
  BY DEF Seats, Seated
<1>3. at \in Nat
  <2>1. e.timer \in Timers /\ e.whose \in Players \cup {NoOne}
    BY <1>2 DEF EffectRows
  <2>2. e.timer = "turn" => e.whose \in Players
    BY <1>2 DEF Seated
  <2> QED
    BY <2>1, <2>2, BaseTypes, EffectNumbers
<1> HIDE DEF at
<1>4. /\ f \in EffectRows /\ f.on = e.on /\ f.owner = e.owner
      /\ f.timer = e.timer /\ f.whose = e.whose
  BY <1>2, <1>3, RefreshedFacts
<1> HIDE DEF f
<1>5. Seated(f)
  BY <1>2, <1>4 DEF Seated
<1>6. \A d \in live' : Seated(d)'
  BY <1>1, <1>5, SeatedStill DEF Seats
<1> QED
  BY <1>1, <1>6 DEF Seats

LEMMA ConditionSeats ==
  ASSUME Seats, UNCHANGED vars, NEW w \in Players, NEW cond \in Conditions,
         AddCondition(w, cond) \/ RemoveCondition(w, cond)
  PROVE  Seats'
<1>1. CASE AddCondition(w, cond)
  <2> DEFINE shaken == Shaken(conds, live, w, cond)
             gone == Cleaned({}, shaken)
             left == live \ shaken
  <2>1. /\ live' = left
        /\ conds' = Freed(With(conds, w, cond), gone, Reachable, Twins)
        /\ strayed' = (strayed \cap {e.id : e \in left}) \cup Collateral(left, gone, Twins)
    BY <1>1 DEF AddCondition
  <2>2. left \in SUBSET live
    OBVIOUS
  <2> HIDE DEF shaken, gone, left
  <2>3. \A d \in live' : Seated(d)'
    BY <2>1, <2>2, SeatedStill DEF Seats
  <2>4. conds' \in [Creatures -> SUBSET Conditions]
    BY <2>1, FreedTypes, WithTypes DEF Seats
  <2>5. strayed' \subseteq EffectIds
    BY <2>1, <2>2, IdTypes, CollateralIds
  <2> QED
    BY <2>3, <2>4, <2>5 DEF Seats
<1>2. CASE RemoveCondition(w, cond)
  <2>1. /\ conds' = [v \in Creatures |-> IF v \in Alike(w, Twins)
                                         THEN conds[v] \ {cond} ELSE conds[v]]
        /\ strayed' = strayed \cup Losing(live, w, cond, Twins) /\ live' = live
    BY <1>2 DEF RemoveCondition
  <2>2. conds' \in [Creatures -> SUBSET Conditions]
    BY <2>1 DEF Seats
  <2>3. Losing(live, w, cond, Twins) \subseteq {e.id : e \in live}
    BY DEF Losing
  <2>4. strayed' \subseteq EffectIds
    BY <2>1, <2>3, IdTypes DEF Seats
  <2> QED
    BY <2>1, <2>2, <2>4, SeatedStill DEF Seats
<1> QED
  BY <1>1, <1>2

LEMMA EffectsSeat ==
  ASSUME Seats, Play, UNCHANGED vars, EffectsNext
  PROVE  Seats'
<1>1. ASSUME NEW s \in Spells, NEW owner \in Players \cup {NoOne},
             NEW whose \in Players \cup {NoOne}, NEW on \in Creatures,
             Unused # {}, MayAnchor(s.timer, whose),
             CreateEffect(Given(s, owner, whose, on))
      PROVE  Seats'
  BY <1>1, GivenTypes, CreateSeats DEF Given
<1>2. ASSUME NEW e \in live, EndActiveEffect(e) \/ BreakConcentration(e)
      PROVE  Seats'
  BY <1>2, FinishSeats DEF EndActiveEffect, BreakConcentration
<1>3. ASSUME NEW e \in live, RemoveEffectTarget(e) \/ RefreshEffect(e)
      PROVE  Seats'
  BY <1>3, TargetSeats, RefreshSeats
<1>4. ASSUME NEW w \in Players, NEW cond \in Conditions,
             AddCondition(w, cond) \/ RemoveCondition(w, cond)
      PROVE  Seats'
  BY <1>4, ConditionSeats
<1> QED
  BY <1>1, <1>2, <1>3, <1>4 DEF EffectsNext, Given

LEMMA SeatsStep ==
  ASSUME Seats, Play, Play', [BattleNext]_battleVars
  PROVE  Seats'
<1>1. CASE JourneyNext /\ Aftermath
  <2>1. CASE fighting /\ ~ fighting' /\ CombatEnds
    <3>1. Ends
      BY <1>1, <2>1, JourneyMoves DEF Starts, GoesOn, Play
    <3> QED
      BY <2>1, <3>1, CloseSeats
  <2>2. CASE ~ (fighting /\ ~ fighting')
             /\ JourneyEnds(DueBy(clock'), BrokenOf(DueBy(clock')))
    BY <1>1, <2>2, JourneySeats
  <2> QED
    BY <1>1, <2>1, <2>2, FollowFacts DEF Aftermath
<1>2. ASSUME NEW p, NEW r, UNCHANGED journeyVars, TurnEffects(p, r)
      PROVE  Seats'
  BY <1>2, FinishSeats DEF TurnEffects, journeyVars
<1>3. CASE UNCHANGED <<journeyVars, effectVars>>
  <2>1. /\ conds' = conds /\ strayed' = strayed /\ live' = live /\ UNCHANGED vars
    BY <1>3 DEF journeyVars, effectVars
  <2> QED
    BY <2>1, SeatedStill DEF Seats
<1>4. CASE UNCHANGED <<journeyVars, turnVars>> /\ EffectsNext
  BY <1>4, EffectsSeat DEF journeyVars
<1> QED
  BY <1>1, <1>2, <1>3, <1>4 DEF BattleNext, battleVars

LEMMA SeatsInit == BattleInit => Seats
BY EffectNumbers DEF BattleInit, EffectsInit, Seats

LEMMA SeatsAreTypes == Seats => EffectsTypeOK
BY DEF Seats, Seated, EffectsTypeOK

-----------------------------------------------------------------------------
\* Effects: that they bind as they should

\* Who concentrates can; what has a deadline waits for it.
Watched(e) == e.owner # NoOne => InPlayNow(e.owner) /\ ~ Stopped(e.owner)
Timely(e) ==
  e.timer # "none" => /\ e.at > Base(e.timer, e.whose)
                      /\ e.timer \in {"round", "turn"} => fighting

\* Ids are given once, and nobody concentrates on two effects.
Apart(L) == \A e, f \in L : e.id = f.id => e = f
Single(L) == \A e, f \in L : e.owner # NoOne /\ e.owner = f.owner => e = f

\* The effects of L own their conditions c, each one alone among creatures that
\* are alike, but for those that have strayed.
Owned(L, c, s, T) ==
  \A e \in L : e.id \notin s /\ e.on # NoOne =>
    /\ e.cond \in c[e.on]
    /\ \A f \in L : f.id \notin s /\ f.on # NoOne /\ f.cond = e.cond
                      /\ f.on \in Alike(e.on, T) => f = e

Agree(c, T) == \A v, w \in T : c[v] = c[w]

EffectsInv ==
  /\ Seats /\ Apart(live) /\ Single(live)
  /\ \A e \in live : Watched(e) /\ Timely(e)
  /\ Owned(live, conds, strayed, Twins) /\ Agree(conds, Twins)

LEMMA AlikeFacts ==
  ASSUME NEW T, NEW v, NEW w
  PROVE  /\ w \in Alike(w, T)
         /\ v \in Alike(w, T) <=> Alike(v, T) = Alike(w, T)
         /\ v \in Alike(w, T) <=> w \in Alike(v, T)
<1>1. \A z : z \in Alike(z, T)
  BY DEF Alike
<1>2. ASSUME v \in Alike(w, T) PROVE Alike(v, T) = Alike(w, T)
  BY <1>2 DEF Alike
<1> QED
  BY <1>1, <1>2 DEF Alike

LEMMA AlikeAgree ==
  ASSUME NEW T, NEW c, Agree(c, T), NEW v, NEW w, v \in Alike(w, T)
  PROVE  c[v] = c[w]
  BY DEF Agree, Alike

LEMMA OwnedLinks ==
  ASSUME Owned(live, conds, strayed, Twins)
  PROVE  LinksHold
<1> SUFFICES ASSUME NEW e \in live, e.on # NoOne, e.id \notin strayed
             PROVE  /\ e.cond \in conds[e.on]
                    /\ Losing(live, e.on, e.cond, Twins) \ strayed = {e.id}
  BY DEF LinksHold
<1> DEFINE S == {f \in live : f.cond = e.cond /\ f.on # NoOne
                                /\ Alike(f.on, Twins) = Alike(e.on, Twins)}
<1>1. Losing(live, e.on, e.cond, Twins) = {f.id : f \in S}
  BY DEF Losing
<1>2. \A f \in S : f.id \notin strayed => f = e
  BY AlikeFacts DEF Owned
<1>3. e \in S
  OBVIOUS
<1> HIDE DEF S
<1>4. {f.id : f \in S} \ strayed = {e.id}
  BY <1>2, <1>3
<1>5. e.cond \in conds[e.on]
  BY DEF Owned
<1> QED
  BY <1>1, <1>4, <1>5

LEMMA EffectsInvSound == EffectsInv => EffectsSound
<1> SUFFICES ASSUME EffectsInv
             PROVE  EffectsSound
  OBVIOUS
<1>1. Concentrating
  <2> SUFFICES ASSUME NEW e \in live, e.owner # NoOne
               PROVE  InPlayNow(e.owner) /\ ~ Stopped(e.owner) /\ Focused(e.owner) = {e}
    BY DEF Concentrating
  <2>1. Watched(e)
    BY DEF EffectsInv
  <2>2. Focused(e.owner) = {e}
    BY DEF EffectsInv, Single, Focused
  <2> QED
    BY <2>1, <2>2 DEF Watched
<1>2. NothingOverdue
  BY DEF EffectsInv, NothingOverdue, Timely
<1>3. LinksHold
  BY OwnedLinks DEF EffectsInv
<1>4. TwinsAgree
  BY DEF EffectsInv, TwinsAgree, Agree
<1> QED
  BY <1>1, <1>2, <1>3, <1>4 DEF EffectsSound

\* What is freed was there.
LEMMA FreedLess ==
  ASSUME NEW c, NEW es, NEW reach, NEW T, NEW w \in Creatures
  PROVE  Freed(c, es, reach, T)[w] \subseteq c[w]
  BY DEF Freed

\* A condition stays with the effect that owns it when other effects go, unless
\* one that had strayed takes it along.
LEMMA Retained ==
  ASSUME NEW T0, NEW T, NEW c, NEW reach, NoOne \notin reach,
         Owned(live, conds, strayed, T0), NEW gone \in SUBSET live, NEW L,
         NEW e \in live, e \in L, e \notin gone, e.on \in Creatures, e.on # NoOne,
         e.id \notin strayed, e.id \notin Collateral(L, gone, T), e.cond \in c[e.on],
         \A g \in gone : g.on # NoOne /\ e.on \in Alike(g.on, T) => g.on \in Alike(e.on, T0)
  PROVE  e.cond \in Freed(c, gone, reach, T)[e.on]
<1> SUFFICES ASSUME NEW g \in gone, g.on \in reach, e.on \in Alike(g.on, T),
                    g.cond = e.cond
             PROVE  FALSE
  BY DEF Freed
<1>1. g.on # NoOne /\ g \in live /\ g # e
  OBVIOUS
<1>2. CASE g.id \in strayed
  <2>1. Alike(e.on, T) = Alike(g.on, T)
    BY AlikeFacts
  <2>2. e.id \in Losing(L, g.on, g.cond, T)
    BY <2>1 DEF Losing
  <2> QED
    BY <1>1, <1>2, <2>2 DEF Collateral
<1>3. CASE g.id \notin strayed
  BY <1>1, <1>3 DEF Owned
<1> QED
  BY <1>2, <1>3

LEMMA FreedAgree ==
  ASSUME NEW c, NEW es, NEW reach, NEW T \in SUBSET Creatures, Agree(c, T)
  PROVE  Agree(Freed(c, es, reach, T), T)
<1> SUFFICES ASSUME NEW v \in T, NEW w \in T
             PROVE  Freed(c, es, reach, T)[v] = Freed(c, es, reach, T)[w]
  BY DEF Agree
<1>1. c[v] = c[w]
  BY DEF Agree
<1>2. \A z : v \in Alike(z, T) <=> w \in Alike(z, T)
  BY DEF Alike
<1> QED
  BY <1>1, <1>2 DEF Freed

LEMMA WithAgree ==
  ASSUME NEW c, Agree(c, Twins), Twins \subseteq Creatures, NEW w, NEW cond
  PROVE  Agree(With(c, w, cond), Twins)
<1> SUFFICES ASSUME NEW v \in Twins, NEW u \in Twins
             PROVE  With(c, w, cond)[v] = With(c, w, cond)[u]
  BY DEF Agree
<1>1. c[v] = c[u]
  BY DEF Agree
<1>2. v \in Alike(w, Twins) <=> u \in Alike(w, Twins)
  BY DEF Alike
<1> QED
  BY <1>1, <1>2 DEF With

\* Who is left alone is still watched.
LEMMA StoppedLess ==
  ASSUME UNCHANGED vars, NEW e, Watched(e),
         conds'[e.owner] \cap Stunning \subseteq conds[e.owner] \cap Stunning
  PROVE  Watched(e)'
<1>1. \A w : InPlayNow(w)' = InPlayNow(w)
  BY DEF vars, InPlayNow, Present, Here
<1>2. Felled(e.owner)' = Felled(e.owner)
  BY DEF vars, Felled
<1> QED
  BY <1>1, <1>2 DEF Watched, Stopped

LEMMA ReachStill ==
  ASSUME UNCHANGED vars
  PROVE  Twins' = Twins /\ Reachable' = Reachable
  BY DEF vars, Twins, ActorRow, Mine, Here, Reachable, InPlayNow, Present

LEMMA ReachIsCreatures == NoOne \notin Reachable /\ NoOne \notin Reachable'
  BY CreatureNumbers DEF Reachable

LEMMA FreeKeeps ==
  ASSUME Seats, NEW T0, Owned(live, conds, strayed, T0), NEW T,
         NEW L \in SUBSET live, NEW gone \in SUBSET live, L \cap gone = {},
         NEW reach, NoOne \notin reach, NEW s, NEW c,
         \A e \in L : e.id \in strayed => e.id \in s,
         Collateral(L, gone, T) \subseteq s,
         \A e \in L : e.on \in Creatures => conds[e.on] \subseteq c[e.on],
         \A e, f \in live : e.on # NoOne /\ f.on # NoOne /\ f.on \in Alike(e.on, T) =>
                              f.on \in Alike(e.on, T0)
  PROVE  Owned(L, Freed(c, gone, reach, T), s, T)
<1> SUFFICES ASSUME NEW e \in L, e.id \notin s, e.on # NoOne
             PROVE  /\ e.cond \in Freed(c, gone, reach, T)[e.on]
                    /\ \A f \in L : f.id \notin s /\ f.on # NoOne /\ f.cond = e.cond
                                      /\ f.on \in Alike(e.on, T) => f = e
  BY DEF Owned
<1>1. e \in live /\ e.id \notin strayed
  OBVIOUS
<1>2. e.on \in Creatures
  BY <1>1 DEF Seats, Seated, EffectRows
<1>3. e.cond \in conds[e.on]
  BY <1>1 DEF Owned
<1>4. \A g \in gone : g.on # NoOne /\ e.on \in Alike(g.on, T) => g.on \in Alike(e.on, T0)
  BY <1>1, AlikeFacts
<1>5. e.cond \in Freed(c, gone, reach, T)[e.on]
  BY <1>1, <1>2, <1>3, <1>4, Retained
<1>6. \A f \in L : f.id \notin s /\ f.on # NoOne /\ f.cond = e.cond
                     /\ f.on \in Alike(e.on, T) => f = e
  <2> SUFFICES ASSUME NEW f \in L, f.id \notin s, f.on # NoOne,
                      f.cond = e.cond, f.on \in Alike(e.on, T)
               PROVE  f = e
    OBVIOUS
  <2>1. f \in live /\ f.id \notin strayed
    OBVIOUS
  <2>2. f.on \in Alike(e.on, T0)
    BY <1>1, <2>1
  <2> QED
    BY <1>1, <2>1, <2>2 DEF Owned
<1> QED
  BY <1>5, <1>6

LEMMA FewerBind ==
  ASSUME EffectsInv, NEW L \in SUBSET live
  PROVE  Apart(L) /\ Single(L)
  BY DEF EffectsInv, Apart, Single

LEMMA CleanedEffects ==
  ASSUME NEW ended \in SUBSET live, NEW broken \in SUBSET live
  PROVE  /\ Cleaned(ended, broken) \in SUBSET live
         /\ (live \ (ended \cup broken)) \cap Cleaned(ended, broken) = {}
  BY DEF Cleaned

\* Where nobody moves, some effects end and some break.
LEMMA FinishBinds ==
  ASSUME EffectsInv, Play, UNCHANGED vars, NEW ended \in SUBSET live,
         NEW broken \in SUBSET live, Finish(ended, broken)
  PROVE  /\ live' = live \ (ended \cup broken) /\ Apart(live') /\ Single(live')
         /\ \A e \in live' : Watched(e)'
         /\ Owned(live', conds', strayed', Twins') /\ Agree(conds', Twins')
<1> DEFINE left == live \ (ended \cup broken)
           gone == Cleaned(ended, broken)
<1>1. /\ live' = left /\ conds' = Freed(conds, gone, Reachable, Twins)
      /\ strayed' = (strayed \cap {e.id : e \in left}) \cup Collateral(left, gone, Twins)
  BY ReachStill DEF Finish
<1>2. left \in SUBSET live /\ gone \in SUBSET live /\ left \cap gone = {}
  BY CleanedEffects
<1> HIDE DEF gone
<1>3. Apart(left) /\ Single(left)
  BY <1>2, FewerBind
<1> HIDE DEF left
<1>4. ASSUME NEW e \in left PROVE Watched(e)'
  <2>1. Watched(e) /\ Seated(e)
    BY <1>2 DEF EffectsInv, Seats
  <2>2. CASE e.owner = NoOne
    BY <2>2 DEF Watched
  <2>3. CASE e.owner # NoOne
    <3>1. e.owner \in Creatures
      BY <2>1, <2>3, CreatureNumbers DEF Seated, EffectRows
    <3>2. conds'[e.owner] \subseteq conds[e.owner]
      BY <1>1, <3>1, FreedLess
    <3> QED
      BY <2>1, <3>2, StoppedLess
  <2> QED
    BY <2>2, <2>3
<1>5. Owned(left, Freed(conds, gone, Reachable, Twins), strayed', Twins)
  <2>1. /\ \A e \in left : e.id \in strayed => e.id \in strayed'
        /\ Collateral(left, gone, Twins) \subseteq strayed'
    BY <1>1
  <2> QED
    BY <1>2, <2>1, FreeKeeps, ReachIsCreatures DEF EffectsInv
<1>6. Agree(Freed(conds, gone, Reachable, Twins), Twins)
  BY FreedAgree, TwinsAre DEF EffectsInv, Play, TwinFacts
<1> QED
  BY <1>1, <1>3, <1>4, <1>5, <1>6, ReachStill DEF left

-----------------------------------------------------------------------------
\* Deadlines, as turns are opened and spent.

LEMMA LeastRound ==
  ASSUME NEW r \in Nat
  PROVE  /\ Max({1, r}) \in Nat
         /\ r >= 1 => Max({1, r}) = r
<1>1. Max({1, r}) \in Nat
  BY GreaterOfTwo
<1>2. ASSUME r >= 1 PROVE Max({1, r}) = r
  <2>1. \E x \in {1, r} : \A y \in {1, r} : x >= y
    BY <1>2
  <2>2. Max({1, r}) \in {1, r} /\ \A y \in {1, r} : Max({1, r}) >= y
    BY <2>1 DEF Max
  <2> QED
    BY <1>2, <2>2
<1> QED
  BY <1>1, <1>2

LEMMA SameBase ==
  ASSUME SameTurns, clock' = clock, fighting' = fighting, NEW e, Seated(e), Timely(e)
  PROVE  Timely(e)'
<1>1. e.timer = "turn" => BudgetOf(e.whose)'.turns = BudgetOf(e.whose).turns
  BY DEF Seated, SameTurns
<1>2. e.timer \in Timers
  BY DEF Seated, EffectRows
<1>3. Base(e.timer, e.whose)' = Base(e.timer, e.whose)
  BY <1>1, <1>2 DEF Base, SameTurns, Timers
<1> QED
  BY <1>3 DEF Timely

\* No spending counts a turn.
LEMMA TurnsNextSame == ASSUME TurnsInv, TurnsNext PROVE SameTurns
BY SpendActionKeeps, SpendBonusActionKeeps, SpendReactionKeeps, SpendLegendaryKeeps,
   SpendFreeKeeps, SetSurprisedKeeps DEF TurnsNext

LEMMA TurnsStillSame == UNCHANGED turnVars => SameTurns
BY DEF turnVars, SameTurns, BudgetOf, FreshBudget, NoWindow

\* What a journey does to the turns of a combat that goes on.
LEMMA JourneySame ==
  ASSUME TurnsInv, TurnsFollow, fights' = fights
  PROVE  SameTurns
<1>1. SpendBonusAction(Lead, FALSE) => SameTurns
  BY SpendBonusActionKeeps, NoOneIsNoPlayer
<1>2. UNCHANGED turnVars => SameTurns
  BY TurnsStillSame
<1>3. SpendBonusAction(Lead, FALSE) \/ UNCHANGED turnVars
  BY DEF TurnsFollow
<1> QED
  BY <1>1, <1>2, <1>3

\* When a turn is opened, what its round and its owner were due has ended.
LEMMA TurnEffectsTimely ==
  ASSUME EffectsInv, Play, NEW p \in Players, NEW r \in 1 .. MaxRounds,
         UNCHANGED vars, BeginTurn(p, r), NEW e \in live,
         ~ (e.timer = "round" /\ e.at <= r),
         ~ (e.timer = "turn" /\ e.whose = p /\ e.at <= Beginning(p).turns + 1)
  PROVE  Timely(e)'
<1> DEFINE b == IF Available(p) THEN Beginning(p) ELSE Ended(Beginning(p))
<1>1. /\ round' = r /\ active' = (IF Available(p) THEN p ELSE NoOne)
      /\ budget' = Opened(p, b) /\ clock' = clock /\ fighting' = fighting
  BY DEF BeginTurn, vars
<1>2. Timely(e) /\ Seated(e) /\ e \in EffectRows /\ e.at \in Nat /\ e.timer \in Timers
  BY DEF EffectsInv, Seats, Seated, EffectRows
<1>3. TurnsInv /\ Beginning(p) \in Budgets /\ Beginning(p).turns = Elapsed(p)
  BY OwnOpened DEF Play
<1>4. CASE e.timer = "none"
  BY <1>4 DEF Timely
<1>5. CASE e.timer = "clock"
  BY <1>1, <1>2, <1>5 DEF Timely, Base
<1>6. CASE e.timer = "round"
  <2>1. r \in Nat /\ r >= 1
    BY TurnNumbers
  <2>2. Max({1, round'}) = r /\ e.at > r
    BY <1>1, <1>2, <1>6, <2>1, LeastRound
  <2>3. Base(e.timer, e.whose)' = Max({1, round'})
    BY <1>6 DEF Base
  <2> QED
    BY <1>1, <1>2, <1>6, <2>2, <2>3 DEF Timely
<1>7. CASE e.timer = "turn"
  <2> DEFINE q == e.whose
  <2>1. q \in Players /\ NoOne \notin Players
    BY <1>2, <1>7, CreatureNumbers DEF Seated
  <2>2. Base(e.timer, q) = Elapsed(q)
    BY <1>7 DEF Base, Elapsed
  <2>3. Base(e.timer, q)' = BudgetOf(q)'.turns + (IF active' = q THEN 1 ELSE 0)
    BY <1>7 DEF Base
  <2>4. CASE q # p
    <3>1. BudgetOf(q)'.turns = Elapsed(q) /\ BudgetOf(q)' \in Budgets
      BY <1>1, <1>3, <2>1, <2>4, OthersOpened
    <3>2. active' # q
      BY <1>1, <2>1, <2>4
    <3>3. BudgetOf(q)'.turns + 0 = BudgetOf(q)'.turns
      BY <3>1, BudgetTypes
    <3> QED
      BY <1>1, <1>2, <1>7, <2>2, <2>3, <3>1, <3>2, <3>3 DEF Timely
  <2>5. CASE q = p
    <3>1. BudgetOf(p)' = b
      BY <1>1 DEF BudgetOf, Opened
    <3>2. Beginning(p).turns \in Nat
      BY <1>3, BudgetTypes
    <3>3. Base(e.timer, q)' = Beginning(p).turns + 1
      <4>1. CASE Available(p)
        BY <4>1, <1>1, <2>3, <2>5, <3>1
      <4>2. CASE ~ Available(p)
        <5>1. BudgetOf(p)'.turns = Beginning(p).turns + 1
          BY <4>2, <3>1, <1>3, EndedFacts
        <5> QED
          BY <4>2, <1>1, <2>1, <2>3, <2>5, <3>2, <5>1
      <4> QED
        BY <4>1, <4>2
    <3>4. e.at > Beginning(p).turns + 1
      BY <1>2, <1>7, <2>5, <3>2
    <3> QED
      BY <1>1, <1>2, <1>7, <3>3, <3>4 DEF Timely
  <2> QED
    BY <2>4, <2>5
<1> QED
  BY <1>2, <1>4, <1>5, <1>6, <1>7 DEF Timers

\* A turn is opened.
LEMMA TurnBinds ==
  ASSUME EffectsInv, Play, Seats', NEW p \in Players, NEW r \in 1 .. MaxRounds,
         UNCHANGED vars, BeginTurn(p, r), TurnEffects(p, r)
  PROVE  EffectsInv'
<1> DEFINE due == {e \in live :
                     \/ e.timer = "round" /\ e.at <= r
                     \/ e.timer = "turn" /\ e.whose = p
                          /\ e.at <= Beginning(p).turns + 1}
<1>1. Finish(due, {})
  BY DEF TurnEffects
<1>2. due \in SUBSET live /\ {} \in SUBSET live
  OBVIOUS
<1>3. ASSUME NEW e \in live, e \notin due
      PROVE  Timely(e)'
  BY <1>3, TurnEffectsTimely
<1> HIDE DEF due
<1>4. /\ live' = live \ (due \cup {}) /\ Apart(live') /\ Single(live')
      /\ \A e \in live' : Watched(e)'
      /\ Owned(live', conds', strayed', Twins') /\ Agree(conds', Twins')
  BY <1>1, <1>2, FinishBinds
<1> QED
  BY <1>3, <1>4 DEF EffectsInv

\* Something is spent.
LEMMA SpendBinds ==
  ASSUME EffectsInv, Seats', UNCHANGED vars, UNCHANGED effectVars, SameTurns
  PROVE  EffectsInv'
<1>1. live' = live /\ conds' = conds /\ strayed' = strayed /\ Twins' = Twins
  BY ReachStill DEF effectVars
<1>2. clock' = clock /\ fighting' = fighting
  BY DEF vars
<1>3. ASSUME NEW e \in live PROVE Watched(e)' /\ Timely(e)'
  <2>1. Watched(e) /\ Timely(e) /\ Seated(e)
    BY DEF EffectsInv, Seats
  <2>2. Watched(e)'
    BY <2>1, <1>1, StoppedLess
  <2>3. Timely(e)'
    BY <2>1, <1>2, SameBase
  <2> QED
    BY <2>2, <2>3
<1> QED
  BY <1>1, <1>3 DEF EffectsInv

\* An effect is ended, or its concentration is lost.
LEMMA EndBinds ==
  ASSUME EffectsInv, Play, Seats', UNCHANGED vars, UNCHANGED turnVars, NEW e \in live,
         EndActiveEffect(e) \/ BreakConcentration(e)
  PROVE  EffectsInv'
<1>1. ASSUME NEW ended \in SUBSET live, NEW broken \in SUBSET live,
             Finish(ended, broken)
      PROVE  EffectsInv'
  <2>1. /\ live' = live \ (ended \cup broken) /\ Apart(live') /\ Single(live')
        /\ \A f \in live' : Watched(f)'
        /\ Owned(live', conds', strayed', Twins') /\ Agree(conds', Twins')
    BY <1>1, FinishBinds
  <2>2. clock' = clock /\ fighting' = fighting /\ SameTurns
    BY TurnsStillSame DEF vars
  <2>3. ASSUME NEW f \in live' PROVE Timely(f)'
    BY <2>1, <2>2, SameBase DEF EffectsInv, Seats
  <2> QED
    BY <2>1, <2>3 DEF EffectsInv
<1> QED
  BY <1>1 DEF EndActiveEffect, BreakConcentration

-----------------------------------------------------------------------------
\* The tools: where nobody moves and no turn is opened.

LEMMA ToolTimely ==
  ASSUME UNCHANGED vars, UNCHANGED turnVars, EffectsInv
  PROVE  \A e \in live : Timely(e)'
<1>1. clock' = clock /\ fighting' = fighting /\ SameTurns
  BY TurnsStillSame DEF vars
<1> QED
  BY <1>1, SameBase DEF EffectsInv, Seats

\* An effect that is given a deadline anew is given one to come.
LEMMA AnchoredTimely ==
  ASSUME Play, UNCHANGED vars, UNCHANGED turnVars, NEW e \in EffectRows,
         e.timer = "turn" => e.whose \in Players,
         e.timer # "none" => /\ MayAnchor(e.timer, e.whose)
                             /\ e.at = Base(e.timer, e.whose) + Span
  PROVE  Timely(e)'
<1>1. e.timer \in Timers /\ e.whose \in Players \cup {NoOne}
  BY DEF EffectRows
<1>2. Base(e.timer, e.whose) \in Nat /\ Span \in Nat \ {0}
  BY <1>1, BaseTypes, EffectNumbers
<1>3. e.timer # "none" => e.at > Base(e.timer, e.whose)
  BY <1>2
<1>4. e.timer \in {"round", "turn"} => fighting' = fighting /\ fighting
  BY DEF MayAnchor, vars
<1>5. Base(e.timer, e.whose)' = Base(e.timer, e.whose)
  <2>1. clock' = clock /\ SameTurns
    BY TurnsStillSame DEF vars
  <2> QED
    BY <1>1, <2>1 DEF Base, SameTurns, Timers
<1> QED
  BY <1>3, <1>4, <1>5 DEF Timely

\* Once a condition is lost no more than that is lost.
LEMMA WatchedOn ==
  ASSUME EffectsInv, UNCHANGED vars, NEW e \in live,
         \A w \in Creatures : w = e.owner =>
           conds'[w] \cap Stunning \subseteq conds[w]
  PROVE  Watched(e)'
<1>1. Watched(e) /\ Seated(e)
  BY DEF EffectsInv, Seats
<1>2. CASE e.owner = NoOne
  BY <1>2 DEF Watched
<1>3. CASE e.owner # NoOne
  <2>1. e.owner \in Creatures
    BY <1>1, <1>3, CreatureNumbers DEF Seated, EffectRows
  <2> QED
    BY <1>1, <2>1, StoppedLess
<1> QED
  BY <1>2, <1>3

LEMMA TargetBinds ==
  ASSUME EffectsInv, Play, Seats', UNCHANGED vars, UNCHANGED turnVars,
         NEW e \in live, RemoveEffectTarget(e)
  PROVE  EffectsInv'
<1> DEFINE left == live \ {e}
           gone == Cleaned({e}, {})
           f == [e EXCEPT !.on = NoOne]
<1>1. /\ live' = left \cup {f} /\ conds' = Freed(conds, gone, Reachable, Twins)
      /\ strayed' = (strayed \ {e.id}) \cup Collateral(left, gone, Twins)
  BY DEF RemoveEffectTarget
<1>2. left \in SUBSET live /\ gone \in SUBSET live /\ left \cap gone = {} /\ e \notin left
  BY DEF Cleaned
<1>3. Seated(e) /\ e \in EffectRows
  BY DEF Seats, Seated, EffectsInv
<1>4. /\ f \in EffectRows /\ f.on = NoOne /\ f.owner = e.owner /\ f.id = e.id
      /\ f.timer = e.timer /\ f.whose = e.whose /\ f.at = e.at
  BY <1>3, UntargetedFacts
<1> HIDE DEF gone, f, left
<1>5. Apart(live) /\ Single(live)
  BY DEF EffectsInv
<1>6. Apart(live') /\ Single(live')
  BY <1>1, <1>2, <1>4, <1>5 DEF Apart, Single
<1>7. \A w \in Creatures : conds'[w] \subseteq conds[w]
  BY <1>1, FreedLess
<1>8. \A d \in live : Watched(d)' /\ Timely(d)'
  BY <1>7, WatchedOn, ToolTimely
<1>9. Watched(f)' /\ Timely(f)'
  BY <1>4, <1>8 DEF Watched, Timely
<1>10. Owned(live', conds', strayed', Twins)
  <2>1. \A d \in left : d.id # e.id
    BY <1>2, <1>5 DEF Apart, left
  <2>2. \A d \in left : d.id \in strayed => d.id \in strayed'
    BY <1>1, <2>1
  <2>3. Owned(left, conds', strayed', Twins)
    BY <1>1, <1>2, <2>2, FreeKeeps, ReachIsCreatures DEF EffectsInv
  <2> QED
    BY <1>1, <1>4, <2>3 DEF Owned
<1>11. Agree(conds', Twins)
  BY <1>1, FreedAgree, TwinsAre DEF EffectsInv, Play, TwinFacts
<1> QED
  BY <1>1, <1>2, <1>6, <1>8, <1>9, <1>10, <1>11, ReachStill DEF EffectsInv

LEMMA RefreshBinds ==
  ASSUME EffectsInv, Play, Seats', UNCHANGED vars, UNCHANGED turnVars,
         NEW e \in live, RefreshEffect(e)
  PROVE  EffectsInv'
<1> DEFINE at == Base(e.timer, e.whose) + Span
<1>0. PICK f : f = [e EXCEPT !.at = at]
  OBVIOUS
<1>1. /\ live' = (live \ {e}) \cup {f} /\ conds' = conds /\ strayed' = strayed
      /\ MayAnchor(e.timer, e.whose)
  BY <1>0 DEF RefreshEffect
<1>2. Seated(e) /\ e \in EffectRows
  BY DEF Seats, Seated, EffectsInv
<1>3. at \in Nat
  <2>1. e.timer \in Timers /\ e.whose \in Players \cup {NoOne}
    BY <1>2 DEF EffectRows
  <2>2. e.timer = "turn" => e.whose \in Players
    BY <1>2 DEF Seated
  <2> QED
    BY <2>1, <2>2, BaseTypes, EffectNumbers
<1> HIDE DEF at
<1>4. /\ f \in EffectRows /\ f.at = at /\ f.on = e.on /\ f.id = e.id /\ f.owner = e.owner
      /\ f.cond = e.cond /\ f.timer = e.timer /\ f.whose = e.whose
  BY <1>0, <1>2, <1>3, RefreshedFacts
<1>5. Apart(live) /\ Single(live) /\ Owned(live, conds, strayed, Twins)
  BY DEF EffectsInv
<1>6. Apart(live') /\ Single(live')
  BY <1>1, <1>4, <1>5 DEF Apart, Single
<1>7. \A d \in live : Watched(d)' /\ Timely(d)'
  BY <1>1, WatchedOn, ToolTimely
<1>8. Watched(f)' /\ Timely(f)'
  <2>1. Watched(f)'
    BY <1>4, <1>7 DEF Watched
  <2>2. f.timer = "turn" => f.whose \in Players
    BY <1>2, <1>4 DEF Seated
  <2> QED
    BY <1>1, <1>4, <2>1, <2>2, AnchoredTimely DEF at
<1>9. Owned(live', conds', strayed', Twins)
  <2> SUFFICES ASSUME NEW d \in live', d.id \notin strayed, d.on # NoOne
               PROVE  /\ d.cond \in conds[d.on]
                      /\ \A g \in live' : g.id \notin strayed /\ g.on # NoOne /\ g.cond = d.cond
                                           /\ g.on \in Alike(d.on, Twins) => g = d
    BY <1>1 DEF Owned
  <2>1. PICK b \in live : /\ b.id = d.id /\ b.on = d.on /\ b.cond = d.cond
                          /\ IF b = e THEN d = f ELSE d = b
    BY <1>1, <1>4
  <2>2. /\ b.cond \in conds[b.on]
        /\ \A g \in live : g.id \notin strayed /\ g.on # NoOne /\ g.cond = b.cond
                             /\ g.on \in Alike(b.on, Twins) => g = b
    BY <1>5, <2>1 DEF Owned
  <2>3. ASSUME NEW g \in live', g.id \notin strayed, g.on # NoOne, g.cond = d.cond,
               g.on \in Alike(d.on, Twins)
        PROVE  g = d
    <3>1. PICK a \in live : /\ a.id = g.id /\ a.on = g.on /\ a.cond = g.cond
                            /\ IF a = e THEN g = f ELSE g = a
      BY <1>1, <1>4
    <3>2. a = b
      BY <2>1, <2>2, <2>3, <3>1
    <3> QED
      BY <2>1, <3>1, <3>2
  <2> QED
    BY <2>1, <2>2, <2>3
<1>10. Agree(conds', Twins)
  BY <1>1 DEF EffectsInv
<1>11. \A d \in live' : Watched(d)' /\ Timely(d)'
  BY <1>1, <1>7, <1>8
<1> QED
  BY <1>6, <1>9, <1>10, <1>11, ReachStill DEF EffectsInv

LEMMA WithFacts ==
  ASSUME NEW c, NEW w, NEW cond, NEW v \in Creatures
  PROVE  /\ c[v] \subseteq With(c, w, cond)[v]
         /\ v \notin Alike(w, Twins) => With(c, w, cond)[v] = c[v]
         /\ v \in Alike(w, Twins) => With(c, w, cond)[v] = c[v] \cup {cond}
  BY DEF With

\* Whose concentration is not broken by a condition can go on.
LEMMA ShakenOff ==
  ASSUME NEW c, NEW L, NEW w, NEW cond, NEW d \in L \ Shaken(c, L, w, cond),
         d.owner \in Creatures, ~ Felled(d.owner), c[d.owner] \cap Stunning = {}
  PROVE  With(c, w, cond)[d.owner] \cap Stunning = {}
<1>1. cond \in Stunning => d.owner \notin Alike(w, Twins)
  BY DEF Shaken
<1> QED
  BY <1>1, WithFacts

LEMMA AddBinds ==
  ASSUME EffectsInv, Play, Seats', UNCHANGED vars, UNCHANGED turnVars,
         NEW w \in Players, NEW cond \in Conditions, AddCondition(w, cond)
  PROVE  EffectsInv'
<1> DEFINE shaken == Shaken(conds, live, w, cond)
           gone == Cleaned({}, shaken)
           left == live \ shaken
           given == With(conds, w, cond)
<1>1. /\ live' = left /\ conds' = Freed(given, gone, Reachable, Twins)
      /\ strayed' = (strayed \cap {e.id : e \in left}) \cup Collateral(left, gone, Twins)
  BY DEF AddCondition
<1>2. shaken \in SUBSET live
  BY DEF Shaken
<1>3. left \in SUBSET live /\ gone \in SUBSET live /\ left \cap gone = {}
  BY <1>2 DEF Cleaned
<1>4. Apart(left) /\ Single(left)
  BY <1>3, FewerBind
<1>5. ASSUME NEW d \in left PROVE Watched(d)'
  <2>1. d \in live /\ d \notin shaken /\ Watched(d)
    BY DEF EffectsInv
  <2>2. ASSUME NEW v \in Creatures, v = d.owner
        PROVE  conds'[v] \cap Stunning = {}
    <3>1. ~ Felled(v) /\ conds[v] \cap Stunning = {}
      BY <2>1, <2>2, CreatureNumbers DEF Watched, Stopped
    <3>2. given[v] \cap Stunning = {}
      BY <2>1, <2>2, <3>1, ShakenOff
    <3> HIDE DEF given, gone
    <3> QED
      BY <1>1, <3>2, FreedLess
  <2> HIDE DEF left, shaken
  <2> QED
    BY <2>1, <2>2, WatchedOn
<1> HIDE DEF gone, left, shaken
<1>6. Owned(left, conds', strayed', Twins)
  <2>1. \A d \in left : d.id \in strayed => d.id \in strayed'
    BY <1>1
  <2>2. \A d \in left : d.on \in Creatures => conds[d.on] \subseteq given[d.on]
    BY WithFacts
  <2> HIDE DEF given
  <2> QED
    BY <1>1, <1>3, <2>1, <2>2, FreeKeeps, ReachIsCreatures DEF EffectsInv
<1>7. Agree(conds', Twins)
  <2>1. Agree(given, Twins) /\ Twins \subseteq Creatures
    BY WithAgree, TwinsAre DEF EffectsInv, Play, TwinFacts
  <2> HIDE DEF given
  <2> QED
    BY <1>1, <2>1, FreedAgree
<1>8. \A d \in left : Timely(d)'
  BY <1>3, ToolTimely
<1> QED
  BY <1>1, <1>4, <1>5, <1>6, <1>7, <1>8, ReachStill DEF EffectsInv

LEMMA RemoveBinds ==
  ASSUME EffectsInv, Play, Seats', UNCHANGED vars, UNCHANGED turnVars,
         NEW w \in Players, NEW cond \in Conditions, RemoveCondition(w, cond)
  PROVE  EffectsInv'
<1>1. /\ conds' = [v \in Creatures |-> IF v \in Alike(w, Twins)
                                       THEN conds[v] \ {cond} ELSE conds[v]]
      /\ strayed' = strayed \cup Losing(live, w, cond, Twins) /\ live' = live
  BY DEF RemoveCondition
<1>2. \A d \in live : Watched(d)' /\ Timely(d)'
  BY <1>1, WatchedOn, ToolTimely
<1>3. Owned(live, conds', strayed', Twins)
  <2> SUFFICES ASSUME NEW e \in live, e.id \notin strayed', e.on # NoOne
               PROVE  /\ e.cond \in conds'[e.on]
                      /\ \A f \in live : f.id \notin strayed' /\ f.on # NoOne /\ f.cond = e.cond
                                          /\ f.on \in Alike(e.on, Twins) => f = e
    BY DEF Owned
  <2>1. e.id \notin strayed /\ e.id \notin Losing(live, w, cond, Twins)
    BY <1>1
  <2>2. e.on \in Creatures
    BY DEF EffectsInv, Seats, Seated, EffectRows
  <2>3. /\ e.cond \in conds[e.on]
        /\ \A f \in live : f.id \notin strayed /\ f.on # NoOne /\ f.cond = e.cond
                            /\ f.on \in Alike(e.on, Twins) => f = e
    BY <2>1 DEF EffectsInv, Owned
  <2>4. ~ (e.cond = cond /\ e.on \in Alike(w, Twins))
    BY <2>1, AlikeFacts DEF Losing
  <2>5. e.cond \in conds'[e.on]
    BY <1>1, <2>2, <2>3, <2>4
  <2>6. \A f \in live : f.id \notin strayed' => f.id \notin strayed
    BY <1>1
  <2> QED
    BY <2>3, <2>5, <2>6
<1>4. Agree(conds', Twins)
  <2> SUFFICES ASSUME NEW u \in Twins, NEW v \in Twins
               PROVE  conds'[u] = conds'[v]
    BY DEF Agree
  <2>1. u \in Creatures /\ v \in Creatures /\ conds[u] = conds[v]
    BY TwinsAre DEF EffectsInv, Agree, Play, TwinFacts
  <2>2. u \in Alike(w, Twins) <=> v \in Alike(w, Twins)
    BY DEF Alike
  <2> QED
    BY <1>1, <2>1, <2>2
<1>5. Apart(live) /\ Single(live)
  BY DEF EffectsInv
<1> QED
  BY <1>1, <1>2, <1>3, <1>4, <1>5, ReachStill DEF EffectsInv

\* A new effect takes the place of what its owner concentrated on, and breaks
\* the concentration of whom it incapacitates.
LEMMA CreateBinds ==
  ASSUME EffectsInv, Play, Seats', UNCHANGED vars, UNCHANGED turnVars,
         NEW e \in EffectRows, e.on \in Creatures, CreateEffect(e),
         \A d \in live : d.id # e.id, e.at = Base(e.timer, e.whose) + Span
  PROVE  EffectsInv'
<1> DEFINE prior == Focused(e.owner)
           freed == Cleaned({}, prior)
           before == Freed(conds, freed, Reachable, Twins)
           shaken == Shaken(before, live \ prior, e.on, e.cond)
           after == Cleaned({}, shaken)
           left == live \ (prior \cup shaken)
           given == With(before, e.on, e.cond)
<1>1. /\ InPlayNow(e.on) /\ MayAnchor(e.timer, e.whose)
      /\ e.owner # NoOne => InPlayNow(e.owner) /\ ~ Stopped(e.owner)
      /\ Unowned(e, freed)
      /\ e.cond \in Stunning => e.owner \notin Alike(e.on, Twins)
      /\ live' = left \cup {e}
      /\ conds' = Freed(given, after, Reachable, Twins)
      /\ strayed' = (strayed \cap {f.id : f \in left}) \cup Collateral(left, freed, Twins)
                      \cup Collateral(left \cup {e}, after, Twins)
  BY DEF CreateEffect
<1>2. prior \in SUBSET live /\ shaken \in SUBSET live /\ shaken \cap prior = {}
  BY DEF Focused, Shaken
<1>3. /\ freed \in SUBSET prior /\ after \in SUBSET shaken
      /\ e.owner # NoOne => \A d \in live : d.owner = e.owner => d \in prior
  BY DEF Cleaned, Focused
<1>4. \A v \in Creatures : before[v] \subseteq conds[v]
  BY FreedLess
<1>5. ASSUME NEW d \in (live \ prior) \ shaken, d.owner \in Creatures,
             ~ Felled(d.owner), before[d.owner] \cap Stunning = {}
      PROVE  given[d.owner] \cap Stunning = {}
  BY <1>5, ShakenOff
<1>6. ASSUME NEW g \in shaken
      PROVE  /\ e.cond \in Stunning /\ g.owner \in Alike(e.on, Twins)
             /\ g.owner # NoOne
  <2>1. e.cond \in Stunning /\ g.owner \in Alike(e.on, Twins)
    BY DEF Shaken
  <2>2. NoOne \notin Twins /\ e.on # NoOne
    BY CreatureNumbers, TwinsAre DEF Play, TwinFacts
  <2> QED
    BY <2>1, <2>2 DEF Alike
<1>7. /\ \A v \in Creatures : /\ before[v] \subseteq given[v]
                              /\ v \notin Alike(e.on, Twins) => given[v] = before[v]
                              /\ v \in Alike(e.on, Twins) => given[v] = before[v] \cup {e.cond}
  BY WithFacts
<1>8. Agree(given, Twins)
  <2>1. Agree(before, Twins) /\ Twins \subseteq Creatures
    BY FreedAgree, TwinsAre DEF EffectsInv, Play, TwinFacts
  <2> HIDE DEF before
  <2> QED
    BY <2>1, WithAgree
<1>9. \A v \in Creatures : conds'[v] \subseteq given[v]
  BY <1>1, FreedLess
<1>10. left = live \ (prior \cup shaken)
  OBVIOUS
<1> HIDE DEF prior, freed, before, shaken, after, left, given
<1>11. left \in SUBSET live
  BY <1>10
<1>12. Apart(live') /\ Single(live')
  <2>1. Apart(left) /\ Single(left)
    BY <1>11, FewerBind
  <2>2. \A d \in left : e.owner # NoOne => d.owner # e.owner
    BY <1>3, <1>10
  <2>3. \A d \in left : d.id # e.id
    BY <1>11
  <2> QED
    BY <1>1, <2>1, <2>2, <2>3 DEF Apart, Single
<1>13. ASSUME NEW d \in left PROVE Watched(d)'
  <2>1. d \in (live \ prior) \ shaken /\ d \in live /\ Watched(d)
    BY <1>10 DEF EffectsInv
  <2>2. ASSUME NEW v \in Creatures, v = d.owner
        PROVE  conds'[v] \cap Stunning = {}
    <3>1. ~ Felled(v) /\ before[v] \cap Stunning = {}
      BY <1>4, <2>1, <2>2, CreatureNumbers DEF Watched, Stopped
    <3>2. given[v] \cap Stunning = {}
      BY <1>5, <2>1, <2>2, <3>1
    <3> QED
      BY <1>9, <3>2
  <2> QED
    BY <2>1, <2>2, WatchedOn
<1>14. Watched(e)'
  <2>1. CASE e.owner = NoOne
    BY <2>1 DEF Watched
  <2>2. CASE e.owner # NoOne
    <3>1. e.owner \in Creatures
      BY <2>2, CreatureNumbers DEF EffectRows
    <3>2. InPlayNow(e.owner) /\ ~ Felled(e.owner) /\ conds[e.owner] \cap Stunning = {}
      BY <1>1, <2>2 DEF Stopped
    <3>3. given[e.owner] \cap Stunning = {}
      BY <1>1, <1>4, <1>7, <3>1, <3>2
    <3>4. conds'[e.owner] \cap Stunning \subseteq conds[e.owner] \cap Stunning
      BY <1>9, <3>1, <3>3
    <3>5. Watched(e)
      BY <3>2 DEF Watched, Stopped
    <3> QED
      BY <3>4, <3>5, StoppedLess
  <2> QED
    BY <2>1, <2>2
<1>15. \A d \in left : Timely(d)'
  BY <1>11, ToolTimely
<1>16. Timely(e)'
  <2>1. e.timer = "turn" => e.whose \in Players
    <3>1. e.whose \in Players \cup {NoOne}
      BY DEF EffectRows
    <3> QED
      BY <1>1, <3>1 DEF MayAnchor
  <2> QED
    BY <1>1, <2>1, AnchoredTimely
<1>17. Agree(conds', Twins)
  BY <1>1, <1>8, FreedAgree, TwinsAre DEF Play, TwinFacts
<1>18. Owned(live, conds, strayed, Twins) /\ Agree(conds, Twins)
  BY DEF EffectsInv
\* Nobody whom it incapacitates loses the new condition with its own.
<1>19. ASSUME NEW g \in after, g.on # NoOne, g.cond = e.cond, e.on \in Alike(g.on, Twins)
       PROVE  g.id \in strayed
  <2> SUFFICES ASSUME g.id \notin strayed
               PROVE  FALSE
    OBVIOUS
  <2>1. g \in live /\ g \in shaken /\ g.cond \in conds[g.on]
    BY <1>2, <1>3, <1>18, <1>19 DEF Owned
  <2>2. /\ e.cond \in Stunning /\ g.owner \in Alike(e.on, Twins) /\ g.owner # NoOne
    BY <1>6, <2>1
  <2>3. conds[e.on] = conds[g.on] /\ conds[g.owner] = conds[e.on]
    BY <1>18, <1>19, <2>2, AlikeAgree
  <2>4. conds[g.owner] \cap Stunning = {}
    BY <2>1, <2>2 DEF EffectsInv, Watched, Stopped
  <2> QED
    BY <1>19, <2>1, <2>2, <2>3, <2>4
<1>20. ASSUME e.id \notin strayed'
       PROVE  e.cond \in conds'[e.on]
  <2> SUFFICES ASSUME e.cond \notin conds'[e.on]
               PROVE  FALSE
    OBVIOUS
  <2>1. e.cond \in given[e.on]
    BY <1>7, AlikeFacts
  <2>2. PICK g \in after : g.on \in Reachable /\ e.on \in Alike(g.on, Twins) /\ g.cond = e.cond
    BY <1>1, <2>1 DEF Freed
  <2>3. g.on # NoOne
    BY <2>2, ReachIsCreatures
  <2>4. g.id \in strayed
    BY <1>19, <2>2, <2>3
  <2>5. Alike(e.on, Twins) = Alike(g.on, Twins) /\ e.on # NoOne
    BY <2>2, AlikeFacts, CreatureNumbers
  <2>6. e.id \in Losing(left \cup {e}, g.on, g.cond, Twins)
    BY <2>2, <2>5 DEF Losing
  <2>7. e.id \in Collateral(left \cup {e}, after, Twins)
    BY <2>3, <2>4, <2>6 DEF Collateral
  <2> QED
    BY <1>1, <1>20, <2>7
\* And nobody else owns it.
<1>21. ASSUME NEW h \in left, h.id \notin strayed', h.on # NoOne, h.cond = e.cond,
              h.on \in Alike(e.on, Twins)
       PROVE  FALSE
  <2>1. h \in live /\ h \notin prior /\ h.id \notin strayed
    BY <1>1, <1>10, <1>21
  <2>2. h.cond \in conds[h.on]
    BY <1>18, <1>21, <2>1 DEF Owned
  <2>3. e.cond \in conds[e.on]
    BY <1>18, <1>21, <2>2, AlikeAgree
  <2>4. PICK f \in freed : f.on = e.on /\ f.cond = e.cond
    BY <1>1, <2>3 DEF Unowned
  <2>5. f \in live /\ f # h /\ f.on # NoOne
    BY <1>2, <1>3, <2>1, <2>4, CreatureNumbers
  <2>6. CASE f.id \in strayed
    <3>1. h.id \in Losing(left, f.on, f.cond, Twins)
      BY <1>21, <2>4, AlikeFacts DEF Losing
    <3>2. h.id \in Collateral(left, freed, Twins)
      BY <2>5, <2>6, <3>1 DEF Collateral
    <3> QED
      BY <1>1, <1>21, <3>2
  <2>7. CASE f.id \notin strayed
    <3>1. f.on \in Alike(h.on, Twins)
      BY <1>21, <2>4, AlikeFacts
    <3> QED
      BY <1>18, <1>21, <2>1, <2>4, <2>5, <2>7, <3>1 DEF Owned
  <2> QED
    BY <2>6, <2>7
<1>22. ASSUME NEW h \in left, h.id \notin strayed', h.on # NoOne
       PROVE  h.cond \in conds'[h.on]
  <2>1. h \in live /\ h \notin prior /\ h \notin shaken /\ h.id \notin strayed
    BY <1>1, <1>10, <1>22
  <2>2. h.on \in Creatures
    BY <1>22, <2>1 DEF EffectsInv, Seats, Seated, EffectRows
  <2>3. h.cond \in conds[h.on]
    BY <1>18, <1>22, <2>1 DEF Owned
  <2>4. /\ h.id \notin Collateral(left, freed, Twins)
        /\ h.id \notin Collateral(left \cup {e}, after, Twins)
    BY <1>1, <1>22
  <2>5. h.cond \in before[h.on]
    <3>1. freed \in SUBSET live /\ h \notin freed
      BY <1>2, <1>3, <2>1
    <3>2. \A g \in freed : g.on # NoOne /\ h.on \in Alike(g.on, Twins) =>
                             g.on \in Alike(h.on, Twins)
      BY AlikeFacts
    <3> QED
      BY <1>18, <1>22, <2>1, <2>2, <2>3, <2>4, <3>1, <3>2, Retained, ReachIsCreatures
         DEF before
  <2>6. h.cond \in given[h.on]
    BY <1>7, <2>2, <2>5
  <2>7. after \in SUBSET live /\ h \notin after /\ h \in left \cup {e}
    BY <1>2, <1>3, <2>1
  <2>8. \A g \in after : g.on # NoOne /\ h.on \in Alike(g.on, Twins) =>
                           g.on \in Alike(h.on, Twins)
    BY AlikeFacts
  <2>9. h.cond \in Freed(given, after, Reachable, Twins)[h.on]
    BY <1>18, <1>22, <2>1, <2>2, <2>4, <2>6, <2>7, <2>8, Retained, ReachIsCreatures
  <2> QED
    BY <1>1, <2>9
<1>23. Owned(live', conds', strayed', Twins)
  <2> SUFFICES ASSUME NEW h \in left \cup {e}, h.id \notin strayed', h.on # NoOne
               PROVE  /\ h.cond \in conds'[h.on]
                      /\ \A f \in left \cup {e} : f.id \notin strayed' /\ f.on # NoOne
                           /\ f.cond = h.cond /\ f.on \in Alike(h.on, Twins) => f = h
    BY <1>1 DEF Owned
  <2>1. h.cond \in conds'[h.on]
    BY <1>20, <1>22
  <2>2. ASSUME NEW f \in left \cup {e}, f.id \notin strayed', f.on # NoOne,
               f.cond = h.cond, f.on \in Alike(h.on, Twins)
        PROVE  f = h
    <3>1. CASE h \in left /\ f \in left
      <4>1. h \in live /\ f \in live /\ h.id \notin strayed /\ f.id \notin strayed
        BY <1>1, <1>11, <2>2, <3>1
      <4> QED
        BY <1>18, <2>2, <4>1 DEF Owned
    <3>2. CASE h = e /\ f \in left
      BY <1>21, <2>2, <3>2
    <3>3. CASE h \in left /\ f = e
      <4>1. h.on \in Alike(e.on, Twins)
        BY <2>2, <3>3, AlikeFacts
      <4> QED
        BY <1>21, <2>2, <3>3, <4>1
    <3> QED
      BY <3>1, <3>2, <3>3
  <2> QED
    BY <2>1, <2>2
<1> QED
  BY <1>1, <1>12, <1>13, <1>14, <1>15, <1>16, <1>17, <1>23, ReachStill DEF EffectsInv

LEMMA EffectsBind ==
  ASSUME EffectsInv, Play, Seats', UNCHANGED vars, UNCHANGED turnVars, EffectsNext
  PROVE  EffectsInv'
<1>1. ASSUME NEW s \in Spells, NEW owner \in Players \cup {NoOne},
             NEW whose \in Players \cup {NoOne}, NEW on \in Creatures,
             Unused # {}, MayAnchor(s.timer, whose),
             CreateEffect(Given(s, owner, whose, on))
      PROVE  EffectsInv'
  <2>0. PICK e : e = Given(s, owner, whose, on)
    OBVIOUS
  <2>1. e \in EffectRows /\ Min(Unused) \in Unused
    BY <1>1, <2>0, GivenTypes
  <2>2. /\ e.id = Min(Unused) /\ e.on = on /\ e.timer = s.timer /\ e.whose = whose
        /\ e.at = Base(s.timer, whose) + Span
    BY <2>0 DEF Given
  <2>3. \A d \in live : d.id # e.id
    BY <2>1, <2>2 DEF Unused
  <2> QED
    BY <1>1, <2>0, <2>1, <2>2, <2>3, CreateBinds
<1>2. ASSUME NEW e \in live, EndActiveEffect(e) \/ BreakConcentration(e)
      PROVE  EffectsInv'
  BY <1>2, EndBinds
<1>3. ASSUME NEW e \in live, RemoveEffectTarget(e) \/ RefreshEffect(e)
      PROVE  EffectsInv'
  BY <1>3, TargetBinds, RefreshBinds
<1>4. ASSUME NEW w \in Players, NEW cond \in Conditions,
             AddCondition(w, cond) \/ RemoveCondition(w, cond)
      PROVE  EffectsInv'
  BY <1>4, AddBinds, RemoveBinds
<1> QED
  BY <1>1, <1>2, <1>3, <1>4 DEF EffectsNext, Given

-----------------------------------------------------------------------------
\* The end of a combat: what was on the actor's row is on the actor.

LEMMA CollateralMore ==
  ASSUME NEW L, NEW K, L \subseteq K, NEW gone, NEW T
  PROVE  Collateral(L, gone, T) \subseteq Collateral(K, gone, T)
  BY DEF Collateral, Losing

\* Only the row that speaks for the actor lasts, if no second row may claim it.
LEMMA LastingSpeaks ==
  ASSUME Reclaim = FALSE, Play, NEW i \in Lasting
  PROVE  i = Speaker /\ Twins = {Speaker, Durable}
<1>1. i \in DOMAIN rows /\ Here(i) /\ i \in Mine /\ i = Speaker
  BY DEF Lasting, Claimed, Play, CInv, Tamed
<1>2. ActorRow # {}
  BY <1>1 DEF ActorRow
<1> QED
  BY <1>1, <1>2, TwinsAre DEF Play, TwinFacts

\* What f was when the combat ended.
Was(f, b) ==
  /\ f.id = b.id /\ f.owner = b.owner /\ f.cond = b.cond
  /\ f.timer = b.timer /\ f.at = b.at /\ f.whose = b.whose
  /\ IF b \in ThereNow THEN /\ f = Passed(b, Lasting)
                            /\ f.on = IF b.on \in Lasting THEN Durable ELSE NoOne
     ELSE f = b

LEMMA CloseWas ==
  ASSUME Seats, CombatEnds, NEW f \in live'
  PROVE  \E b \in KeptNow : Was(f, b)
<1>1. live' = (KeptNow \ ThereNow) \cup {Passed(e, Lasting) : e \in ThereNow}
  BY CloseFacts
<1>2. CASE f \in KeptNow \ ThereNow
  BY <1>2 DEF Was
<1>3. CASE f \notin KeptNow \ ThereNow
  <2>1. PICK b \in ThereNow : f = Passed(b, Lasting)
    BY <1>1, <1>3
  <2>2. b \in KeptNow /\ b \in EffectRows
    BY DEF ThereNow, KeptNow, Seats, Seated
  <2>3. PICK lasting : lasting = Lasting
    OBVIOUS
  <2>4. /\ f.on = (IF b.on \in lasting THEN Durable ELSE NoOne)
        /\ f.id = b.id /\ f.owner = b.owner /\ f.cond = b.cond /\ f.timer = b.timer
        /\ f.at = b.at /\ f.whose = b.whose
    BY <2>1, <2>2, <2>3, PassedFacts
  <2> QED
    BY <2>1, <2>2, <2>3, <2>4 DEF Was
<1> QED
  BY <1>2, <1>3

LEMMA CloseBinds ==
  ASSUME Reclaim = FALSE, EffectsInv, Play, Seats', Ends, CombatEnds
  PROVE  EffectsInv'
<1> DEFINE stays == KeptNow \ {e \in ThereNow : e.on \notin Lasting}
<1>1. /\ conds' = Freed(conds, GoneNow, Reachable, Twins)
      /\ strayed' = (strayed \cap {e.id : e \in KeptNow})
                      \cup Collateral(KeptNow, GoneNow, Twins)
  BY CloseFacts
<1>2. /\ KeptNow \in SUBSET live /\ ThereNow \in SUBSET KeptNow
      /\ \A b \in KeptNow : b \notin TimedNow /\ b \notin OrphanedNow
  BY DEF KeptNow, ThereNow
<1>3. stays \in SUBSET live /\ GoneNow \in SUBSET live /\ stays \cap GoneNow = {}
  BY <1>2 DEF GoneNow, Cleaned, TimedNow, OrphanedNow
<1>4. Twins' = {}
  <2>1. ActorRow' = {}
    BY DEF Ends, ActorRow, Here
  <2> QED
    BY <2>1 DEF Twins
<1>5. Apart(live) /\ Single(live) /\ Seats
  BY DEF EffectsInv
<1>6. \A f \in live' : \E b \in KeptNow : Was(f, b)
  BY <1>5, CloseWas
<1>7. Apart(live') /\ Single(live')
  <2> SUFFICES ASSUME NEW f \in live', NEW g \in live',
                      f.id = g.id \/ (f.owner # NoOne /\ f.owner = g.owner)
               PROVE  f = g
    BY DEF Apart, Single
  <2>1. PICK a \in KeptNow : Was(f, a)
    BY <1>6
  <2>2. PICK b \in KeptNow : Was(g, b)
    BY <1>6
  <2>3. a = b
    BY <1>2, <1>5, <2>1, <2>2 DEF Was, Apart, Single
  <2> QED
    BY <2>1, <2>2, <2>3 DEF Was
<1>8. ASSUME NEW f \in live' PROVE Watched(f)' /\ Timely(f)'
  <2>1. PICK b \in KeptNow : Was(f, b)
    BY <1>6
  <2>2. b \in live /\ Watched(b) /\ Timely(b) /\ Seated(b)
    BY <1>2 DEF EffectsInv, Seats
  <2>3. /\ f.owner = b.owner /\ f.timer = b.timer /\ f.at = b.at /\ f.whose = b.whose
    BY <2>1 DEF Was
  <2>4. f.timer \notin {"round", "turn"}
    BY <1>2, <2>2, <2>3 DEF TimedNow
  <2>5. f.timer \in Timers
    BY <2>2, <2>3 DEF Seated, EffectRows
  <2>6. Timely(f)'
    <3>1. f.timer = "clock" => f.at > clock
      BY <2>2, <2>3 DEF Timely, Base
    <3>2. clock' = clock
      BY DEF Ends
    <3>3. f.timer = "clock" => Base(f.timer, f.whose)' = clock'
      BY DEF Base
    <3> QED
      BY <2>4, <2>5, <3>1, <3>2, <3>3 DEF Timely, Timers
  <2>7. f.owner \in {Lead, NoOne}
    <3> SUFFICES ASSUME f.owner \in DOMAIN rows
                 PROVE  FALSE
      BY <2>2, <2>3 DEF Seated
    <3>1. f.owner # NoOne /\ f.owner # Lead /\ f.owner # Durable
      BY RowNumbers DEF Play, RowFacts
    <3>2. Present(f.owner)
      BY <2>2, <2>3, <3>1 DEF Watched, InPlayNow
    <3>3. b \in OrphanedNow
      BY <1>2, <2>2, <2>3, <3>2 DEF OrphanedNow, Present
    <3> QED
      BY <1>2, <3>3
  <2>8. CASE f.owner = NoOne
    BY <2>6, <2>8 DEF Watched
  <2>9. CASE f.owner = Lead
    <3>1. ~ Felled(Lead) /\ conds[Lead] \cap Stunning = {}
      BY <2>2, <2>3, <2>9, CreatureNumbers DEF Watched, Stopped
    <3>2. conds'[Lead] \subseteq conds[Lead]
      BY <1>1, FreedLess, CreatureNumbers
    <3>3. ~ Felled(Lead)'
      BY <3>1 DEF Felled, Ends
    <3>4. ~ Stopped(Lead)'
      BY <3>1, <3>2, <3>3 DEF Stopped
    <3> QED
      BY <2>6, <2>9, <3>4 DEF Watched, InPlayNow
  <2> QED
    BY <2>7, <2>8, <2>9
<1>9. Owned(stays, conds', strayed', Twins)
  <2>1. \A e \in stays : e.id \in strayed => e.id \in strayed'
    BY <1>1
  <2>2. Collateral(stays, GoneNow, Twins) \subseteq strayed'
    <3>1. stays \subseteq KeptNow
      OBVIOUS
    <3> HIDE DEF stays
    <3> QED
      BY <1>1, <3>1, CollateralMore
  <2> HIDE DEF stays
  <2> QED
    BY <1>1, <1>3, <2>1, <2>2, FreeKeeps, ReachIsCreatures DEF EffectsInv
<1>10. Agree(conds', Twins)
  BY <1>1, FreedAgree, TwinsAre DEF EffectsInv, Play, TwinFacts
<1>11. ASSUME NEW f \in live', f.on # NoOne
       PROVE  \E b \in stays :
                /\ Was(f, b) /\ b.on # NoOne
                /\ \/ b \notin ThereNow /\ f.on = b.on
                   \/ /\ b \in ThereNow /\ f.on = Durable /\ b.on = Speaker
                      /\ Twins = {Speaker, Durable}
  <2>1. PICK b \in KeptNow : Was(f, b)
    BY <1>6
  <2>2. CASE b \notin ThereNow
    BY <1>11, <2>1, <2>2 DEF Was
  <2>3. CASE b \in ThereNow
    <3>1. b.on \in Lasting /\ f.on = Durable
      BY <1>11, <2>1, <2>3 DEF Was
    <3>2. b.on = Speaker /\ Twins = {Speaker, Durable}
      BY <3>1, LastingSpeaks
    <3>3. b.on # NoOne
      BY <2>3, RowNumbers DEF ThereNow, Play, RowFacts
    <3> QED
      BY <2>1, <2>3, <3>1, <3>2, <3>3
  <2> QED
    BY <2>2, <2>3
<1> HIDE DEF stays
<1>12. Owned(live', conds', strayed', {})
  <2> SUFFICES ASSUME NEW f \in live', f.id \notin strayed', f.on # NoOne
               PROVE  /\ f.cond \in conds'[f.on]
                      /\ \A g \in live' : g.id \notin strayed' /\ g.on # NoOne
                           /\ g.cond = f.cond /\ g.on \in Alike(f.on, {}) => g = f
    BY DEF Owned
  <2>1. PICK b \in stays :
          /\ Was(f, b) /\ b.on # NoOne
          /\ \/ b \notin ThereNow /\ f.on = b.on
             \/ /\ b \in ThereNow /\ f.on = Durable /\ b.on = Speaker
                /\ Twins = {Speaker, Durable}
    BY <1>11
  <2>2. b.id \notin strayed' /\ b.cond = f.cond
    BY <2>1 DEF Was
  <2>3. b.cond \in conds'[b.on]
    BY <1>9, <2>1, <2>2 DEF Owned
  <2>4. f.cond \in conds'[f.on]
    BY <1>10, <2>1, <2>2, <2>3 DEF Agree
  <2>5. ASSUME NEW g \in live', g.id \notin strayed', g.on # NoOne,
               g.cond = f.cond, g.on \in Alike(f.on, {})
        PROVE  g = f
    <3>1. PICK a \in stays :
            /\ Was(g, a) /\ a.on # NoOne
            /\ \/ a \notin ThereNow /\ g.on = a.on
               \/ /\ a \in ThereNow /\ g.on = Durable /\ a.on = Speaker
                  /\ Twins = {Speaker, Durable}
      BY <1>11, <2>5
    <3>2. a.id \notin strayed' /\ a.cond = b.cond
      BY <2>2, <2>5, <3>1 DEF Was
    <3>3. g.on = f.on
      BY <2>5 DEF Alike
    <3>4. a.on \in Alike(b.on, Twins)
      BY <2>1, <3>1, <3>3 DEF Alike
    <3>5. a = b
      BY <1>9, <2>1, <2>2, <3>1, <3>2, <3>4 DEF Owned
    <3> QED
      BY <2>1, <3>1, <3>5 DEF Was
  <2> QED
    BY <2>4, <2>5
<1>13. Agree(conds', {})
  BY DEF Agree
<1> QED
  BY <1>4, <1>7, <1>8, <1>12, <1>13 DEF EffectsInv

-----------------------------------------------------------------------------
\* A step of the journey: who enters a combat, becomes the actor or wakes.

LEMMA NewestSpeaks ==
  ASSUME Play, Play', Enters
  PROVE  Speaker' = Len(rows') /\ Len(rows') \in DOMAIN rows' /\ Len(rows') \notin DOMAIN rows
<1> DEFINE n == Len(rows')
<1>1. n \in Nat /\ DOMAIN rows' = 1 .. n /\ Len(rows) \in Nat /\ DOMAIN rows = 1 .. Len(rows)
  BY RowNumbers, RowNumbersAfter DEF Play, RowFacts
<1>2. n > Len(rows) /\ rows'[n].mine
  BY DEF Enters
<1>3. n \in DOMAIN rows' /\ n \notin DOMAIN rows
  BY <1>1, <1>2
<1>4. n \in Mine' /\ Mine' \in SUBSET (1 .. n)
  BY <1>1, <1>2, <1>3 DEF Mine
<1> HIDE DEF n
<1>5. Max(Mine') \in 1 .. n /\ n <= Max(Mine')
  BY <1>1, <1>4, MaxFacts
<1>6. Max(Mine') = n
  BY <1>1, <1>5
<1> QED
  BY <1>3, <1>6 DEF Speaker, n

\* The row of the actor that nobody has newly become is the one it was.
LEMMA SameTwins ==
  ASSUME Play, Play', Moves, Starts \/ GoesOn, ~ Enters, ~ Embodies
  PROVE  Twins' \in {{}, Twins}
<1> SUFFICES ASSUME Twins' # {}
             PROVE  Twins' = Twins
  OBVIOUS
<1>1. /\ Twins' = {Speaker', Durable} /\ Mine' # {} /\ Speaker' \in DOMAIN rows'
      /\ Here(Speaker)'
  BY TwinsAfter DEF Play, TwinFacts
<1>2. Mine' = Mine
  <2>1. Undisturbed => Mine' = Mine
    BY DEF Undisturbed, Stay, Mine
  <2>2. Grows /\ ~ rows'[Len(rows')].mine => Mine' = Mine
    BY DEF Grows, Mine
  <2>3. ~ (Grows /\ rows'[Len(rows')].mine)
    <3>1. Len(rows) \in Nat
      BY RowNumbers DEF Play, RowFacts
    <3> QED
      BY <3>1 DEF Grows, Enters
  <2>4. ~ Voiced
    BY DEF Voiced, Embodies, Play, CInv, Embodied
  <2> QED
    BY <2>1, <2>2, <2>3, <2>4 DEF Moves
<1>3. Speaker' = Speaker /\ Speaker \in DOMAIN rows
  BY <1>1, <1>2, SpeakerIs DEF Speaker, SpeaksFor, Play
<1>4. Here(Speaker)
  <2>1. rows'[Speaker].in = rows[Speaker].in /\ rows'[Speaker].in = fights' /\ fighting'
    BY <1>1, <1>3, Onward DEF Play, Here
  <2>2. rows[Speaker].in <= fights /\ fights \in Nat /\ rows[Speaker].in \in Nat
    BY <1>3, <2>1 DEF Play, CInv, Ordered, Typed
  <2>3. ~ Starts
    <3>1. Starts => rows[Speaker].in = fights + 1
      BY <2>1 DEF Starts
    <3> QED
      BY <2>2, <3>1
  <2>4. GoesOn => fighting /\ rows[Speaker].in = fights
    BY <2>1 DEF GoesOn
  <2> QED
    BY <2>3, <2>4 DEF Here
<1>5. ActorRow # {}
  BY <1>1, <1>2, <1>3, <1>4, SpeakerFacts DEF ActorRow, Play, CInv, Mine
<1> QED
  BY <1>1, <1>3, <1>5, TwinsAre DEF Play, TwinFacts

\* Effects on alike creatures were so before.
LEMMA WereAlike ==
  ASSUME Seats, Play, Play', Moves, Starts \/ GoesOn, NEW e \in live, NEW f \in live,
         e.on # NoOne, f.on # NoOne, f.on \in Alike(e.on, Twins')
  PROVE  f.on \in Alike(e.on, Twins)
<1> SUFFICES ASSUME f.on # e.on
             PROVE  f.on \in Alike(e.on, Twins)
  BY DEF Alike
<1>1. e.on \in Twins' /\ f.on \in Twins'
  BY DEF Alike
<1>2. Twins' = {Speaker', Durable}
  BY <1>1, TwinsAfter DEF Play, TwinFacts
<1>3. /\ e.on \in DOMAIN rows \cup {Lead, Durable} /\ f.on \in DOMAIN rows \cup {Lead, Durable}
      /\ Durable \in {e.on, f.on} => actor # NoActor
  BY DEF Seats, Seated
<1>4. ~ Enters
  <2> SUFFICES ASSUME Enters
               PROVE  FALSE
    OBVIOUS
  <2>1. Speaker' \in {e.on, f.on}
    BY <1>1, <1>2
  <2>2. Speaker' \in DOMAIN rows' /\ Speaker' \notin DOMAIN rows
    BY NewestSpeaks
  <2>3. Speaker' # Lead /\ Speaker' # Durable
    BY <2>2, RowNumbersAfter DEF Play, RowFacts
  <2> QED
    BY <1>3, <2>1, <2>2, <2>3
<1>5. ~ Embodies
  BY <1>1, <1>2, <1>3 DEF Embodies
<1>6. Twins' = Twins
  BY <1>1, <1>4, <1>5, SameTwins
<1> QED
  BY <1>6

\* The copies are of the actor and the row it enters as.
LEMMA CopiedFacts ==
  ASSUME Play, Play', NEW c \in [Creatures -> SUBSET Conditions]
  PROVE  /\ \A w \in DOMAIN rows \cup {Lead} : Copied(c)[w] = c[w]
         /\ Enters => Copied(c)[Durable] = Copied(c)[Len(rows')]
         /\ ~ Enters /\ (Embodies \/ Wakes) /\ Speaker' \in DOMAIN rows' =>
              Copied(c)[Durable] = Copied(c)[Speaker']
         /\ ~ (Enters \/ Embodies \/ Wakes) => Copied(c) = c
<1>1. /\ \A w \in DOMAIN rows \cup {Lead} : w \in Creatures /\ w # Durable
      /\ Durable \in Creatures
  BY RowNumbers, CreatureNumbers DEF Play, RowFacts
<1>2. CASE Enters
  <2> DEFINE n == Len(rows')
             given == IF Fresh THEN {} ELSE c[Durable]
             d == [c EXCEPT ![n] = given]
             b == [d EXCEPT ![Durable] = IF Fresh THEN {} ELSE d[Durable]]
  <2>1. n \in DOMAIN rows' /\ n \notin DOMAIN rows
    BY <1>2, NewestSpeaks
  <2>2. n \in Creatures /\ n # Durable /\ n # Lead
    BY <2>1, RowNumbersAfter, CreatureNumbers DEF Play, RowFacts
  <2>3. Copied(c) = b
    BY <1>2 DEF Copied
  <2> HIDE DEF n, given
  <2>4. /\ DOMAIN d = Creatures /\ d[n] = given
        /\ \A w \in Creatures : w # n => d[w] = c[w]
    BY <2>2
  <2> HIDE DEF d
  <2>5. /\ b[Durable] = (IF Fresh THEN {} ELSE d[Durable])
        /\ \A w \in Creatures : w # Durable => b[w] = d[w]
    BY <1>1, <2>4
  <2> HIDE DEF b
  <2>6. b[Durable] = given /\ b[n] = given
    BY <1>1, <2>2, <2>4, <2>5 DEF given
  <2>7. \A w \in DOMAIN rows \cup {Lead} : b[w] = c[w]
    BY <1>1, <2>1, <2>2, <2>4, <2>5
  <2> QED
    BY <1>2, <2>3, <2>6, <2>7 DEF n
<1>3. CASE ~ Enters /\ (Embodies \/ Wakes)
  <2>1. Copied(c) = [c EXCEPT ![Durable] = c[Speaker']]
    BY <1>3 DEF Copied
  <2>2. Speaker' \in DOMAIN rows' => Speaker' \in Creatures /\ Speaker' # Durable
    BY RowNumbersAfter, CreatureNumbers DEF Play, RowFacts
  <2> QED
    BY <1>1, <1>3, <2>1, <2>2
<1>4. CASE ~ (Enters \/ Embodies \/ Wakes)
  BY <1>4 DEF Copied
<1> QED
  BY <1>2, <1>3, <1>4

LEMMA CopiedAgree ==
  ASSUME EffectsInv, Play, Play', Moves, Starts \/ GoesOn, NEW gone, NEW reach
  PROVE  Agree(Copied(Freed(conds, gone, reach, Twins')), Twins')
<1> DEFINE c == Freed(conds, gone, reach, Twins')
<1>1. c \in [Creatures -> SUBSET Conditions]
  BY FreedTypes DEF EffectsInv, Seats
<1>2. /\ Twins' \subseteq Creatures
      /\ Twins' # {} => Twins' = {Speaker', Durable} /\ Speaker' \in DOMAIN rows'
  BY TwinsAfter, CreatureNumbers DEF Play, TwinFacts
<1>3. Twins' = {} \/ Twins' = Twins => Agree(c, Twins')
  <2>1. Twins' = {} \/ Twins' = Twins => Agree(conds, Twins')
    BY DEF EffectsInv, Agree
  <2> QED
    BY <1>2, <2>1, FreedAgree
<1> HIDE DEF c
<1>4. CASE Twins' = {}
  BY <1>4 DEF Agree, c
<1>5. CASE Twins' # {} /\ Enters
  <2>1. Copied(c)[Durable] = Copied(c)[Speaker']
    BY <1>1, <1>5, CopiedFacts, NewestSpeaks
  <2> QED
    BY <1>2, <1>5, <2>1 DEF Agree, c
<1>6. CASE Twins' # {} /\ ~ Enters /\ (Embodies \/ Wakes)
  <2>1. Copied(c)[Durable] = Copied(c)[Speaker']
    BY <1>1, <1>2, <1>6, CopiedFacts
  <2> QED
    BY <1>2, <1>6, <2>1 DEF Agree, c
<1>7. CASE Twins' # {} /\ ~ (Enters \/ Embodies \/ Wakes)
  <2>1. Copied(c) = c /\ Twins' = Twins
    BY <1>1, <1>7, CopiedFacts, SameTwins
  <2> QED
    BY <1>3, <2>1 DEF c
<1> QED
  BY <1>4, <1>5, <1>6, <1>7

LEMMA JourneyBinds ==
  ASSUME EffectsInv, Play, Play', Seats', JourneyNext, TurnsFollow,
         ~ (fighting /\ ~ fighting'),
         JourneyEnds(DueBy(clock'), BrokenOf(DueBy(clock')))
  PROVE  EffectsInv'
<1> DEFINE due == DueBy(clock')
           broken == BrokenOf(due)
           left == live \ (due \cup broken)
           gone == Cleaned(due, broken)
           c == Freed(conds, gone, Reachable', Twins')
           lost == {f \in left : /\ Enters \/ Wakes
                                 /\ f.on = Durable /\ f.cond \notin conds'[Durable]}
<1>1. /\ live' = left /\ conds' = Copied(c)
      /\ strayed' = (strayed \cap {e.id : e \in left})
           \cup Collateral(left, gone, Twins') \cup {e.id : e \in lost}
  BY DEF JourneyEnds
<1>2. due \in SUBSET live /\ broken \in SUBSET live
  BY DEF DueBy, BrokenOf
<1>3. left \in SUBSET live /\ gone \in SUBSET live /\ left \cap gone = {}
  BY <1>2, CleanedEffects
<1>4. Moves /\ (Starts \/ GoesOn)
  BY JourneyMoves DEF Ends, Play
<1>5. Seats /\ Owned(live, conds, strayed, Twins)
  BY DEF EffectsInv
<1>6. c \in [Creatures -> SUBSET Conditions] /\ \A w \in Creatures : c[w] \subseteq conds[w]
  BY <1>5, FreedTypes, FreedLess DEF Seats
<1>7. \A e \in left : e \in live /\ e \notin due /\ e \notin broken
  OBVIOUS
<1>8. Agree(conds', Twins')
  BY <1>1, <1>4, CopiedAgree
<1>9. Owned(left, c, strayed', Twins')
  <2>1. /\ \A e \in left : e.id \in strayed => e.id \in strayed'
        /\ Collateral(left, gone, Twins') \subseteq strayed'
    BY <1>1
  <2>2. \A e, f \in live : e.on # NoOne /\ f.on # NoOne /\ f.on \in Alike(e.on, Twins') =>
                             f.on \in Alike(e.on, Twins)
    BY <1>4, <1>5, WereAlike
  <2> HIDE DEF left, gone
  <2> QED
    BY <1>3, <1>5, <2>1, <2>2, FreeKeeps, ReachIsCreatures
<1> HIDE DEF due, broken, left, gone, c
<1>10. ASSUME NEW e \in left, e.id \notin strayed', e.on # NoOne
       PROVE  e.cond \in conds'[e.on]
  <2>1. e.cond \in c[e.on]
    BY <1>9, <1>10 DEF Owned
  <2>2. /\ e.on \in DOMAIN rows \cup {Lead, Durable}
        /\ e.on = Durable => actor # NoActor
    BY <1>5, <1>7, <1>10 DEF Seats, Seated
  <2>3. CASE e.on # Durable
    BY <1>1, <1>6, <2>1, <2>2, <2>3, CopiedFacts
  <2>4. CASE e.on = Durable /\ (Enters \/ Wakes)
    BY <1>1, <1>10, <2>4
  <2>5. CASE e.on = Durable /\ ~ (Enters \/ Wakes)
    <3>1. ~ Embodies
      BY <2>2, <2>5 DEF Embodies
    <3> QED
      BY <1>1, <1>6, <2>1, <2>5, <3>1, CopiedFacts
  <2> QED
    BY <2>3, <2>4, <2>5
<1>11. Owned(left, conds', strayed', Twins')
  BY <1>9, <1>10 DEF Owned
<1>12. ASSUME NEW e \in left PROVE Watched(e)'
  <2>1. Watched(e) /\ Seated(e)
    BY <1>7 DEF EffectsInv, Seats
  <2> SUFFICES ASSUME e.owner # NoOne
               PROVE  InPlayNow(e.owner)' /\ ~ Stopped(e.owner)'
    BY DEF Watched
  <2>2. e.owner \in DOMAIN rows \cup {Lead} /\ InPlayNow(e.owner)
        /\ ~ Felled(e.owner) /\ conds[e.owner] \cap Stunning = {}
    BY <2>1, CreatureNumbers DEF Seated, Watched, Stopped
  <2>3. ~ Felled(e.owner)'
    BY <1>7, <2>2 DEF broken, BrokenOf, Falls
  <2>4. conds'[e.owner] \cap Stunning = {}
    <3>1. conds'[e.owner] = c[e.owner]
      BY <1>1, <1>6, <2>2, CopiedFacts
    <3>2. e.owner \in Creatures
      BY <2>2, RowNumbers, CreatureNumbers DEF Play, RowFacts
    <3> QED
      BY <1>6, <2>2, <3>1, <3>2
  <2>5. InPlayNow(e.owner)'
    <3>1. CASE e.owner = Lead
      BY <3>1 DEF InPlayNow
    <3>2. CASE e.owner \in DOMAIN rows
      <4>1. Present(e.owner)
        BY <2>2, <3>2, RowNumbers DEF InPlayNow, Play, RowFacts
      <4>2. fighting /\ rows[e.owner].in = fights /\ ~ Starts
        BY <4>1 DEF Present, Here, Starts
      <4>3. fighting' /\ rows'[e.owner].in = fights' /\ e.owner \in DOMAIN rows'
        BY <1>4, <3>2, <4>2, Onward DEF Play, GoesOn
      <4>4. rows'[e.owner].k.status # "absent"
        BY <2>3, <3>2, <4>3, RowNumbers DEF Felled, Play, RowFacts
      <4> QED
        BY <4>3, <4>4 DEF InPlayNow, Present, Here
    <3> QED
      BY <2>2, <3>1, <3>2
  <2> QED
    BY <2>3, <2>4, <2>5 DEF Stopped
<1>13. ASSUME NEW e \in left PROVE Timely(e)'
  <2>1. Timely(e) /\ Seated(e) /\ e.at \in Nat /\ e.timer \in Timers
    BY <1>7 DEF EffectsInv, Seats, Seated, EffectRows
  <2>2. CASE e.timer = "none"
    BY <2>2 DEF Timely
  <2>3. CASE e.timer = "clock"
    <3>1. ~ (e.at <= clock') /\ clock' \in Nat
      BY <1>7, <2>3 DEF due, DueBy, Play, CInv, Typed
    <3>2. Base(e.timer, e.whose)' = clock'
      BY <2>3 DEF Base
    <3> QED
      BY <2>1, <2>3, <3>1, <3>2 DEF Timely
  <2>4. CASE e.timer \in {"round", "turn"}
    <3>1. fighting /\ ~ Starts
      BY <2>1, <2>4 DEF Timely, Starts
    <3>2. fighting' = fighting /\ fights' = fights
      BY <1>4, <3>1 DEF GoesOn
    <3>3. SameTurns
      BY <3>2, JourneySame DEF Play
    <3>4. e.timer = "turn" => e.whose \in Players
      BY <2>1 DEF Seated
    <3>5. Base(e.timer, e.whose)' = Base(e.timer, e.whose)
      BY <2>4, <3>3, <3>4 DEF Base, SameTurns
    <3> QED
      BY <2>1, <2>4, <3>1, <3>2, <3>5 DEF Timely
  <2> QED
    BY <2>1, <2>2, <2>3, <2>4 DEF Timers
<1>14. Apart(left) /\ Single(left)
  BY <1>3, FewerBind
<1> QED
  BY <1>1, <1>8, <1>11, <1>12, <1>13, <1>14 DEF EffectsInv

LEMMA EffectsInvStep ==
  ASSUME Reclaim = FALSE, EffectsInv, Play, Play', Seats', [BattleNext]_battleVars
  PROVE  EffectsInv'
<1>1. CASE JourneyNext /\ Aftermath
  <2>1. CASE fighting /\ ~ fighting' /\ CombatEnds
    <3>1. Ends
      BY <1>1, <2>1, JourneyMoves DEF Starts, GoesOn, Play
    <3> QED
      BY <2>1, <3>1, CloseBinds
  <2>2. CASE ~ (fighting /\ ~ fighting')
             /\ JourneyEnds(DueBy(clock'), BrokenOf(DueBy(clock')))
    BY <1>1, <2>2, JourneyBinds DEF Aftermath
  <2> QED
    BY <1>1, <2>1, <2>2, FollowFacts DEF Aftermath
<1>2. ASSUME NEW p \in Players, NEW r \in 1 .. MaxRounds,
             UNCHANGED journeyVars, BeginTurn(p, r), TurnEffects(p, r)
      PROVE  EffectsInv'
  BY <1>2, TurnBinds DEF journeyVars
<1>3. CASE UNCHANGED <<journeyVars, effectVars>> /\ TurnsNext
  <2>1. UNCHANGED vars /\ UNCHANGED effectVars /\ SameTurns
    BY <1>3, TurnsNextSame DEF journeyVars, Play
  <2> QED
    BY <2>1, SpendBinds
<1>4. CASE UNCHANGED <<journeyVars, turnVars>> /\ EffectsNext
  BY <1>4, EffectsBind DEF journeyVars
<1>5. CASE UNCHANGED battleVars
  <2>1. UNCHANGED vars /\ UNCHANGED effectVars /\ SameTurns
    BY <1>5, TurnsStillSame DEF battleVars, journeyVars
  <2> QED
    BY <2>1, SpendBinds
<1> QED
  BY <1>1, <1>2, <1>3, <1>4, <1>5 DEF BattleNext

LEMMA EffectsInvInit == BattleInit => EffectsInv
<1> SUFFICES ASSUME BattleInit
             PROVE  EffectsInv
  OBVIOUS
<1>1. live = {} /\ conds = [w \in Creatures |-> {}]
  BY DEF BattleInit, EffectsInit
<1>2. Twins = {}
  <2>1. rows = <<>>
    BY DEF BattleInit, JourneyInit, Init, CompanionsInit
  <2>2. ActorRow = {}
    BY <2>1 DEF ActorRow, Mine
  <2> QED
    BY <2>2 DEF Twins
<1> QED
  BY <1>1, <1>2, SeatsInit DEF EffectsInv, Apart, Single, Owned, Agree

-----------------------------------------------------------------------------
LEMMA BattlesAreJourneys == Battles => Journey
<1>1. BattleInit => JourneyInit
  BY DEF BattleInit
<1>2. [BattleNext]_battleVars => [JourneyNext]_journeyVars
  BY DEF BattleNext, battleVars
<1> QED
  BY <1>1, <1>2, PTL DEF Battles, Journey

LEMMA CStays == Spec => []CInv
  BY CInit, CStep, CStutter, PTL DEF Spec

LEMMA TurnsHold == Battles => []TurnsInv
<1>1. BattleInit => TurnsInv
  BY UnspentSound DEF BattleInit
<1>2. TurnsInv /\ [BattleNext]_battleVars => TurnsInv'
  BY TurnsStep
<1> QED
  BY <1>1, <1>2, PTL DEF Battles

LEMMA BattlesPlay == Battles => []Play
<1>1. CInv /\ Bounded /\ TurnsInv => Play
  BY DEF Play
<1> QED
  BY BattlesAreJourneys, JourneyPlays, CStays, BoundsStay, TurnsHold, <1>1, PTL

LEMMA SeatsStay == Battles => []Seats
<1>1. Seats /\ Play /\ Play' /\ [BattleNext]_battleVars => Seats'
  BY SeatsStep
<1> QED
  BY SeatsInit, <1>1, BattlesPlay, PTL DEF Battles

-----------------------------------------------------------------------------
\* The theorems, for any participants, rounds, reactions and legendary actions.

\* Nobody who has acted is surprised, no caster casts a bonus-action spell and
\* another than a cantrip in one turn, and one legendary option is used at the
\* end of a turn, within what its record allows (turnBudget.ts).
THEOREM TurnsStayFair == Battles => []TurnsFair
<1>1. TurnsInv => TurnsFair
  BY DEF TurnsInv
<1> QED
  BY TurnsHold, <1>1, PTL

\* Through a battle every row stays of its type, and every effect and every
\* creature's conditions with it, however the fight closes over them
\* (applyCombatEnd passes what a combatant carried on to the companion it was).
THEOREM BattleTypesStayOK == Battles => []BattleTypeOK
<1>1. TurnsInv => TurnsTypeOK
  BY DEF TurnsInv
<1>2. JourneyTypeOK /\ TurnsTypeOK /\ Seats => BattleTypeOK
  BY SeatsAreTypes DEF BattleTypeOK
<1> QED
  BY BattlesAreJourneys, JourneyTypesStayOK, TurnsHold, SeatsStay, <1>1, <1>2, PTL

\* An owner concentrates on one effect at most, and never while it is down,
\* incapacitated or out of play; no effect outlives its deadline, on the clock,
\* in rounds or in somebody's turns; the condition of every effect stays on its
\* holder and is no other effect's, but for those taken by hand or lost with the
\* actor's copies, which the code does not tell the effect of; and the actor and
\* its row agree (activeEffects.ts). The end of a combat needs that no second
\* creature claims the actor.
THEOREM EffectsStaySound ==
  ASSUME Reclaim = FALSE
  PROVE  Battles => []EffectsSound
<1>1. EffectsInv /\ Play /\ Play' /\ Seats' /\ [BattleNext]_battleVars => EffectsInv'
  BY EffectsInvStep
<1> QED
  BY EffectsInvInit, EffectsInvSound, SeatsStay, BattlesPlay, <1>1, PTL DEF Battles
=============================================================================
