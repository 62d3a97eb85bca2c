------------------------------- MODULE Turns -------------------------------
(***************************************************************************)
(* The turns of a combat: the round, whose turn is open, and what every    *)
(* participant has spent of its action, bonus action, reactions, free      *)
(* interaction, movement and legendary actions.  A participant is the hero *)
(* or a row of the active combat; its budget is a row of that combat.      *)
(***************************************************************************)
EXTENDS Adventure

CONSTANTS Tireless,    \* participants whose reactions return at every turn
          Reactions,   \* by participant, the reactions its record allows
          Legends,     \* by participant, its legendary actions
          LegendCosts, \* what a legendary option may cost
          MaxRounds, MaxTurns \* bounds: rounds, and turns of a participant

Lead == 0 \* the hero; every other participant is a row
Players == 0 .. MaxRows
NoOne == MaxRows + 2

ASSUME TurnNumbers ==
  /\ Tireless \subseteq Players
  /\ Reactions \in [Players -> Nat] /\ Legends \in [Players -> Nat]
  /\ LegendCosts \subseteq Nat \ {0}
  /\ MaxRounds \in Nat \ {0} /\ MaxTurns \in Nat

VARIABLES round,  \* 0 until a turn is opened
          active, \* whose turn is open
          budget, \* of whom had one to keep since the combat began
          acted,  \* kept for the properties: who has spent in this combat,
          cast,   \* the spells cast in the open turn by its owner,
          opted   \* and who used a legendary option in it

turnVars == <<round, active, budget, acted, cast, opted>>

NoWindow == <<0, NoOne, 0>>
FreshBudget ==
  [turns |-> 0, surprised |-> FALSE, action |-> FALSE, bonus |-> FALSE,
   reactions |-> 0, reacted |-> FALSE, free |-> FALSE, moved |-> FALSE,
   bonusSpell |-> FALSE, otherSpell |-> "none", spent |-> 0,
   legendary |-> FALSE, token |-> NoWindow]

\* A budget is made for a participant when one is first needed.
BudgetOf(p) == IF p \in DOMAIN budget THEN budget[p] ELSE FreshBudget
Keep(p, b) == [q \in DOMAIN budget \cup {p} |-> IF q = p THEN b ELSE budget[q]]

Budgets ==
  [turns : Nat, surprised : BOOLEAN, action : BOOLEAN, bonus : BOOLEAN,
   reactions : Nat, reacted : BOOLEAN, free : BOOLEAN, moved : BOOLEAN,
   bonusSpell : BOOLEAN, otherSpell : {"none", "cantrip", "other"},
   spent : Nat, legendary : BOOLEAN, token : Nat \X Nat \X Nat]

TurnsTypeOK ==
  /\ round \in 0 .. MaxRounds /\ active \in Players \cup {NoOne}
  /\ DOMAIN budget \subseteq Players
  /\ \A p \in DOMAIN budget : budget[p] \in Budgets
  /\ acted \subseteq Players /\ opted \subseteq Players
  /\ cast \subseteq {"bonus", "cantrip", "other"}

Unspent == [p \in {} |-> FreshBudget]

TurnsInit ==
  /\ round = 0 /\ active = NoOne /\ budget = Unspent
  /\ acted = {} /\ cast = {} /\ opted = {}

\* A new combat has no turns yet.
NoTurns ==
  /\ round' = 0 /\ active' = NoOne /\ budget' = Unspent
  /\ acted' = {} /\ cast' = {} /\ opted' = {}

-----------------------------------------------------------------------------
Participates(p) == fighting /\ (p = Lead \/ (p \in DOMAIN rows /\ Here(p)))
\* A dying participant keeps its turn, for the death save.
Available(p) ==
  /\ Participates(p)
  /\ IF p = Lead THEN hero.life # "dead"
     ELSE rows[p].k.status \notin {"dead", "stable", "escaped", "inactive", "absent"}

\* A turn that ends counts, and ends the surprise of its owner.
Ended(b) == [b EXCEPT !.turns = @ + 1, !.surprised = FALSE]

\* What comes back when one's turn begins; the rest of a budget is kept.
Renewed(b) ==
  [FreshBudget EXCEPT !.turns = b.turns, !.surprised = b.surprised,
                      !.token = b.token]

\* The budget p begins its turn with, and all of them.
Beginning(p) == Renewed(IF p = active THEN Ended(BudgetOf(p)) ELSE BudgetOf(p))
Opened(p, b) ==
  [q \in DOMAIN budget \cup {p} |->
     IF q = p THEN b
     ELSE LET left == IF q = active THEN Ended(budget[q]) ELSE budget[q]
          IN IF q \in Tireless THEN [left EXCEPT !.reactions = 0] ELSE left]

\* The turn of one who cannot act is opened and ended at once.
BeginTurn(p, r) ==
  /\ Participates(p) /\ Beginning(p).turns < MaxTurns
  /\ r >= round /\ round' = r
  /\ active' = IF Available(p) THEN p ELSE NoOne
  /\ budget' = Opened(p, IF Available(p) THEN Beginning(p)
                         ELSE Ended(Beginning(p)))
  /\ cast' = {} /\ opted' = {} /\ UNCHANGED acted

-----------------------------------------------------------------------------
\* What every spending asks, and the one that is not of one's own turn.
Unready(p) == ~ Available(p) \/ BudgetOf(p).surprised
MaySpend(p) == ~ Unready(p) /\ active = p

Spends(p, b) ==
  /\ budget' = Keep(p, b) /\ acted' = acted \cup {p}
  /\ UNCHANGED <<round, active>>
Casts(kinds) == cast' = cast \cup kinds /\ UNCHANGED opted

Escalated(old, spell) == IF spell = "none" \/ old = "other" THEN old ELSE spell

\* After a bonus-action spell only a cantrip of one action may be cast.
SpendAction(p, spell) ==
  /\ MaySpend(p) /\ ~ BudgetOf(p).action
  /\ BudgetOf(p).bonusSpell => spell # "other"
  /\ Spends(p, [BudgetOf(p) EXCEPT !.action = TRUE,
                                 !.otherSpell = Escalated(@, spell)])
  /\ Casts({spell} \ {"none"})

SpendBonusAction(p, spell) ==
  /\ MaySpend(p) /\ ~ BudgetOf(p).bonus
  /\ spell => BudgetOf(p).otherSpell # "other"
  /\ Spends(p, [BudgetOf(p) EXCEPT !.bonus = TRUE, !.bonusSpell = @ \/ spell])
  /\ Casts(IF spell THEN {"bonus"} ELSE {})

SpendReaction(p, spell) ==
  LET counts == spell /\ active = p
  IN /\ ~ Unready(p) /\ BudgetOf(p).reactions < Reactions[p]
     /\ counts => ~ BudgetOf(p).bonusSpell
     /\ Spends(p, [BudgetOf(p) EXCEPT
                     !.reactions = @ + 1, !.reacted = TRUE,
                     !.otherSpell = IF counts THEN "other" ELSE @])
     /\ Casts(IF counts THEN {"other"} ELSE {})

\* The end of the open turn, as the last spending of an option is stamped.
Window == <<round, active, BudgetOf(active).turns>>

SpendLegendary(p, cost) ==
  /\ ~ Unready(p) /\ active \notin {p, NoOne}
  /\ Legends[p] > 0 /\ BudgetOf(p).token # Window
  /\ BudgetOf(p).spent + cost <= Legends[p]
  /\ Spends(p, [BudgetOf(p) EXCEPT !.spent = @ + cost, !.legendary = TRUE,
                                 !.token = Window])
  /\ opted' = opted \cup {p} /\ UNCHANGED cast

SpendInteraction(p) ==
  /\ MaySpend(p) /\ ~ BudgetOf(p).free
  /\ Spends(p, [BudgetOf(p) EXCEPT !.free = TRUE]) /\ Casts({})

Move(p) ==
  MaySpend(p) /\ Spends(p, [BudgetOf(p) EXCEPT !.moved = TRUE]) /\ Casts({})

\* Mutant: reactions that came back are no sign of having acted.
SetSurprisedByCount(p) ==
  /\ Available(p) /\ active # p
  /\ BudgetOf(p) = [FreshBudget EXCEPT !.reacted = BudgetOf(p).reacted,
                                     !.token = BudgetOf(p).token]
  /\ budget' = Keep(p, [BudgetOf(p) EXCEPT !.surprised = TRUE])
  /\ UNCHANGED <<round, active, acted, cast, opted>>

\* One participant of the call; it is refused as a whole if one is.
SetSurprised(p) ==
  LET b == BudgetOf(p)
  IN /\ Available(p) /\ active # p /\ b.turns = 0
     /\ ~ (b.action \/ b.bonus \/ b.reacted \/ b.free \/ b.moved \/ b.legendary)
     /\ b.reactions = 0 /\ b.spent = 0
     /\ budget' = Keep(p, [b EXCEPT !.surprised = TRUE])
     /\ UNCHANGED <<round, active, acted, cast, opted>>

TurnsNext ==
  \E p \in Players :
    \/ \E spell \in {"none", "cantrip", "other"} : SpendAction(p, spell)
    \/ \E spell \in BOOLEAN : SpendBonusAction(p, spell) \/ SpendReaction(p, spell)
    \/ \E cost \in LegendCosts : SpendLegendary(p, cost)
    \/ SpendInteraction(p) \/ Move(p) \/ SetSurprised(p)

-----------------------------------------------------------------------------
\* In a combat, a conversion of slots and points takes the hero's bonus action.
Converts ==
  /\ fighting /\ magic'.points # magic.points
  /\ magic'.slots # magic.slots \/ magic'.made # magic.made

\* What the steps of the campaign do to the turns.
TurnsFollow ==
  \/ fights' # fights /\ NoTurns
  \/ fights' = fights /\ Converts /\ SpendBonusAction(Lead, FALSE)
  \/ fights' = fights /\ ~ Converts /\ UNCHANGED turnVars
=============================================================================
