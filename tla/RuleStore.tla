----------------------------- MODULE RuleStore -----------------------------
(***************************************************************************)
(* The campaign's rules over its turns: what players, the DM's precedents  *)
(* and disputes write to the campaign_rule table, and the rules each       *)
(* accepted turn was adjudicated under (the campaignRules of its context). *)
(***************************************************************************)
EXTENDS CampaignRules

VARIABLES
  rules,     \* the campaign_rule table
  ordinal,   \* the current campaign ordinal, 0 before the first turn
  contexts,  \* the rules that turn i was adjudicated under
  before,    \* the table as the replay snapshot of the latest turn holds it
  replay,    \* "none" | "available" | "pending" | "replayed"
  fresh      \* whether the campaign is as the latest turn left it

vars == <<rules, ordinal, contexts, before, replay, fresh>>

Init ==
  /\ rules = [r \in RuleIds |-> NoRow]
  /\ ordinal = 0
  /\ contexts = [i \in 1 .. Horizon |-> {}]
  /\ before = [r \in RuleIds |-> NoRow]
  /\ replay = "none" /\ fresh = FALSE

-----------------------------------------------------------------------------
\* recordAmbiguityRuling
RulingId(a, p) == <<a, OrdinalOf(p)>>
Recordable(table, a, p, n) ==
  /\ Unresolved(table, a, At(n + 1))
  /\ OrdinalOf(p) > n
  /\ Writable(table, RulingId(a, p), NewRow(a, p))

\* The table once the precedents of an accepted candidate are recorded.
WithPrecedents(table, P, n) ==
  [r \in RuleIds |->
     IF \E a \in P : r = RulingId(a, Future(n + 1))
     THEN NewRow(r[1], Future(n + 1))
     ELSE table[r]]

\* An accepted turn, or the accepted replay of a disputed one.
AcceptTurn ==
  LET n == IF replay = "pending" THEN ordinal ELSE ordinal + 1
  IN /\ n < Horizon
     /\ \E P \in SUBSET Ambiguities :
          /\ \A a \in P : /\ Unresolved(rules, a, At(n))
                          /\ Recordable(rules, a, Future(n + 1), n)
          /\ rules' = WithPrecedents(rules, P, n)
     /\ ordinal' = n
     /\ contexts' = [contexts EXCEPT ![n] = ActiveAt(rules, At(n))]
     /\ before' = rules
     /\ replay' = IF replay = "pending" THEN "replayed" ELSE "available"
     /\ fresh' = TRUE

\* A management write: the prompt is open, and a later dispute is off.
Managed(table) ==
  /\ replay # "pending"
  /\ rules' = table
  /\ fresh' = FALSE
  /\ UNCHANGED <<ordinal, contexts, before, replay>>

\* Mutant: a command may date a write back.
AnyTime(p) == TRUE

\* Ordinary writes are prospective.
Prospective(p) == OrdinalOf(p) > ordinal

\* /rules resolve, and the offer that follows a turn.
Resolve(a, p) ==
  LET eff == Canonical(p, ordinal)
  IN Recordable(rules, a, eff, ordinal)
     /\ Managed(With(rules, RulingId(a, eff), NewRow(a, eff)))

\* /rules add
Add(r, a, p) ==
  LET row == NewRow(a, Canonical(p, ordinal))
  IN /\ Prospective(row.eff)
     /\ Writable(rules, r, row)
     /\ Managed(With(rules, r, row))

\* /rules supersede
Supersede(prior, r, a, p) ==
  LET row == NewRow(a, Canonical(p, ordinal))
  IN /\ Prospective(row.eff)
     /\ MaySupersede(rules, prior, r, row)
     /\ Managed(With(Superseded(rules, prior, r), r, row))

\* /rules revoke
Revoke(r, p) ==
  LET end == Canonical(p, ordinal)
  IN /\ MayRevoke(rules, r, end)
     /\ Prospective(end)
     /\ Managed(Revoked(rules, r, end))

\* Any other canonical change between turns.
OtherChange == Managed(rules)

\* disputeTurn: the snapshot comes back with the approved rule in force from
\* the disputed turn on, alone or in place of an earlier rule.
Dispute(r, a, prior) ==
  LET row == NewRow(a, At(ordinal))
  IN /\ replay = "available" /\ fresh
     /\ IF prior = NoRule
        THEN /\ Writable(before, r, row)
             /\ rules' = With(before, r, row)
        ELSE /\ MaySupersede(before, prior, r, row)
             /\ rules' = With(Superseded(before, prior, r), r, row)
     /\ replay' = "pending" /\ fresh' = FALSE
     /\ UNCHANGED <<ordinal, contexts, before>>

-----------------------------------------------------------------------------
Next ==
  \/ AcceptTurn
  \/ OtherChange
  \/ \E a \in Ambiguities, p \in Positions : Resolve(a, p)
  \/ \E r \in Names, a \in Ambiguities \cup {NoAmbiguity}, p \in Positions :
       \/ Add(r, a, p)
       \/ \E prior \in RuleIds : Supersede(prior, r, a, p)
  \/ \E r \in RuleIds, p \in Positions : Revoke(r, p)
  \/ \E r \in Names, a \in Ambiguities \cup {NoAmbiguity},
        prior \in RuleIds \cup {NoRule} : Dispute(r, a, prior)

Spec == Init /\ [][Next]_vars

-----------------------------------------------------------------------------
\* Properties

TypeOK ==
  /\ rules \in [RuleIds -> Rows] /\ before \in [RuleIds -> Rows]
  /\ ordinal \in 0 .. Horizon
  /\ contexts \in [1 .. Horizon -> SUBSET RuleIds]
  /\ replay \in {"none", "available", "pending", "replayed"}
  /\ fresh \in BOOLEAN

\* At no position, past or future, do two rulings answer one ambiguity: the
\* `conflicting' state that fails closed is never of this program's making.
OneRuling ==
  \A a \in Ambiguities, p \in Positions :
    \A r, q \in RulingsAt(rules, a, p) : r = q

\* The turns whose adjudication stands.
Standing == 1 .. (IF replay = "pending" THEN ordinal - 1 ELSE ordinal)

\* docs/campaign-rules.md: ordinary additions, supersessions and revocations do
\* not rewrite an accepted turn's context, and neither do disputes of a later
\* turn: the rules in force at its position are those it was adjudicated under.
ContextsStand == \A i \in Standing : ActiveAt(rules, At(i)) = contexts[i]

\* validateCampaignRules would pass every stored table, whatever sequence of
\* writes produced it (each write validates its own rows alone): rows have
\* their shape, links are valid, periods do not overlap, no line is a circle.
TableValid ==
  TypeOK /\ ValidLinks(rules) /\ NoOverlap(rules) /\ NoCycle(rules)

\* The comment of revokeCampaignRule: cancelling a scheduled replacement keeps
\* continuity.  Where a superseded rule that was ever in force ends, a rule of
\* its line of successors takes over at once.
Continuity ==
  \A r \in RuleIds :
    rules[r].status = "superseded" =>
      \E q \in ActiveAt(rules, EndOf(rules, r)) :
        rules[q].eff = EndOf(rules, r)

=============================================================================
