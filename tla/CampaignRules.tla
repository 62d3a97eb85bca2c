--------------------------- MODULE CampaignRules ---------------------------
(***************************************************************************)
(* The campaign_rule table and the interval logic every reader and writer  *)
(* of it shares: positions, half-open intervals, active rows, the overlap  *)
(* check of a write.  A table is a function from rule identities to rows.  *)
(***************************************************************************)
EXTENDS Naturals

CONSTANTS
  Ambiguities,  \* published ambiguities of the rules stack
  Names,        \* identities the player or a dispute chooses
  NoAmbiguity,  \* a house rule or a recurring question
  NoRule,       \* a null superseded_by
  Horizon       \* the last ordinal of the padded position encoding

ASSUME HorizonAssumption == Horizon \in Nat
ASSUME NamesAssumption ==
  /\ NoAmbiguity \notin Ambiguities
  /\ Names \cap (Ambiguities \X Nat) = {}
  /\ NoRule \notin Names \cup (Ambiguities \X Nat)

\* `ruling:<ambiguity>:<ordinal>' of recordAmbiguityRuling, or a chosen name.
RuleIds == (Ambiguities \X (1 .. Horizon)) \cup Names

-----------------------------------------------------------------------------
\* Positions, in the order of compareCampaignPositions: by ordinal, and within
\* one the `__future__' anchor before the turn that takes the ordinal.
Future(n) == 2 * n
At(n) == 2 * n + 1
OrdinalOf(p) == p \div 2
Positions == 0 .. At(Horizon)
Forever == At(Horizon) + 1      \* an open end

\* canonicalizeFuturePosition
Canonical(p, current) ==
  IF OrdinalOf(p) > current THEN Future(OrdinalOf(p)) ELSE p

\* campaignRuleIntervalsOverlap: an empty interval overlaps nothing.
Overlaps(start1, end1, start2, end2) ==
  start1 < end1 /\ start2 < end2 /\ start2 < end1 /\ start1 < end2

-----------------------------------------------------------------------------
\* Rows
Rows ==
  [status : {"absent", "active", "revoked", "superseded"},
   amb : Ambiguities \cup {NoAmbiguity},
   eff : Positions,            \* effective_position
   end : Positions,            \* revoked_position, 0 for null
   by : RuleIds \cup {NoRule}] \* superseded_by

NoRow == [status |-> "absent", amb |-> NoAmbiguity, eff |-> 0, end |-> 0,
          by |-> NoRule]

NewRow(a, p) == [NoRow EXCEPT !.status = "active", !.amb = a, !.eff = p]

Present(table) == {r \in RuleIds : table[r].status # "absent"}

\* existingIntervalEnd
EndOf(table, r) ==
  CASE table[r].status = "revoked" -> table[r].end
    [] table[r].status = "superseded" -> table[table[r].by].eff
    [] OTHER -> Forever

\* activeRows
ActiveAt(table, p) ==
  {r \in Present(table) :
     /\ table[r].eff <= p
     /\ table[r].status = "revoked" => table[r].end > p
     /\ table[r].status = "superseded" => table[table[r].by].eff > p}

RulingsAt(table, a, p) == {r \in ActiveAt(table, p) : table[r].amb = a}

\* findAmbiguity says `unresolved'.
Unresolved(table, a, p) == RulingsAt(table, a, p) = {}

\* Mutant: only rulings active now are looked at.
FitsNow(table, r, row) ==
  \A q \in Present(table) \ {r} :
    table[q].amb = row.amb /\ row.amb # NoAmbiguity /\ table[q].eff <= row.eff =>
      ~ Overlaps(row.eff, Forever, table[q].eff, EndOf(table, q))

\* assertNoOverlappingAmbiguityRuling, in the table that holds the new row (so
\* that a prior it supersedes already ends where it begins).
Fits(table, r, row) ==
  \A q \in Present(table) \ {r} :
    table[q].amb = row.amb /\ row.amb # NoAmbiguity =>
      ~ Overlaps(row.eff, Forever, table[q].eff, EndOf(table, q))

\* writeRule: a new identity, and no overlap.
With(table, r, row) == [table EXCEPT ![r] = row]
Writable(table, r, row) ==
  table[r].status = "absent" /\ Fits(With(table, r, row), r, row)

\* The prior's update of supersedeCampaignRule.
Superseded(table, prior, r) ==
  [table EXCEPT ![prior].status = "superseded", ![prior].by = r]

\* Mutant: a successor may start before its prior.
SupersedesAny(table, prior, r, row) ==
  /\ table[prior].status = "active" /\ prior # r
  /\ table[r].status = "absent"
  /\ Fits(With(Superseded(table, prior, r), r, row), r, row)

\* supersedeCampaignRule, all its checks of the two rows.
MaySupersede(table, prior, r, row) ==
  /\ table[prior].status = "active" /\ prior # r
  /\ row.eff >= table[prior].eff
  /\ Writable(Superseded(table, prior, r), r, row)

\* Mutant: a scheduled replacement may be revoked before it takes effect.
RevokesReplacements(table, r, p) == table[r].status = "active"

\* revokeCampaignRule, its checks of the row.
MayRevoke(table, r, p) ==
  /\ table[r].status = "active"
  /\ (\E q \in Present(table) : table[q].by = r) => p > table[r].eff

Revoked(table, r, p) ==
  [table EXCEPT ![r].status = "revoked", ![r].end = p]

-----------------------------------------------------------------------------
\* validateCampaignRules, of a whole table
ValidLinks(table) ==
  \A r \in Present(table) :
    table[r].status = "superseded" =>
      LET s == table[r].by IN
        /\ s \in Present(table)
        /\ \A q \in Present(table) \ {r} : table[q].by # s
        /\ table[s].eff >= table[r].eff
        /\ table[s].status = "revoked" => table[s].end > table[s].eff

NoOverlap(table) ==
  \A r, q \in Present(table) :
    r # q /\ table[r].amb = table[q].amb /\ table[r].amb # NoAmbiguity =>
      ~ Overlaps(table[r].eff, EndOf(table, r), table[q].eff, EndOf(table, q))

\* No supersession cycle: no set of rows whose successors stay within it.
NoCycle(table) ==
  ~ \E S \in SUBSET Present(table) :
      S # {} /\ \A r \in S : table[r].by \in S

=============================================================================
