---------------------------- MODULE Expedition ----------------------------
(***************************************************************************)
(* A campaign at play with the things its party carries: the death of the  *)
(* hero ends every attunement of the hero, and ammunition is expended in   *)
(* the combats of Adventure and recovered after them.                      *)
(***************************************************************************)
EXTENDS Adventure, Items

journeyVars == <<vars, itemVars>>

JourneyInit == Init /\ ItemsInit

JourneyNext ==
  \/ Next /\ Mourn
  \/ ItemsNext /\ UNCHANGED vars

Journey == JourneyInit /\ [][JourneyNext]_journeyVars

JourneyTypeOK == TypeOK /\ ItemsTypeOK

-----------------------------------------------------------------------------
\* The slots of attunement: nobody overdraws them or fills two with the same
\* item, as it was when it was attuned to; an item serves one at a time, the
\* dead hold none, no bond outlives its item, whichever way it was lost, and
\* what the rules have a record of stays what it was attuned to as.
BondsSound ==
  /\ \A b \in bonds : items[b[2]] # NoItem /\ b[1] \notin Dead
  /\ \A c \in Chars : Cardinality(BondsOf(c)) <= AttunementSlots
  /\ \A a, b \in bonds : a # b =>
       /\ a[2] # b[2]
       /\ a[1] = b[1] => a[3] # b[3]
  /\ \A b \in bonds : items[b[2]].kind \in PackBound => b[3] = items[b[2]].kind

\* What an open expenditure reserves is what was shot and nothing more, so a
\* recovery takes and destroys nothing else; but for an id freed by destroying
\* the shot and given to another row, which the engine takes for the shot.
ShotsAccounted ==
  \A k \in Open :
    LET row == items[shots[k].item]
    IN row # NoItem /\ shots[k].item \notin reissued =>
         /\ row.holder = Nobody /\ row.fate = "dropped"
         /\ row.kind = shots[k].kind /\ row.at = shots[k].at
         /\ row.qty <= shots[k].qty

\* A cursed thing stays on whoever wears it, and what it is, until the curse is
\* lifted or the thing destroyed, whatever is done with it.
CurseClings ==
  [][\A w \in cursed, i \in Ids : Clings(w[1], i) =>
       \/ items'[i] = NoItem
       \/ /\ items'[i].holder = w[1] /\ items'[i].worn
          /\ items'[i].kind = items[i].kind
       \/ <<w[1], items[i].kind>> \notin cursed']_journeyVars
=============================================================================
