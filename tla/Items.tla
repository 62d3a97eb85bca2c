------------------------------- MODULE Items -------------------------------
(***************************************************************************)
(* The things of the party.  A row of the inventory is held by a character *)
(* or lies somewhere, dropped, sold or lost; a part that is left behind is *)
(* a row of its own.  Attunement, the curse of what is worn and the        *)
(* ammunition of a combat are kept beside the rows and name them by id,    *)
(* and an id whose row was destroyed is free to be given again.  The kind  *)
(* of a row is what it is to the rules: the record it is bound to, or, for *)
(* one given ad hoc, its name, which another gift may change.              *)
(***************************************************************************)
EXTENDS Rests, Sequences

CONSTANTS Chars, Hero, Nobody, \* characters, the one that Rests is about
          Names, MaxParts,     \* ids: a name the game master gives, or a part
          Kinds, PackBound,    \* of items, those with a record of the rules
          Bonding, Clinging,   \* those to attune to, and with a curse
          Places, Nowhere,
          AttunementSlots,
          MaxQty, MaxShots     \* bounds: a stack, expenditures

ASSUME ItemNames ==
  /\ Hero \in Chars /\ Nobody \notin Chars /\ Nowhere \notin Places
  /\ Bonding \subseteq Kinds /\ PackBound \subseteq Kinds
  /\ Clinging \subseteq PackBound
  /\ MaxParts \in Nat /\ MaxQty \in Nat /\ MaxShots \in Nat
  /\ AttunementSlots \in Nat

VARIABLES items,   \* by id, the row or NoItem
          bonds,   \* attunements: a character, an id, and the kind attuned to
          cursed,  \* a character and the kind whose curse it bears
          place,   \* where the campaign is
          shots,   \* ammunition expended, in order
          reissued \* ids an open expenditure named when they got a new row

itemVars == <<items, bonds, cursed, place, shots, reissued>>

Ids == Names \X (0 .. MaxParts)
NoItem == [kind |-> "none", qty |-> 0, holder |-> Nobody, worn |-> FALSE,
           at |-> Nowhere, fate |-> "none"]
Fates == {"dropped", "sold", "lost"}
ItemRows == [kind : Kinds, qty : 1 .. MaxQty, holder : Chars, worn : BOOLEAN,
          at : {Nowhere}, fate : {"none"}]
         \cup [kind : Kinds, qty : 1 .. MaxQty, holder : {Nobody},
               worn : {FALSE}, at : Places, fate : Fates]
Shots == [fight : 1 .. MaxFights, who : Chars, item : Ids, kind : Kinds,
          qty : 1 .. MaxQty, at : Places, open : BOOLEAN]

ItemsTypeOK ==
  /\ items \in [Ids -> ItemRows \cup {NoItem}]
  /\ bonds \subseteq Chars \X Ids \X Kinds /\ cursed \subseteq Chars \X Clinging
  /\ place \in Places \cup {Nowhere}
  /\ shots \in Seq(Shots) /\ Len(shots) <= MaxShots
  /\ reissued \subseteq Ids

ItemsInit ==
  /\ items = [i \in Ids |-> NoItem]
  /\ bonds = {} /\ cursed = {} /\ shots = <<>> /\ reissued = {}
  /\ place \in Places

-----------------------------------------------------------------------------
Dead == IF hero.life = "dead" THEN {Hero} ELSE {}
Held(c, i) == items[i] # NoItem /\ items[i].holder = c
Lies(i) == items[i] # NoItem /\ items[i].holder = Nobody
InReach(i) == place # Nowhere /\ items[i].at = place
Bonded(i) == \E b \in bonds : b[2] = i
Open == {k \in DOMAIN shots : shots[k].open}
Reserved(i) == \E k \in Open : shots[k].item = i

\* The curse of what c wears keeps it on (blocksDoff).
Clings(c, i) ==
  Held(c, i) /\ items[i].worn /\ items[i].kind \in Clinging
    /\ <<c, items[i].kind>> \in cursed

HeldBy(c, row) ==
  [row EXCEPT !.holder = c, !.worn = FALSE, !.at = Nowhere, !.fate = "none"]

SetRow(i, row) == items' = [items EXCEPT ![i] = row]
NewRow(i) == reissued' = reissued \cup {j \in {i} : Reserved(j)}

-----------------------------------------------------------------------------
\* The same call makes a row and writes over one that c holds: its quantity, and
\* what is given ad hoc renames what was.
GiveItem(c, i, kind, n) ==
  /\ \/ items[i] = NoItem /\ NewRow(i)
        /\ SetRow(i, HeldBy(c, [NoItem EXCEPT !.kind = kind, !.qty = n]))
     \/ /\ Held(c, i) /\ UNCHANGED reissued
        /\ items[i].kind # kind => {items[i].kind, kind} \cap PackBound = {}
        /\ items' = [items EXCEPT ![i].kind = kind, ![i].qty = n]
  /\ UNCHANGED <<bonds, cursed, place, shots>>

\* The smallest part of i's name that is no row.
FreeParts(i) == {m \in 1 .. MaxParts : items[<<i[1], m>>] = NoItem}
Parted(i, n) == IF n < items[i].qty THEN <<i[1], Min(FreeParts(i))>> ELSE i

\* What is left of i lies where the campaign is; a part of a row that state
\* is kept about is refused.
Relinquish(c, i, n, fate) ==
  LET row == items[i]
      left == [row EXCEPT !.holder = Nobody, !.worn = FALSE, !.at = place,
                          !.fate = fate]
  IN /\ Held(c, i) /\ ~ Clings(c, i) /\ place # Nowhere
     /\ \/ n >= row.qty /\ SetRow(i, left) /\ UNCHANGED reissued
        \/ /\ n < row.qty /\ ~ Bonded(i) /\ FreeParts(i) # {}
           /\ items' = [items EXCEPT ![i].qty = @ - n,
                                     ![Parted(i, n)] = [left EXCEPT !.qty = n]]
           /\ NewRow(Parted(i, n))

RemoveItem(c, i, n, fate) ==
  Relinquish(c, i, n, fate) /\ UNCHANGED <<bonds, cursed, place, shots>>

\* One's own, or what lies dropped here.
DestroyItem(c, i, n) ==
  /\ Held(c, i) \/ (Lies(i) /\ items[i].fate = "dropped" /\ InReach(i))
  /\ \/ /\ n >= items[i].qty /\ SetRow(i, NoItem)
        /\ bonds' = {b \in bonds : b[2] # i}
     \/ /\ n < items[i].qty /\ ~ Bonded(i)
        /\ items' = [items EXCEPT ![i].qty = @ - n] /\ UNCHANGED bonds
  /\ UNCHANGED <<cursed, place, shots, reissued>>

\* Mutant: ammunition that lies about may be picked up.
ClaimAny(c, i) ==
  /\ Lies(i) /\ items[i].fate = "dropped" /\ InReach(i)
  /\ SetRow(i, HeldBy(c, items[i]))
  /\ UNCHANGED <<bonds, cursed, place, shots, reissued>>

ClaimItem(c, i) ==
  /\ Lies(i) /\ items[i].fate = "dropped" /\ ~ Reserved(i) /\ InReach(i)
  /\ SetRow(i, HeldBy(c, items[i]))
  /\ UNCHANGED <<bonds, cursed, place, shots, reissued>>

ReacquireItem(c, i) ==
  /\ Lies(i) /\ items[i].fate \in {"sold", "lost"} /\ InReach(i)
  /\ SetRow(i, HeldBy(c, items[i]))
  /\ UNCHANGED <<bonds, cursed, place, shots, reissued>>

\* Mutant: the curse is forgotten, as long as it is no bond.
TransferAnything(c, d, i, policy) ==
  /\ c # d /\ Held(c, i)
  /\ \A b \in bonds : b[2] = i => b[1] = c /\ policy = "end"
  /\ SetRow(i, HeldBy(d, items[i]))
  /\ bonds' = {b \in bonds : b[2] # i}
  /\ UNCHANGED <<cursed, place, shots, reissued>>

\* What is bonded to another than its holder is refused; policy ends a bond
\* of the holder or requires that there is none.
TransferItem(c, d, i, policy) ==
  /\ c # d /\ Held(c, i) /\ ~ Clings(c, i)
  /\ \A b \in bonds : b[2] = i => b[1] = c /\ policy = "end"
  /\ SetRow(i, HeldBy(d, items[i]))
  /\ bonds' = {b \in bonds : b[2] # i}
  /\ UNCHANGED <<cursed, place, shots, reissued>>

-----------------------------------------------------------------------------
DonItem(c, i) ==
  /\ Held(c, i) /\ ~ items[i].worn
  /\ items' = [items EXCEPT ![i].worn = TRUE]
  /\ cursed' = cursed \cup ({<<c, items[i].kind>>} \cap (Chars \X Clinging))
  /\ UNCHANGED <<bonds, place, shots, reissued>>

DoffItem(c, i) ==
  /\ Held(c, i) /\ items[i].worn /\ ~ Clings(c, i)
  /\ items' = [items EXCEPT ![i].worn = FALSE]
  /\ UNCHANGED <<bonds, cursed, place, shots, reissued>>

RemoveCurse(c, kind) ==
  /\ <<c, kind>> \in cursed /\ cursed' = cursed \ {<<c, kind>>}
  /\ UNCHANGED <<items, bonds, place, shots, reissued>>

BondsOf(c) == {b \in bonds : b[1] = c}

\* What a row may be attuned to as: its kind, or, for one given ad hoc, the
\* record that its name or the game master's reference leads to.
Keys(i) == {items[i].kind} \cup (IF items[i].kind \in PackBound THEN {} ELSE PackBound)

\* The key of the moment is kept; a later name changes it no more.
AttuneItem(c, i, key) ==
  /\ c \notin Dead /\ Held(c, i) /\ key \in Keys(i) \cap Bonding
  /\ \A b \in BondsOf(c) : b[3] # key
  /\ Cardinality(BondsOf(c)) < AttunementSlots
  /\ ~ Bonded(i)
  /\ bonds' = bonds \cup {<<c, i, key>>}
  /\ UNCHANGED <<items, cursed, place, shots, reissued>>

EndAttunement(c, i) ==
  /\ \E b \in BondsOf(c) : b[2] = i
  /\ bonds' = {b \in bonds : b[1] # c \/ b[2] # i}
  /\ UNCHANGED <<items, cursed, place, shots, reissued>>

\* Mutant: death leaves the attunements.
Unmourned == UNCHANGED itemVars

\* Death ends every bond of the character (endAllAttunementsOnDeath).
Mourn ==
  /\ bonds' = IF hero'.life = "dead" THEN {b \in bonds : b[1] # Hero} ELSE bonds
  /\ UNCHANGED <<items, cursed, place, shots, reissued>>

-----------------------------------------------------------------------------
\* A shot is a part dropped in the active combat, and a record that names it.
ExpendAmmunition(c, i, n) ==
  /\ fighting /\ Held(c, i) /\ n <= items[i].qty /\ Len(shots) < MaxShots
  /\ Relinquish(c, i, n, "dropped")
  /\ ~ Reserved(Parted(i, n))
  /\ shots' = Append(shots, [fight |-> fights, who |-> c, item |-> Parted(i, n),
                             kind |-> items[i].kind, qty |-> n, at |-> place,
                             open |-> TRUE])
  /\ UNCHANGED <<bonds, cursed, place>>

\* Half of what was expended of each kind comes back, of what still lies here;
\* the rest of it is destroyed.
StillThere(k) ==
  LET i == shots[k].item
  IN IF Lies(i) /\ items[i].fate = "dropped" /\ InReach(i)
     THEN Min({items[i].qty, shots[k].qty}) ELSE 0

RecoverAmmunition(c, f) ==
  LET mine == {k \in Open : shots[k].who = c /\ shots[k].fight = f}
      alike(k) == {m \in mine : shots[m].kind = shots[k].kind}
      half(k) == MapThenSumSet(LAMBDA m : shots[m].qty, alike(k)) \div 2
      before(k) == MapThenSumSet(StillThere, {m \in alike(k) : m < k})
      take(k) == IF before(k) < half(k)
                 THEN Min({StillThere(k), half(k) - before(k)}) ELSE 0
      found == {k \in mine : StillThere(k) > 0}
      shot(i) == CHOOSE k \in found : shots[k].item = i
      lost == {shots[k].item : k \in {m \in found : take(m) = 0}}
  IN /\ f \in 1 .. fights /\ ~ (fighting /\ f = fights)
     /\ mine # {} /\ place # Nowhere
     /\ \A k \in mine : shots[k].at = place
     /\ items' = [i \in Ids |->
          IF i \in lost THEN NoItem
          ELSE IF \E k \in found : shots[k].item = i
          THEN HeldBy(c, [items[i] EXCEPT !.qty = take(shot(i))])
          ELSE items[i]]
     /\ bonds' = {b \in bonds : b[2] \notin lost}
     /\ shots' = [k \in DOMAIN shots |->
                    [shots[k] EXCEPT !.open = @ /\ k \notin mine]]
     /\ UNCHANGED <<cursed, place, reissued>>

UpdateLocation(p) ==
  place' = p /\ UNCHANGED <<items, bonds, cursed, shots, reissued>>

ItemsNext ==
  \/ \E c \in Chars, i \in Ids :
       \/ \E n \in 1 .. MaxQty :
            \/ \E kind \in Kinds : GiveItem(c, i, kind, n)
            \/ \E fate \in Fates : RemoveItem(c, i, n, fate)
            \/ DestroyItem(c, i, n) \/ ExpendAmmunition(c, i, n)
       \/ ClaimItem(c, i) \/ ReacquireItem(c, i)
       \/ \E d \in Chars, policy \in {"end", "require-unattuned"} :
            TransferItem(c, d, i, policy)
       \/ DonItem(c, i) \/ DoffItem(c, i)
       \/ (\E key \in Kinds : AttuneItem(c, i, key)) \/ EndAttunement(c, i)
  \/ \E c \in Chars, kind \in Clinging : RemoveCurse(c, kind)
  \/ \E c \in Chars, f \in 1 .. fights : RecoverAmmunition(c, f)
  \/ \E p \in Places \cup {Nowhere} : UpdateLocation(p)
=============================================================================
