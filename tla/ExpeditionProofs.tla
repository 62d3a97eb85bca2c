------------------------- MODULE ExpeditionProofs -------------------------
(***************************************************************************)
(* Proofs about Expedition: a journey is an adventure, so what is proved   *)
(* of Adventure holds of it, and attunements and curses stay sound.        *)
(***************************************************************************)
EXTENDS Expedition, CompanionProofs, FiniteSetTheorems

\* A row is a record of six fields, and somebody holds it or it has a fate.
Columns == {"kind", "qty", "holder", "worn", "at", "fate"}
Shaped(r) ==
  /\ DOMAIN r = Columns
  /\ r # NoItem => r.holder \in Chars \/ r.fate \in Fates

ItemsShaped ==
  /\ items = [i \in Ids |-> items[i]]
  /\ \A i \in Ids : Shaped(items[i])

BInv ==
  /\ BondsSound /\ ItemsShaped
  /\ bonds \subseteq Chars \X Ids \X Kinds /\ IsFiniteSet(bonds)
  /\ cursed \subseteq Chars \X Clinging

\* A row is of the kind it was, but for a name given ad hoc.
SameRecord(row, was) == row.kind = was.kind \/ row.kind \notin PackBound

\* What every step but an attunement does to the bonds.
BondsKept ==
  /\ bonds' \subseteq bonds
  /\ \A b \in bonds' : /\ items'[b[2]] # NoItem
                       /\ SameRecord(items'[b[2]], items[b[2]])

-----------------------------------------------------------------------------
LEMMA NothingIsThere == NoItem.holder = Nobody /\ NoItem.fate = "none"
  BY DEF NoItem

LEMMA NoItemIsShaped == Shaped(NoItem)
  BY DEF Shaped, NoItem, Columns

LEMMA HeldIsShaped ==
  ASSUME NEW r, DOMAIN r = Columns, NEW c \in Chars
  PROVE  /\ Shaped(HeldBy(c, r)) /\ HeldBy(c, r) # NoItem
         /\ HeldBy(c, r).kind = r.kind
<1>1. /\ HeldBy(c, r).holder = c /\ HeldBy(c, r).kind = r.kind
      /\ DOMAIN HeldBy(c, r) = Columns
  BY DEF Shaped, HeldBy, Columns
<1> QED
  BY <1>1, NothingIsThere, ItemNames DEF Shaped

\* A row that becomes another keeps the shape of the table.
LEMMA SetRowShaped ==
  ASSUME ItemsShaped, NEW i \in Ids, NEW row, Shaped(row), SetRow(i, row)
  PROVE  /\ ItemsShaped'
         /\ items'[i] = row
         /\ \A j \in Ids : j # i => items'[j] = items[j]
  BY DEF ItemsShaped, SetRow

LEMMA Fewer ==
  ASSUME BInv, BondsKept, ItemsShaped', cursed' \subseteq Chars \X Clinging,
         \A b \in bonds' : b[1] \notin Dead'
  PROVE  BInv'
<1>1. bonds' \subseteq Chars \X Ids \X Kinds /\ IsFiniteSet(bonds')
  BY FS_Subset DEF BInv, BondsKept
<1>2. ASSUME NEW c \in Chars
      PROVE  Cardinality(BondsOf(c)') <= AttunementSlots
  <2>1. IsFiniteSet(BondsOf(c)) /\ BondsOf(c)' \subseteq BondsOf(c)
    BY FS_Subset DEF BInv, BondsKept, BondsOf
  <2>2. /\ Cardinality(BondsOf(c)') <= Cardinality(BondsOf(c))
        /\ Cardinality(BondsOf(c)') \in Nat /\ Cardinality(BondsOf(c)) \in Nat
    BY <2>1, FS_Subset, FS_CardinalityType
  <2>3. Cardinality(BondsOf(c)) <= AttunementSlots
    BY DEF BInv, BondsSound
  <2> QED
    BY <2>2, <2>3, ItemNames
<1>3. \A a, b \in bonds' : a # b =>
        /\ a[2] # b[2]
        /\ a[1] = b[1] => a[3] # b[3]
  BY DEF BInv, BondsSound, BondsKept
<1>4. \A b \in bonds' :
        /\ items'[b[2]] # NoItem
        /\ items'[b[2]].kind \in PackBound => b[3] = items'[b[2]].kind
  BY DEF BondsKept, SameRecord, BInv, BondsSound
<1>5. BondsSound'
  BY <1>2, <1>3, <1>4 DEF BondsSound
<1> QED
  BY <1>1, <1>5 DEF BInv

-----------------------------------------------------------------------------
\* A part or the rest of a row keeps its shape, and so does what is left behind.
LEMMA QtyShaped ==
  ASSUME NEW r, Shaped(r), r # NoItem, NEW n
  PROVE  /\ Shaped([r EXCEPT !.qty = n]) /\ [r EXCEPT !.qty = n] # NoItem
         /\ [r EXCEPT !.qty = n].kind = r.kind
<1> DEFINE q == [r EXCEPT !.qty = n]
<1>1. q.holder = r.holder /\ q.fate = r.fate /\ q.kind = r.kind
      /\ DOMAIN q = Columns
  BY DEF Shaped, Columns
<1> HIDE DEF q
<1>2. q.holder \in Chars \/ q.fate \in Fates
  BY <1>1 DEF Shaped
<1>3. q # NoItem
  BY <1>2, NothingIsThere, ItemNames DEF Fates
<1>4. Shaped(q)
  BY <1>1, <1>2 DEF Shaped
<1> QED
  BY <1>1, <1>3, <1>4 DEF q

\* What give_item writes over a row.
Renamed(r, kind, n) == [r EXCEPT !.kind = kind, !.qty = n]

LEMMA RenamedShaped ==
  ASSUME NEW r, Shaped(r), r # NoItem, NEW kind, NEW n
  PROVE  /\ Shaped(Renamed(r, kind, n)) /\ Renamed(r, kind, n) # NoItem
         /\ Renamed(r, kind, n).kind = kind
         /\ Renamed(r, kind, n).holder = r.holder /\ Renamed(r, kind, n).worn = r.worn
<1> DEFINE q == Renamed(r, kind, n)
<1>1. /\ q.holder = r.holder /\ q.fate = r.fate /\ q.kind = kind
      /\ q.worn = r.worn /\ DOMAIN q = Columns
  BY DEF Shaped, Columns, Renamed
<1> HIDE DEF q
<1>2. q.holder \in Chars \/ q.fate \in Fates
  BY <1>1 DEF Shaped
<1>3. q # NoItem
  BY <1>2, NothingIsThere, ItemNames DEF Fates
<1>4. Shaped(q)
  BY <1>1, <1>2 DEF Shaped
<1> QED
  BY <1>1, <1>3, <1>4 DEF q

WornIs(r, w) == [r EXCEPT !.worn = w]

LEMMA WornShaped ==
  ASSUME NEW r, Shaped(r), r # NoItem, NEW w
  PROVE  Shaped(WornIs(r, w)) /\ WornIs(r, w) # NoItem /\ WornIs(r, w).kind = r.kind
<1>1. /\ WornIs(r, w).holder = r.holder /\ WornIs(r, w).fate = r.fate
      /\ WornIs(r, w).kind = r.kind /\ DOMAIN WornIs(r, w) = Columns
  BY DEF Shaped, Columns, WornIs
<1>2. WornIs(r, w).holder \in Chars \/ WornIs(r, w).fate \in Fates
  BY <1>1 DEF Shaped
<1> QED
  BY <1>1, <1>2, NothingIsThere, ItemNames DEF Fates, Shaped

Left(r, fate) ==
  [r EXCEPT !.holder = Nobody, !.worn = FALSE, !.at = place, !.fate = fate]

LEMMA LeftShaped ==
  ASSUME NEW r, Shaped(r), NEW fate \in Fates
  PROVE  Shaped(Left(r, fate)) /\ Left(r, fate) # NoItem /\ Left(r, fate).kind = r.kind
<1>1. Left(r, fate).fate = fate /\ Left(r, fate).kind = r.kind
      /\ DOMAIN Left(r, fate) = Columns
  BY DEF Shaped, Columns, Left
<1> QED
  BY <1>1, NothingIsThere DEF Shaped, Fates

\* A free part is a free id.
LEMMA PartIsFree ==
  ASSUME NEW i \in Ids, NEW n, n < items[i].qty, FreeParts(i) # {}
  PROVE  Parted(i, n) \in Ids /\ items[Parted(i, n)] = NoItem
<1> DEFINE S == FreeParts(i)
           less == {ss \in Nat \X Nat : ss[1] < ss[2]}
<1>1. S \subseteq 1 .. MaxParts /\ S \subseteq Nat /\ S # {}
  BY ItemNames DEF FreeParts
<1>2. IsWellFoundedOn(less, Nat)
  BY NatLessThanWellFounded DEF OpToRel
<1> HIDE DEF S, less
<1>3. PICK x \in S : \A y \in S : <<y, x>> \notin less
  BY <1>1, <1>2, WFMin
<1>4. \A y \in S : x <= y
  <2> SUFFICES ASSUME NEW y \in S
               PROVE  x <= y
    OBVIOUS
  <2>1. x \in Nat /\ y \in Nat /\ <<y, x>> \notin less
    BY <1>1, <1>3
  <2>2. ~ (y < x)
    BY <2>1 DEF less
  <2> QED
    BY <2>1, <2>2
<1>5. Min(S) \in S
  BY <1>3, <1>4 DEF Min
<1>6. Parted(i, n) = <<i[1], Min(S)>>
  BY DEF Parted, S
<1>7. Min(S) \in 0 .. MaxParts /\ items[<<i[1], Min(S)>>] = NoItem
  BY <1>1, <1>5, ItemNames DEF S, FreeParts
<1> QED
  BY <1>6, <1>7 DEF Ids

-----------------------------------------------------------------------------
\* One row written, of the kind it had if it was there and the rules know it.
LEMMA OneWritten ==
  ASSUME BInv, NEW i \in Ids, NEW row, SetRow(i, row), Shaped(row),
         row # NoItem, items[i] = NoItem \/ SameRecord(row, items[i]),
         bonds' \subseteq bonds
  PROVE  ItemsShaped' /\ BondsKept
<1>1. /\ ItemsShaped' /\ items'[i] = row
      /\ \A j \in Ids : j # i => items'[j] = items[j]
  BY SetRowShaped DEF BInv
<1>2. \A b \in bonds' : b[2] \in Ids /\ items[b[2]] # NoItem
  BY DEF BInv, BondsSound
<1> QED
  BY <1>1, <1>2 DEF BondsKept, SameRecord

\* No row written.
LEMMA NoneWritten ==
  ASSUME BInv, items' = items, bonds' \subseteq bonds
  PROVE  ItemsShaped' /\ BondsKept
<1>1. \A b \in bonds' : items[b[2]] # NoItem
  BY DEF BInv, BondsSound
<1> QED
  BY <1>1 DEF BInv, ItemsShaped, BondsKept, SameRecord

\* A row gone, with the bonds it had.
LEMMA OneGone ==
  ASSUME BInv, NEW i \in Ids, SetRow(i, NoItem),
         bonds' = {b \in bonds : b[2] # i}
  PROVE  ItemsShaped' /\ BondsKept
<1>1. ItemsShaped' /\ \A j \in Ids : j # i => items'[j] = items[j]
  BY SetRowShaped, NoItemIsShaped DEF BInv
<1>2. \A b \in bonds' : b[2] \in Ids /\ items[b[2]] # NoItem /\ b[2] # i
  BY DEF BInv, BondsSound
<1> QED
  BY <1>1, <1>2 DEF BondsKept, SameRecord

LEMMA GiveKeeps ==
  ASSUME BInv, NEW c \in Chars, NEW i \in Ids, NEW kind, NEW n,
         GiveItem(c, i, kind, n)
  PROVE  ItemsShaped' /\ BondsKept
<1>0. bonds' \subseteq bonds /\ Shaped(items[i])
  BY DEF GiveItem, BInv, ItemsShaped
<1>1. CASE items[i] = NoItem /\ SetRow(i, HeldBy(c, [NoItem EXCEPT !.kind = kind, !.qty = n]))
  <2> DEFINE new == [NoItem EXCEPT !.kind = kind, !.qty = n]
  <2>1. DOMAIN new = Columns
    BY DEF NoItem, Columns
  <2> HIDE DEF new
  <2>2. Shaped(HeldBy(c, new)) /\ HeldBy(c, new) # NoItem
    BY <2>1, HeldIsShaped
  <2>3. SetRow(i, HeldBy(c, new))
    BY <1>1 DEF new
  <2> QED
    BY <1>0, <1>1, <2>2, <2>3, OneWritten DEF SameRecord
<1>2. CASE /\ Held(c, i)
           /\ items[i].kind # kind => {items[i].kind, kind} \cap PackBound = {}
           /\ items' = [items EXCEPT ![i].kind = kind, ![i].qty = n]
  <2>1. SetRow(i, Renamed(items[i], kind, n)) /\ items[i] # NoItem
    BY <1>2 DEF SetRow, Held, Renamed, BInv, ItemsShaped
  <2>2. /\ Shaped(Renamed(items[i], kind, n)) /\ Renamed(items[i], kind, n) # NoItem
        /\ Renamed(items[i], kind, n).kind = kind
    BY <1>0, <2>1, RenamedShaped
  <2>3. SameRecord(Renamed(items[i], kind, n), items[i])
    BY <1>2, <2>2 DEF SameRecord
  <2> HIDE DEF Renamed
  <2> QED
    BY <1>0, <2>1, <2>2, <2>3, OneWritten
<1> QED
  BY <1>1, <1>2 DEF GiveItem

LEMMA RelinquishKeeps ==
  ASSUME BInv, NEW c \in Chars, NEW i \in Ids, NEW n, NEW fate \in Fates,
         Relinquish(c, i, n, fate), bonds' = bonds
  PROVE  ItemsShaped' /\ BondsKept
<1> DEFINE row == items[i]
           left == Left(row, fate)
           part == [left EXCEPT !.qty = n]
           rest == [row EXCEPT !.qty = row.qty - n]
<1>0. Shaped(row) /\ row # NoItem
  BY DEF Relinquish, Held, BInv, ItemsShaped
<1>1. Shaped(left) /\ left # NoItem /\ left.kind = row.kind
  BY <1>0, LeftShaped
<1>2. CASE SetRow(i, left)
  BY <1>1, <1>2, OneWritten DEF SameRecord
<1>3. CASE /\ n < row.qty /\ FreeParts(i) # {} /\ ~ Bonded(i)
           /\ items' = [items EXCEPT ![i] = rest, ![Parted(i, n)] = part]
  <2> DEFINE j == Parted(i, n)
  <2>1. j \in Ids /\ items[j] = NoItem /\ j # i
    BY <1>0, <1>3, PartIsFree
  <2>2. Shaped(part) /\ part # NoItem /\ Shaped(rest) /\ rest # NoItem
    BY <1>0, <1>1, QtyShaped
  <2> HIDE DEF j, part, rest, left
  <2>3. /\ items' = [k \in Ids |-> IF k = i THEN rest
                                   ELSE IF k = j THEN part ELSE items[k]]
    BY <1>3, <2>1 DEF BInv, ItemsShaped, j
  <2>4. ItemsShaped'
    BY <2>2, <2>3 DEF BInv, ItemsShaped, j
  <2>5. \A b \in bonds' : /\ b[2] \in Ids /\ items[b[2]] # NoItem
                          /\ b[2] # i /\ b[2] # j
    <3>1. \A b \in bonds : b[1] \in Chars /\ b[2] \in Ids /\ items[b[2]] # NoItem
                           /\ b = <<b[1], b[2], b[3]>>
      BY DEF BInv, BondsSound
    <3>2. \A b \in bonds : b[2] # i
      BY <1>3, <3>1 DEF Bonded
    <3> QED
      BY <2>1, <3>1, <3>2
  <2> QED
    BY <2>3, <2>4, <2>5 DEF BondsKept, SameRecord
<1>4. SetRow(i, left)
      \/ /\ n < row.qty /\ FreeParts(i) # {} /\ ~ Bonded(i)
         /\ items' = [items EXCEPT ![i] = rest, ![Parted(i, n)] = part]
  BY DEF Relinquish, Left
<1> QED
  BY <1>2, <1>3, <1>4

LEMMA DestroyKeeps ==
  ASSUME BInv, NEW i \in Ids, NEW c \in Chars, NEW n, DestroyItem(c, i, n)
  PROVE  ItemsShaped' /\ BondsKept
<1>1. CASE SetRow(i, NoItem) /\ bonds' = {b \in bonds : b[2] # i}
  BY <1>1, OneGone
<1>2. CASE /\ items' = [items EXCEPT ![i].qty = @ - n] /\ UNCHANGED bonds
  <2>1. SetRow(i, [items[i] EXCEPT !.qty = items[i].qty - n])
    BY <1>2 DEF SetRow
  <2>2. Shaped(items[i]) /\ items[i] # NoItem
    BY DEF DestroyItem, Held, Lies, BInv, ItemsShaped
  <2> DEFINE rest == [items[i] EXCEPT !.qty = items[i].qty - n]
  <2>3. Shaped(rest) /\ rest # NoItem /\ rest.kind = items[i].kind
    BY <2>2, QtyShaped
  <2> HIDE DEF rest
  <2>4. SetRow(i, rest)
    BY <2>1 DEF rest
  <2> QED
    BY <1>2, <2>3, <2>4, OneWritten DEF SameRecord
<1> QED
  BY <1>1, <1>2 DEF DestroyItem

\* A row changes hands (claim_item, reacquire_item, transfer_item).
LEMMA PassKeeps ==
  ASSUME BInv, NEW i \in Ids, NEW c \in Chars, items[i] # NoItem,
         SetRow(i, HeldBy(c, items[i])), bonds' \subseteq bonds
  PROVE  ItemsShaped' /\ BondsKept
<1>1. DOMAIN items[i] = Columns
  BY DEF BInv, ItemsShaped, Shaped
<1>2. /\ Shaped(HeldBy(c, items[i])) /\ HeldBy(c, items[i]) # NoItem
      /\ HeldBy(c, items[i]).kind = items[i].kind
  BY <1>1, HeldIsShaped
<1> QED
  BY <1>2, OneWritten DEF SameRecord

LEMMA WearKeeps ==
  ASSUME BInv, NEW i \in Ids, NEW c \in Chars, NEW w, Held(c, i),
         items' = [items EXCEPT ![i].worn = w], bonds' = bonds
  PROVE  ItemsShaped' /\ BondsKept
<1>1. Shaped(items[i]) /\ items[i] # NoItem
  BY DEF Held, BInv, ItemsShaped
<1>2. SetRow(i, WornIs(items[i], w))
  BY DEF SetRow, WornIs
<1>3. /\ Shaped(WornIs(items[i], w)) /\ WornIs(items[i], w) # NoItem
      /\ WornIs(items[i], w).kind = items[i].kind
  BY <1>1, WornShaped
<1> QED
  BY <1>2, <1>3, OneWritten DEF SameRecord

\* Every row a recovery does not destroy is the row it was, or that row held
\* by its archer, and no bond to one it destroys is left.
LEMMA AmmunitionKeeps ==
  ASSUME BInv, NEW c \in Chars, NEW f, RecoverAmmunition(c, f)
  PROVE  ItemsShaped' /\ BondsKept
<1> DEFINE mine == {k \in Open : shots[k].who = c /\ shots[k].fight = f}
           alike(k) == {m \in mine : shots[m].kind = shots[k].kind}
           half(k) == MapThenSumSet(LAMBDA m : shots[m].qty, alike(k)) \div 2
           before(k) == MapThenSumSet(StillThere, {m \in alike(k) : m < k})
           take(k) == IF before(k) < half(k)
                      THEN Min({StillThere(k), half(k) - before(k)}) ELSE 0
           found == {k \in mine : StillThere(k) > 0}
           shot(i) == CHOOSE k \in found : shots[k].item = i
           lost == {shots[k].item : k \in {m \in found : take(m) = 0}}
           back(i) == HeldBy(c, [items[i] EXCEPT !.qty = take(shot(i))])
<1>1. /\ items' = [i \in Ids |->
                      IF i \in lost THEN NoItem
                      ELSE IF \E k \in found : shots[k].item = i
                      THEN back(i) ELSE items[i]]
      /\ bonds' = {b \in bonds : b[2] \notin lost}
  BY DEF RecoverAmmunition
<1>2. ASSUME NEW i \in Ids
      PROVE  Shaped(back(i)) /\ back(i) # NoItem /\ back(i).kind = items[i].kind
  <2> DEFINE n == take(shot(i))
             r == [items[i] EXCEPT !.qty = n]
  <2> HIDE DEF n
  <2>1. DOMAIN r = Columns /\ r.kind = items[i].kind
    BY DEF BInv, ItemsShaped, Shaped, Columns
  <2> HIDE DEF r
  <2>2. Shaped(HeldBy(c, r)) /\ HeldBy(c, r) # NoItem /\ HeldBy(c, r).kind = r.kind
    BY <2>1, HeldIsShaped
  <2> QED
    BY <2>1, <2>2 DEF r, n
<1> HIDE DEF found, lost, back
<1>3. ItemsShaped'
  BY <1>1, <1>2, NoItemIsShaped DEF BInv, ItemsShaped
<1>4. \A b \in bonds' : b[2] \in Ids /\ items[b[2]] # NoItem /\ b[2] \notin lost
  BY <1>1 DEF BInv, BondsSound
<1>5. \A b \in bonds' : /\ items'[b[2]] # NoItem
                        /\ items'[b[2]].kind = items[b[2]].kind
  BY <1>1, <1>2, <1>4
<1> QED
  BY <1>1, <1>3, <1>5 DEF BondsKept, SameRecord

-----------------------------------------------------------------------------
\* A new bond: its holder is alive, has a slot and no bond to such a thing.
LEMMA AttuneKeeps ==
  ASSUME BInv, NEW c \in Chars, NEW i \in Ids, NEW key \in Kinds,
         AttuneItem(c, i, key), Dead' = Dead
  PROVE  BInv'
<1>1. /\ bonds' = bonds \cup {<<c, i, key>>} /\ items' = items /\ cursed' = cursed
      /\ c \notin Dead /\ items[i] # NoItem
      /\ items[i].kind \in PackBound => key = items[i].kind
      /\ \A b \in bonds : b[1] = c => b[3] # key
      /\ Cardinality(BondsOf(c)) < AttunementSlots
      /\ \A b \in bonds : b[2] # i
  BY DEF AttuneItem, BondsOf, Held, Bonded, Keys
<1>2. bonds' \subseteq Chars \X Ids \X Kinds /\ IsFiniteSet(bonds')
  <2>1. IsFiniteSet(bonds \cup {<<c, i, key>>})
    BY FS_AddElement DEF BInv
  <2>2. bonds \cup {<<c, i, key>>} \subseteq Chars \X Ids \X Kinds
    BY DEF BInv
  <2> QED
    BY <1>1, <2>1, <2>2
<1>3. ItemsShaped' /\ cursed' \subseteq Chars \X Clinging
  BY <1>1 DEF BInv, ItemsShaped
<1>4. \A b \in bonds' :
        /\ items'[b[2]] # NoItem /\ b[1] \notin Dead'
        /\ items'[b[2]].kind \in PackBound => b[3] = items'[b[2]].kind
  <2>1. \A b \in bonds :
          /\ items[b[2]] # NoItem /\ b[1] \notin Dead
          /\ items[b[2]].kind \in PackBound => b[3] = items[b[2]].kind
    BY DEF BInv, BondsSound
  <2>2. items' = items /\ Dead' = Dead /\ c \notin Dead /\ items[i] # NoItem
    BY <1>1
  <2> QED
    BY <1>1, <2>1, <2>2
<1>5. \A a, b \in bonds' : a # b =>
        /\ a[2] # b[2]
        /\ a[1] = b[1] => a[3] # b[3]
  BY <1>1 DEF BInv, BondsSound
<1>6. ASSUME NEW d \in Chars
      PROVE  Cardinality(BondsOf(d)') <= AttunementSlots
  <2>0. IsFiniteSet(BondsOf(d)) /\ Cardinality(BondsOf(d)) \in Nat
    BY FS_Subset, FS_CardinalityType DEF BInv, BondsOf
  <2>1. CASE d = c
    <3>1. BondsOf(d)' = BondsOf(d) \cup {<<c, i, key>>}
      BY <1>1, <2>1 DEF BondsOf
    <3>2. Cardinality(BondsOf(d) \cup {<<c, i, key>>}) <= Cardinality(BondsOf(d)) + 1
      <4> DEFINE x == <<c, i, key>>
                 S == BondsOf(d)
      <4> HIDE DEF x, S
      <4>1. /\ x \notin S => Cardinality(S \cup {x}) = Cardinality(S) + 1
            /\ x \in S => S \cup {x} = S
        BY <2>0, FS_AddElement DEF S
      <4>2. Cardinality(S) \in Nat
        BY <2>0 DEF S
      <4>3. Cardinality(S \cup {x}) <= Cardinality(S) + 1
        BY <4>1, <4>2
      <4> QED
        BY <4>3 DEF x, S
    <3>3. Cardinality(BondsOf(d) \cup {<<c, i, key>>}) \in Nat
      BY <2>0, FS_AddElement, FS_CardinalityType
    <3> QED
      BY <1>1, <2>0, <2>1, <3>1, <3>2, <3>3, ItemNames
  <2>2. CASE d # c
    <3>1. BondsOf(d)' = BondsOf(d)
      BY <1>1, <2>2 DEF BondsOf
    <3> QED
      BY <3>1 DEF BInv, BondsSound
  <2> QED
    BY <2>1, <2>2
<1>7. BondsSound'
  BY <1>4, <1>5, <1>6 DEF BondsSound
<1> QED
  BY <1>2, <1>3, <1>7 DEF BInv

LEMMA BInit == JourneyInit => BInv
<1> SUFFICES ASSUME JourneyInit
             PROVE  BInv
  OBVIOUS
<1>1. /\ items = [i \in Ids |-> NoItem] /\ bonds = {} /\ cursed = {}
  BY DEF JourneyInit, ItemsInit
<1>2. ItemsShaped
  BY <1>1, NoItemIsShaped DEF ItemsShaped
<1>3. BondsSound
  <2>1. ASSUME NEW c \in Chars
        PROVE  Cardinality(BondsOf(c)) <= AttunementSlots
    <3>1. BondsOf(c) = {}
      BY <1>1 DEF BondsOf
    <3> QED
      BY <3>1, FS_EmptySet, ItemNames
  <2> QED
    BY <1>1, <2>1 DEF BondsSound
<1> QED
  BY <1>1, <1>2, <1>3, FS_EmptySet DEF BInv

\* What the game does without the things: it may bury the hero.
LEMMA MournKeeps == BInv /\ Mourn => BInv'
<1> SUFFICES ASSUME BInv, Mourn
             PROVE  BInv'
  OBVIOUS
<1>1. bonds' \subseteq bonds /\ items' = items /\ cursed' = cursed
  BY DEF Mourn
<1>2. \A b \in bonds' : b[1] \notin Dead'
  BY DEF Mourn, Dead
<1>3. ItemsShaped' /\ BondsKept
  BY <1>1, NoneWritten
<1> QED
  BY <1>1, <1>2, <1>3, Fewer DEF BInv

LEMMA ItemsKeep == BInv /\ ItemsNext /\ UNCHANGED vars => BInv'
<1> SUFFICES ASSUME BInv, ItemsNext, UNCHANGED vars
             PROVE  BInv'
  OBVIOUS
<1>0. Dead' = Dead
  BY DEF vars, Dead
<1>1. ASSUME ItemsShaped', BondsKept, cursed' \subseteq Chars \X Clinging
      PROVE  BInv'
  <2>1. \A b \in bonds' : b[1] \notin Dead'
    BY <1>0, <1>1 DEF BondsKept, BInv, BondsSound
  <2> QED
    BY <1>1, <2>1, Fewer
<1>2. cursed' \subseteq cursed => cursed' \subseteq Chars \X Clinging
  BY DEF BInv
<1>3. CASE \E c \in Chars, i \in Ids : \E n \in 1 .. MaxQty :
             \E kind \in Kinds : GiveItem(c, i, kind, n)
  BY <1>1, <1>2, <1>3, GiveKeeps DEF GiveItem
<1>4. CASE \E c \in Chars, i \in Ids : \E n \in 1 .. MaxQty :
             \E fate \in Fates : RemoveItem(c, i, n, fate)
  <2>1. PICK c \in Chars, i \in Ids, n \in 1 .. MaxQty, fate \in Fates :
               RemoveItem(c, i, n, fate)
    BY <1>4
  <2>2. Relinquish(c, i, n, fate) /\ bonds' = bonds /\ cursed' = cursed
    BY <2>1 DEF RemoveItem
  <2> QED
    BY <1>1, <1>2, <2>2, RelinquishKeeps
<1>5. CASE \E c \in Chars, i \in Ids : \E n \in 1 .. MaxQty : DestroyItem(c, i, n)
  BY <1>1, <1>2, <1>5, DestroyKeeps DEF DestroyItem
<1>6. CASE \E c \in Chars, i \in Ids : \E n \in 1 .. MaxQty :
             ExpendAmmunition(c, i, n)
  <2>1. PICK c \in Chars, i \in Ids, n \in 1 .. MaxQty : ExpendAmmunition(c, i, n)
    BY <1>6
  <2>2. Relinquish(c, i, n, "dropped") /\ bonds' = bonds /\ cursed' = cursed
    BY <2>1 DEF ExpendAmmunition
  <2>3. "dropped" \in Fates
    BY DEF Fates
  <2> QED
    BY <1>1, <1>2, <2>2, <2>3, RelinquishKeeps
<1>7. CASE \E c \in Chars, i \in Ids : ClaimItem(c, i) \/ ReacquireItem(c, i)
  <2>1. PICK c \in Chars, i \in Ids : ClaimItem(c, i) \/ ReacquireItem(c, i)
    BY <1>7
  <2>2. /\ items[i] # NoItem /\ SetRow(i, HeldBy(c, items[i]))
        /\ bonds' = bonds /\ cursed' = cursed
    BY <2>1 DEF ClaimItem, ReacquireItem, Lies
  <2> QED
    BY <1>1, <1>2, <2>2, PassKeeps
<1>8. CASE \E c \in Chars, i \in Ids : \E d \in Chars,
             policy \in {"end", "require-unattuned"} : TransferItem(c, d, i, policy)
  <2>1. PICK c \in Chars, i \in Ids, d \in Chars,
             policy \in {"end", "require-unattuned"} : TransferItem(c, d, i, policy)
    BY <1>8
  <2>2. /\ items[i] # NoItem /\ SetRow(i, HeldBy(d, items[i]))
        /\ bonds' \subseteq bonds /\ cursed' = cursed
    BY <2>1 DEF TransferItem, Held
  <2> QED
    BY <1>1, <1>2, <2>2, PassKeeps
<1>9. CASE \E c \in Chars, i \in Ids : DonItem(c, i) \/ DoffItem(c, i)
  <2>1. PICK c \in Chars, i \in Ids : DonItem(c, i) \/ DoffItem(c, i)
    BY <1>9
  <2>2. CASE DonItem(c, i)
    <3>1. cursed' \subseteq Chars \X Clinging
      BY <2>2 DEF DonItem, BInv
    <3>2. Held(c, i) /\ items' = [items EXCEPT ![i].worn = TRUE] /\ bonds' = bonds
      BY <2>2 DEF DonItem
    <3> QED
      BY <1>1, <3>1, <3>2, WearKeeps
  <2>3. CASE DoffItem(c, i)
    <3>1. Held(c, i) /\ items' = [items EXCEPT ![i].worn = FALSE] /\ bonds' = bonds
          /\ cursed' = cursed
      BY <2>3 DEF DoffItem
    <3> QED
      BY <1>1, <1>2, <3>1, WearKeeps
  <2> QED
    BY <2>1, <2>2, <2>3
<1>10. CASE \E c \in Chars, i \in Ids : \E key \in Kinds : AttuneItem(c, i, key)
  BY <1>0, <1>10, AttuneKeeps
<1>11. CASE \/ \E c \in Chars, i \in Ids : EndAttunement(c, i)
            \/ \E c \in Chars, kind \in Clinging : RemoveCurse(c, kind)
            \/ \E p \in Places \cup {Nowhere} : UpdateLocation(p)
  <2>1. items' = items /\ bonds' \subseteq bonds /\ cursed' \subseteq cursed
    BY <1>11 DEF EndAttunement, RemoveCurse, UpdateLocation
  <2> QED
    BY <1>1, <1>2, <2>1, NoneWritten
<1>12. CASE \E c \in Chars, f \in 1 .. fights : RecoverAmmunition(c, f)
  <2>1. PICK c \in Chars, f \in 1 .. fights : RecoverAmmunition(c, f)
    BY <1>12
  <2>2. cursed' = cursed
    BY <2>1 DEF RecoverAmmunition
  <2> QED
    BY <1>1, <1>2, <2>1, <2>2, AmmunitionKeeps
<1> QED
  BY <1>3, <1>4, <1>5, <1>6, <1>7, <1>8, <1>9, <1>10, <1>11, <1>12 DEF ItemsNext

LEMMA BStep == BInv /\ [JourneyNext]_journeyVars => BInv'
<1>1. BInv /\ UNCHANGED journeyVars => BInv'
  BY DEF BInv, BondsSound, ItemsShaped, Dead, BondsOf, journeyVars, itemVars, vars
<1> QED
  BY <1>1, MournKeeps, ItemsKeep DEF JourneyNext

-----------------------------------------------------------------------------
\* The record of shots: what is in it, and what is open of it.
LEMMA ShotsTyped ==
  ASSUME ItemsTypeOK
  PROVE  /\ DOMAIN shots = 1 .. Len(shots) /\ Len(shots) \in Nat
         /\ \A k \in DOMAIN shots : shots[k] \in Shots
         /\ Open \subseteq DOMAIN shots
         /\ \A k \in Open : /\ shots[k].item \in Ids /\ shots[k].qty \in 1 .. MaxQty
                            /\ shots[k].open = TRUE
<1>1. shots \in Seq(Shots)
  BY DEF ItemsTypeOK
<1>2. /\ DOMAIN shots = 1 .. Len(shots) /\ Len(shots) \in Nat
      /\ \A k \in DOMAIN shots : shots[k] \in Shots
  BY <1>1
<1>3. \A k \in Open : k \in DOMAIN shots /\ shots[k].open
  BY DEF Open
<1> QED
  BY <1>2, <1>3 DEF Shots

\* What an open expenditure asks of the row it names, and no two of them name
\* the same.
Accounts(row, shot) ==
  /\ row.holder = Nobody /\ row.fate = "dropped"
  /\ row.kind = shot.kind /\ row.at = shot.at /\ row.qty <= shot.qty

ShotsDistinct == \A k, m \in Open : shots[k].item = shots[m].item => k = m

Stocked == ItemsTypeOK /\ ShotsDistinct /\ ShotsAccounted
TimeKept == TypeOK /\ WithinTime

\* A row may be what it was, gone, another under its id, or no less in order.
Stands(k) ==
  LET i == shots[k].item
  IN \/ items'[i] = items[i] \/ items'[i] = NoItem \/ i \in reissued'
     \/ /\ items[i] # NoItem
        /\ Accounts(items[i], shots[k]) => Accounts(items'[i], shots[k])

LEMMA AccountsKept ==
  ASSUME ShotsAccounted, reissued \subseteq reissued',
         \A k \in Open' : \/ Accounts(items'[shots'[k].item], shots'[k])
                          \/ k \in Open /\ shots'[k] = shots[k] /\ Stands(k)
  PROVE  ShotsAccounted'
<1> SUFFICES ASSUME NEW k \in Open', items'[shots'[k].item] # NoItem,
                    shots'[k].item \notin reissued'
             PROVE  Accounts(items'[shots'[k].item], shots'[k])
  BY DEF ShotsAccounted, Accounts
<1>1. CASE k \in Open /\ shots'[k] = shots[k] /\ Stands(k)
  <2>1. items[shots[k].item] # NoItem => Accounts(items[shots[k].item], shots[k])
    BY <1>1 DEF ShotsAccounted, Accounts
  <2> QED
    BY <1>1, <2>1 DEF Stands
<1> QED
  BY <1>1

\* No call but an expenditure and a recovery writes to the record of shots.
LEMMA StockKept ==
  ASSUME Stocked, shots' = shots, reissued \subseteq reissued', reissued' \subseteq Ids,
         items' \in [Ids -> ItemRows \cup {NoItem}],
         bonds' \subseteq Chars \X Ids \X Kinds, cursed' \subseteq Chars \X Clinging,
         place' \in Places \cup {Nowhere},
         \A k \in Open : Stands(k)
  PROVE  Stocked'
<1>1. Open' = Open
  BY DEF Open
<1>2. ShotsAccounted'
  BY <1>1, AccountsKept DEF Stocked
<1>3. ItemsTypeOK' /\ ShotsDistinct'
  BY <1>1 DEF Stocked, ItemsTypeOK, ShotsDistinct
<1> QED
  BY <1>2, <1>3 DEF Stocked

\* One row written.
LEMMA OneStocked ==
  ASSUME Stocked, shots' = shots, NEW i \in Ids, NEW row \in ItemRows \cup {NoItem},
         SetRow(i, row), reissued \subseteq reissued', reissued' \subseteq Ids,
         bonds' \subseteq Chars \X Ids \X Kinds, cursed' \subseteq Chars \X Clinging,
         place' \in Places \cup {Nowhere},
         \A k \in Open : shots[k].item = i =>
           \/ row = NoItem \/ i \in reissued'
           \/ /\ items[i] # NoItem
              /\ Accounts(items[i], shots[k]) => Accounts(row, shots[k])
  PROVE  Stocked'
<1>1. /\ items' \in [Ids -> ItemRows \cup {NoItem}] /\ items'[i] = row
      /\ \A j \in Ids : j # i => items'[j] = items[j]
  BY DEF SetRow, Stocked, ItemsTypeOK
<1>2. ASSUME NEW k \in Open
      PROVE  Stands(k)
  <2>1. shots[k].item \in Ids
    BY ShotsTyped DEF Stocked
  <2> QED
    BY <1>1, <2>1 DEF Stands
<1> QED
  BY <1>1, <1>2, StockKept

\* What somebody holds is reserved by no expenditure that still knows it.
LEMMA HeldIsFree ==
  ASSUME NEW c \in Chars, NEW i, Held(c, i), NEW shot
  PROVE  items[i] # NoItem /\ ~ Accounts(items[i], shot)
  BY ItemNames DEF Held, Accounts

LEMMA RowTypes ==
  ASSUME NEW r \in ItemRows
  PROVE  /\ r \in [kind : Kinds, qty : 1 .. MaxQty, holder : Chars \cup {Nobody},
                   worn : BOOLEAN, at : Places \cup {Nowhere},
                   fate : Fates \cup {"none"}]
         /\ r # NoItem
<1>1. NoItem.holder = Nobody /\ NoItem.at = Nowhere
  BY DEF NoItem
<1>2. r.holder # Nobody \/ r.at # Nowhere
  BY ItemNames DEF ItemRows
<1>3. r # NoItem
  BY <1>1, <1>2
<1> QED
  BY <1>3 DEF ItemRows

Broad == [kind : Kinds, qty : Int, holder : Chars \cup {Nobody}, worn : BOOLEAN,
          at : Places \cup {Nowhere}, fate : Fates \cup {"none"}]

\* Rows as the calls make them of one that is there.
LEMMA HeldTyped ==
  ASSUME NEW r \in Broad, r.qty \in 1 .. MaxQty, NEW c \in Chars
  PROVE  HeldBy(c, r) \in ItemRows
<1> DEFINE a == [r EXCEPT !.holder = c]
           b == [a EXCEPT !.worn = FALSE]
           d == [b EXCEPT !.at = Nowhere]
           w == [d EXCEPT !.fate = "none"]
<1>1. a \in Broad /\ a.holder = c /\ a.qty = r.qty
  BY DEF Broad
<1> HIDE DEF a
<1>2. b \in Broad /\ b.holder = c /\ b.qty = r.qty /\ b.worn = FALSE
  BY <1>1 DEF Broad
<1> HIDE DEF b
<1>3. d \in Broad /\ d.holder = c /\ d.qty = r.qty /\ d.worn = FALSE /\ d.at = Nowhere
  BY <1>2 DEF Broad
<1> HIDE DEF d
<1>4. w \in [kind : Kinds, qty : 1 .. MaxQty, holder : Chars, worn : BOOLEAN,
             at : {Nowhere}, fate : {"none"}]
  BY <1>3 DEF Broad
<1>5. HeldBy(c, r) = w
  BY DEF HeldBy, a, b, d
<1> QED
  BY <1>4, <1>5 DEF ItemRows

LEMMA LeftTyped ==
  ASSUME NEW r \in Broad, r.qty \in 1 .. MaxQty, NEW fate \in Fates, place \in Places
  PROVE  /\ Left(r, fate) \in ItemRows
         /\ Left(r, fate).holder = Nobody /\ Left(r, fate).fate = fate
         /\ Left(r, fate).kind = r.kind /\ Left(r, fate).at = place
         /\ Left(r, fate).qty = r.qty
<1> DEFINE a == [r EXCEPT !.holder = Nobody]
           b == [a EXCEPT !.worn = FALSE]
           d == [b EXCEPT !.at = place]
           w == [d EXCEPT !.fate = fate]
<1>1. a \in Broad /\ a.holder = Nobody /\ a.qty = r.qty /\ a.kind = r.kind
  BY DEF Broad
<1> HIDE DEF a
<1>2. /\ b \in Broad /\ b.holder = Nobody /\ b.qty = r.qty /\ b.worn = FALSE
      /\ b.kind = r.kind
  BY <1>1 DEF Broad
<1> HIDE DEF b
<1>3. /\ d \in Broad /\ d.holder = Nobody /\ d.qty = r.qty /\ d.worn = FALSE
      /\ d.at = place /\ d.kind = r.kind
  BY <1>2 DEF Broad
<1> HIDE DEF d
<1>4. /\ w \in [kind : Kinds, qty : 1 .. MaxQty, holder : {Nobody}, worn : {FALSE},
                at : Places, fate : Fates]
      /\ w.holder = Nobody /\ w.fate = fate /\ w.kind = r.kind /\ w.at = place
      /\ w.qty = r.qty
  BY <1>3 DEF Broad
<1>5. Left(r, fate) = w
  BY DEF Left, a, b, d
<1> HIDE DEF w
<1> QED
  BY <1>4, <1>5 DEF ItemRows

LEMMA QtyTyped ==
  ASSUME NEW r \in ItemRows, NEW n \in 1 .. MaxQty
  PROVE  /\ [r EXCEPT !.qty = n] \in ItemRows
         /\ [r EXCEPT !.qty = n].holder = r.holder
         /\ [r EXCEPT !.qty = n].kind = r.kind /\ [r EXCEPT !.qty = n].at = r.at
         /\ [r EXCEPT !.qty = n].fate = r.fate /\ [r EXCEPT !.qty = n].qty = n
  BY DEF ItemRows

LEMMA WornTyped ==
  ASSUME NEW r \in ItemRows, r.holder \in Chars, NEW w \in BOOLEAN
  PROVE  [r EXCEPT !.worn = w] \in ItemRows
  BY ItemNames DEF ItemRows

LEMMA RowsAreBroad ==
  ASSUME NEW r \in ItemRows
  PROVE  r \in Broad /\ r.qty \in 1 .. MaxQty
  BY RowTypes, ItemNames DEF Broad

-----------------------------------------------------------------------------
\* give_item: an id that is open is reissued; a name and a quantity are written
\* only over those of a row somebody holds.
LEMMA GiveStocked ==
  ASSUME Stocked, NEW c \in Chars, NEW i \in Ids, NEW kind \in Kinds,
         NEW n \in 1 .. MaxQty, GiveItem(c, i, kind, n)
  PROVE  Stocked'
<1>0. /\ shots' = shots /\ bonds' = bonds /\ cursed' = cursed /\ place' = place
      /\ bonds \subseteq Chars \X Ids \X Kinds /\ cursed \subseteq Chars \X Clinging
      /\ place \in Places \cup {Nowhere} /\ reissued \subseteq Ids
      /\ items[i] \in ItemRows \cup {NoItem}
  BY DEF GiveItem, Stocked, ItemsTypeOK
<1>1. CASE /\ items[i] = NoItem /\ NewRow(i)
           /\ SetRow(i, HeldBy(c, [NoItem EXCEPT !.kind = kind, !.qty = n]))
  <2> DEFINE a == [NoItem EXCEPT !.kind = kind]
             r == [a EXCEPT !.qty = n]
             row == HeldBy(c, r)
  <2>0. NoItem \in [kind : {"none"}, qty : Int, holder : {Nobody}, worn : BOOLEAN,
                    at : {Nowhere}, fate : {"none"}]
    BY DEF NoItem
  <2>1. a \in [kind : Kinds, qty : Int, holder : {Nobody}, worn : BOOLEAN,
               at : {Nowhere}, fate : {"none"}]
    BY <2>0
  <2> HIDE DEF a
  <2>2. n \in Int
    BY ItemNames
  <2>3. r \in Broad /\ r.qty = n
    BY <2>1, <2>2 DEF Broad
  <2> HIDE DEF r
  <2>4. row \in ItemRows
    BY <2>3, HeldTyped
  <2>5. SetRow(i, row)
    BY <1>1 DEF row, r, a
  <2>6. \A k \in Open : shots[k].item = i => i \in reissued'
    BY <1>1 DEF NewRow, Reserved
  <2>7. reissued \subseteq reissued' /\ reissued' \subseteq Ids
    BY <1>0, <1>1 DEF NewRow
  <2> HIDE DEF row
  <2> QED
    BY <1>0, <2>4, <2>5, <2>6, <2>7, OneStocked
<1>2. CASE /\ Held(c, i) /\ UNCHANGED reissued
           /\ items' = [items EXCEPT ![i].kind = kind, ![i].qty = n]
  <2> DEFINE row == Renamed(items[i], kind, n)
  <2>1. items[i] \in ItemRows /\ items \in [Ids -> ItemRows \cup {NoItem}]
    BY <1>0, <1>2 DEF Held, Stocked, ItemsTypeOK
  <2>2. row \in ItemRows
    BY <2>1 DEF Renamed, ItemRows
  <2>3. SetRow(i, row)
    BY <1>2, <2>1 DEF SetRow, Renamed
  <2> HIDE DEF row
  <2>4. \A k \in Open : items[i] # NoItem /\ ~ Accounts(items[i], shots[k])
    BY <1>2, HeldIsFree
  <2>5. reissued' = reissued
    BY <1>2
  <2> QED
    BY <1>0, <2>2, <2>3, <2>4, <2>5, OneStocked
<1> QED
  BY <1>1, <1>2 DEF GiveItem

\* A part or the whole of what somebody holds is left where the campaign is.
LEMMA LeaveFacts ==
  ASSUME ItemsTypeOK, NEW c \in Chars, NEW i \in Ids, NEW n \in 1 .. MaxQty,
         NEW fate \in Fates, Relinquish(c, i, n, fate)
  PROVE  LET j == Parted(i, n) IN
         /\ j \in Ids /\ items' \in [Ids -> ItemRows \cup {NoItem}]
         /\ reissued \subseteq reissued' /\ reissued' \subseteq Ids
         /\ items'[j].holder = Nobody /\ items'[j].fate = fate
         /\ items'[j].kind = items[i].kind /\ items'[j].at = place
         /\ n <= items[i].qty => items'[j].qty = n
         /\ j = i \/ (items[j] = NoItem /\ reissued' = reissued \cup {x \in {j} : Reserved(j)})
         /\ \A x \in Ids : x \notin {i, j} => items'[x] = items[x]
         /\ Held(c, i)
<1> DEFINE row == items[i]
           left == Left(row, fate)
           j == Parted(i, n)
<1>1. /\ Held(c, i) /\ place \in Places /\ row \in ItemRows
      /\ items \in [Ids -> ItemRows \cup {NoItem}] /\ reissued \subseteq Ids
  BY DEF Relinquish, Held, ItemsTypeOK
<1>2. row \in Broad /\ row.qty \in 1 .. MaxQty /\ n \in Nat /\ row.qty \in Nat
  BY <1>1, RowsAreBroad, ItemNames
<1>3. /\ left \in ItemRows /\ left.holder = Nobody /\ left.fate = fate
      /\ left.kind = row.kind /\ left.at = place /\ left.qty = row.qty
  BY <1>1, <1>2, LeftTyped
<1>4. CASE n >= row.qty /\ SetRow(i, left) /\ UNCHANGED reissued
  <2>1. j = i
    BY <1>2, <1>4 DEF Parted
  <2> HIDE DEF left, row, j
  <2>2. /\ items' \in [Ids -> ItemRows \cup {NoItem}] /\ items'[i] = left
        /\ \A x \in Ids : x # i => items'[x] = items[x]
    BY <1>1, <1>3, <1>4 DEF SetRow
  <2>3. n <= row.qty => left.qty = n
    BY <1>2, <1>3, <1>4
  <2>4. reissued' = reissued
    BY <1>4
  <2> QED
    BY <1>1, <1>3, <2>1, <2>2, <2>3, <2>4 DEF j, row
<1>5. CASE /\ n < row.qty /\ FreeParts(i) # {}
           /\ items' = [items EXCEPT ![i].qty = @ - n, ![j] = [left EXCEPT !.qty = n]]
           /\ NewRow(j)
  <2> DEFINE rest == [row EXCEPT !.qty = row.qty - n]
             part == [left EXCEPT !.qty = n]
  <2>1. row.qty - n \in 1 .. MaxQty
    BY <1>2, <1>5, ItemNames
  <2>2. rest \in ItemRows
    BY <1>1, <2>1, QtyTyped
  <2>3. /\ part \in ItemRows /\ part.holder = Nobody /\ part.fate = fate
        /\ part.kind = row.kind /\ part.at = place /\ part.qty = n
    BY <1>3, QtyTyped
  <2>4. j \in Ids /\ items[j] = NoItem
    BY <1>5, PartIsFree
  <2>5. j # i
    BY <1>1, <2>4 DEF Held
  <2>6. items' = [items EXCEPT ![i] = rest, ![j] = part]
    BY <1>5
  <2>7. reissued' = reissued \cup {x \in {j} : Reserved(j)}
    BY <1>5 DEF NewRow
  <2> HIDE DEF left, row, j, rest, part
  <2>8. /\ items' \in [Ids -> ItemRows \cup {NoItem}] /\ items'[j] = part
        /\ \A x \in Ids : x \notin {i, j} => items'[x] = items[x]
    BY <1>1, <2>2, <2>3, <2>4, <2>5, <2>6
  <2>9. reissued \subseteq reissued' /\ reissued' \subseteq Ids
    BY <1>1, <2>4, <2>7
  <2> QED
    BY <1>1, <2>3, <2>4, <2>7, <2>8, <2>9 DEF j, row
<1>6. \/ n >= row.qty /\ SetRow(i, left) /\ UNCHANGED reissued
      \/ /\ n < row.qty /\ FreeParts(i) # {}
         /\ items' = [items EXCEPT ![i].qty = @ - n, ![j] = [left EXCEPT !.qty = n]]
         /\ NewRow(j)
  BY DEF Relinquish, Left
<1> QED
  BY <1>4, <1>5, <1>6

\* Whatever is left behind, the open expenditures stand.
LEMMA LeaveStands ==
  ASSUME ItemsTypeOK, NEW c \in Chars, NEW i \in Ids, NEW n \in 1 .. MaxQty,
         NEW fate \in Fates, Relinquish(c, i, n, fate), NEW k \in Open
  PROVE  Stands(k)
<1> DEFINE j == Parted(i, n)
<1>1. /\ j = i \/ (items[j] = NoItem /\ reissued' = reissued \cup {x \in {j} : Reserved(j)})
      /\ \A x \in Ids : x \notin {i, j} => items'[x] = items[x]
      /\ Held(c, i)
  BY LeaveFacts
<1> HIDE DEF j
<1>2. shots[k].item \in Ids
  BY ShotsTyped
<1>3. items[i] # NoItem /\ ~ Accounts(items[i], shots[k])
  BY <1>1, HeldIsFree
<1>4. CASE shots[k].item = i
  BY <1>3, <1>4 DEF Stands
<1>5. CASE shots[k].item = j /\ j # i
  <2>1. j \in reissued'
    BY <1>1, <1>5 DEF Reserved
  <2> QED
    BY <1>5, <2>1 DEF Stands
<1>6. CASE shots[k].item \notin {i, j}
  BY <1>1, <1>2, <1>6 DEF Stands
<1> QED
  BY <1>4, <1>5, <1>6

LEMMA RemoveStocked ==
  ASSUME Stocked, NEW c \in Chars, NEW i \in Ids, NEW n \in 1 .. MaxQty,
         NEW fate \in Fates, RemoveItem(c, i, n, fate)
  PROVE  Stocked'
<1>1. /\ Relinquish(c, i, n, fate) /\ shots' = shots /\ bonds' = bonds
      /\ cursed' = cursed /\ place' = place /\ ItemsTypeOK
  BY DEF RemoveItem, Stocked
<1>2. /\ items' \in [Ids -> ItemRows \cup {NoItem}]
      /\ reissued \subseteq reissued' /\ reissued' \subseteq Ids
  BY <1>1, LeaveFacts
<1>3. \A k \in Open : Stands(k)
  BY <1>1, LeaveStands
<1>4. /\ bonds \subseteq Chars \X Ids \X Kinds /\ cursed \subseteq Chars \X Clinging
      /\ place \in Places \cup {Nowhere}
  BY <1>1 DEF ItemsTypeOK
<1> QED
  BY <1>1, <1>2, <1>3, <1>4, StockKept

\* A shot is what it was shot of, and no other open shot is that row.
LEMMA ExpendStocked ==
  ASSUME Stocked, TimeKept, NEW c \in Chars, NEW i \in Ids, NEW n \in 1 .. MaxQty,
         ExpendAmmunition(c, i, n)
  PROVE  Stocked'
<1> DEFINE j == Parted(i, n)
           shot == [fight |-> fights, who |-> c, item |-> j, kind |-> items[i].kind,
                    qty |-> n, at |-> place, open |-> TRUE]
<1>1. /\ Relinquish(c, i, n, "dropped") /\ "dropped" \in Fates /\ ItemsTypeOK
      /\ fighting /\ n <= items[i].qty /\ Len(shots) < MaxShots /\ ~ Reserved(j)
      /\ shots' = Append(shots, shot)
      /\ bonds' = bonds /\ cursed' = cursed /\ place' = place
  BY DEF ExpendAmmunition, Stocked, Fates
<1>2. /\ j \in Ids /\ items' \in [Ids -> ItemRows \cup {NoItem}]
      /\ reissued \subseteq reissued' /\ reissued' \subseteq Ids
      /\ items'[j].holder = Nobody /\ items'[j].fate = "dropped"
      /\ items'[j].kind = items[i].kind /\ items'[j].at = place
      /\ items'[j].qty = n /\ Held(c, i)
  BY <1>1, LeaveFacts
<1>3. \A k \in Open : Stands(k)
  BY <1>1, LeaveStands
<1>4. /\ DOMAIN shots = 1 .. Len(shots) /\ Len(shots) \in Nat
      /\ Open \subseteq DOMAIN shots
      /\ \A k \in Open : shots[k].open = TRUE
  BY <1>1, ShotsTyped
<1>5. /\ items[i] \in ItemRows /\ items[i].kind \in Kinds /\ place \in Places
      /\ n \in Int /\ items'[j].qty <= n
  <2>1. items[i] \in ItemRows
    BY <1>1, <1>2 DEF Held, ItemsTypeOK
  <2>2. items[i].kind \in Kinds
    BY <2>1, RowTypes
  <2>3. place \in Places
    BY <1>1 DEF Relinquish, ItemsTypeOK
  <2> QED
    BY <1>2, <2>1, <2>2, <2>3, ItemNames
<1>6. fights \in 1 .. MaxFights
  BY <1>1, ClockBounds DEF TimeKept, TypeOK, ClockTypeOK, WithinTime
<1> HIDE DEF j
<1>7. shot \in Shots
  BY <1>2, <1>5, <1>6 DEF Shots
<1> DEFINE last == Len(shots) + 1
<1>8. /\ shot.item = j /\ shot.kind = items[i].kind /\ shot.qty = n
      /\ shot.at = place /\ shot.open = TRUE
  OBVIOUS
<1> HIDE DEF shot
<1>9. /\ DOMAIN shots' = DOMAIN shots \cup {last} /\ shots'[last] = shot
      /\ \A k \in DOMAIN shots : shots'[k] = shots[k]
      /\ last \notin DOMAIN shots
      /\ shots' \in Seq(Shots) /\ Len(shots') <= MaxShots
  <2>0. shots \in Seq(Shots)
    BY <1>1 DEF ItemsTypeOK
  <2>1. /\ shots' \in Seq(Shots) /\ Len(shots') = Len(shots) + 1
        /\ DOMAIN shots' = 1 .. (Len(shots) + 1)
        /\ shots'[Len(shots) + 1] = shot
        /\ \A k \in 1 .. Len(shots) : shots'[k] = shots[k]
    BY <1>1, <1>7, <2>0
  <2>2. Len(shots') <= MaxShots
    BY <1>1, <1>4, <2>1, ItemNames
  <2> QED
    BY <1>4, <2>1, <2>2
<1> HIDE DEF last
<1>10. Open' = Open \cup {last}
  BY <1>4, <1>8, <1>9 DEF Open
<1>11. ItemsTypeOK'
  BY <1>1, <1>2, <1>9 DEF ItemsTypeOK
<1>12. ShotsDistinct'
  <2> SUFFICES ASSUME NEW k \in Open', NEW m \in Open', shots'[k].item = shots'[m].item
               PROVE  k = m
    BY DEF ShotsDistinct
  <2>1. \A x \in Open : shots'[x] = shots[x] /\ shots[x].item # j
    BY <1>1, <1>4, <1>9 DEF Reserved
  <2> QED
    BY <1>8, <1>9, <1>10, <2>1 DEF Stocked, ShotsDistinct
<1>13. Accounts(items'[j], shot)
  BY <1>2, <1>5, <1>8 DEF Accounts
<1>14. ShotsAccounted'
  <2>1. \A k \in Open : k \in DOMAIN shots /\ shots'[k] = shots[k]
    BY <1>4, <1>9
  <2>2. Accounts(items'[shots'[last].item], shots'[last])
    BY <1>8, <1>9, <1>13
  <2>3. \A k \in Open' : \/ Accounts(items'[shots'[k].item], shots'[k])
                         \/ k \in Open /\ shots'[k] = shots[k] /\ Stands(k)
    BY <1>3, <1>10, <2>1, <2>2
  <2> QED
    BY <1>2, <2>3, AccountsKept DEF Stocked
<1> QED
  BY <1>11, <1>12, <1>14 DEF Stocked

\* What is destroyed or grows fewer satisfies whoever reserved it.
LEMMA DestroyStocked ==
  ASSUME Stocked, NEW c \in Chars, NEW i \in Ids, NEW n \in 1 .. MaxQty,
         DestroyItem(c, i, n)
  PROVE  Stocked'
<1>0. /\ shots' = shots /\ bonds' \subseteq bonds /\ cursed' = cursed /\ place' = place
      /\ reissued' = reissued
      /\ bonds \subseteq Chars \X Ids \X Kinds /\ cursed \subseteq Chars \X Clinging
      /\ place \in Places \cup {Nowhere} /\ reissued \subseteq Ids
      /\ items[i] \in ItemRows
  BY DEF DestroyItem, Stocked, ItemsTypeOK, Held, Lies
<1>1. CASE SetRow(i, NoItem)
  BY <1>0, <1>1, OneStocked
<1>2. CASE n < items[i].qty /\ items' = [items EXCEPT ![i].qty = @ - n]
  <2> DEFINE m == items[i].qty - n
             row == [items[i] EXCEPT !.qty = m]
  <2>1. items[i].qty \in 1 .. MaxQty
    BY <1>0, RowTypes
  <2>2. m \in 1 .. MaxQty /\ m <= items[i].qty
    BY <1>2, <2>1, ItemNames
  <2>3. SetRow(i, row)
    BY <1>2 DEF SetRow
  <2> HIDE DEF m
  <2>4. /\ row \in ItemRows /\ row.holder = items[i].holder /\ row.kind = items[i].kind
        /\ row.at = items[i].at /\ row.fate = items[i].fate /\ row.qty = m
    BY <1>0, <2>2, QtyTyped
  <2> HIDE DEF row
  <2>5. ASSUME NEW k \in Open, Accounts(items[i], shots[k])
        PROVE  Accounts(row, shots[k])
    <3>1. shots[k].qty \in 1 .. MaxQty
      BY ShotsTyped DEF Stocked
    <3>2. m <= shots[k].qty
      BY <2>1, <2>2, <2>5, <3>1, ItemNames DEF Accounts
    <3> QED
      BY <2>4, <2>5, <3>2 DEF Accounts
  <2>6. items[i] # NoItem
    BY <1>0, RowTypes
  <2> QED
    BY <1>0, <2>3, <2>4, <2>5, <2>6, OneStocked
<1> QED
  BY <1>1, <1>2 DEF DestroyItem

\* What changes hands is held, or lies where no shot is.
LEMMA PassStocked ==
  ASSUME Stocked, NEW c \in Chars, NEW i \in Ids, items[i] # NoItem,
         SetRow(i, HeldBy(c, items[i])),
         (\E d \in Chars : Held(d, i)) \/ items[i].fate # "dropped" \/ ~ Reserved(i),
         bonds' \subseteq bonds, UNCHANGED <<cursed, place, shots, reissued>>
  PROVE  Stocked'
<1>1. /\ bonds \subseteq Chars \X Ids \X Kinds /\ cursed \subseteq Chars \X Clinging
      /\ place \in Places \cup {Nowhere} /\ reissued \subseteq Ids
      /\ items[i] \in ItemRows
  BY DEF Stocked, ItemsTypeOK
<1> DEFINE row == HeldBy(c, items[i])
<1>2. row \in ItemRows
  BY <1>1, RowsAreBroad, HeldTyped
<1>3. SetRow(i, row)
  OBVIOUS
<1> HIDE DEF row
<1>4. \A k \in Open : shots[k].item = i => ~ Accounts(items[i], shots[k])
  BY HeldIsFree DEF Reserved, Accounts
<1> QED
  BY <1>1, <1>2, <1>3, <1>4, OneStocked

LEMMA WearStocked ==
  ASSUME Stocked, NEW c \in Chars, NEW i \in Ids, NEW w \in BOOLEAN, Held(c, i),
         items' = [items EXCEPT ![i].worn = w], cursed' \subseteq Chars \X Clinging,
         UNCHANGED <<bonds, place, shots, reissued>>
  PROVE  Stocked'
<1>1. /\ bonds \subseteq Chars \X Ids \X Kinds /\ reissued \subseteq Ids
      /\ place \in Places \cup {Nowhere}
      /\ items[i] \in ItemRows /\ items[i].holder \in Chars
  BY DEF Stocked, ItemsTypeOK, Held
<1> DEFINE row == [items[i] EXCEPT !.worn = w]
<1>2. row \in ItemRows
  BY <1>1, WornTyped
<1>3. SetRow(i, row)
  BY DEF SetRow
<1> HIDE DEF row
<1>4. \A k \in Open : ~ Accounts(items[i], shots[k])
  BY HeldIsFree
<1>5. items[i] # NoItem
  BY DEF Held
<1> QED
  BY <1>1, <1>2, <1>3, <1>4, <1>5, OneStocked

-----------------------------------------------------------------------------
\* What was expended and what still lies there add up to numbers.
Expended == [m \in Open |-> shots[m].qty]
Lying == [m \in Open |-> StillThere(m)]

LEMMA ExpendedIsSum ==
  ASSUME NEW S \in SUBSET Open, IsFiniteSet(Open), \A x \in Open : Expended[x] \in Int
  PROVE  MapThenSumSet(LAMBDA m : shots[m].qty, S) \in Int
<1> DEFINE op(l) == shots[l].qty
           E(it) == it = [s \in SUBSET S |->
                            IF s = {} THEN 0 ELSE op(One(s)) + it[s \ {One(s)}]]
           iter == CHOOSE it : E(it)
<1>0. IsFiniteSet(S) /\ \A x \in S : Expended[x] \in Int
  BY FS_Subset
<1>1. MapThenSumSet(LAMBDA m : shots[m].qty, S) = iter[S]
  BY DEF MapThenSumSet, MapThenFoldSet, One
<1>2. ASSUME NEW it PROVE E(it) <=> Sums(it, Expended, S)
  <2>1. \A s \in SUBSET S : s # {} => Expended[One(s)] = op(One(s))
    BY OneIsIn DEF Expended
  <2> DEFINE F == [s \in SUBSET S |->
                            IF s = {} THEN 0 ELSE op(One(s)) + it[s \ {One(s)}]]
             G == [s \in SUBSET S |->
                     IF s = {} THEN 0 ELSE Expended[One(s)] + it[s \ {One(s)}]]
  <2> HIDE DEF op
  <2>2. F = G
    BY <2>1
  <2> QED
    BY <2>2 DEF Sums
<1> HIDE DEF E
<1>3. \E it : E(it)
  BY <1>0, <1>2, SumsExist
<1>4. E(iter)
  BY <1>3
<1>5. Sums(iter, Expended, S) /\ S \in SUBSET S
  BY <1>2, <1>4
<1> HIDE DEF iter
<1>6. iter[S] \in Int
  BY <1>0, <1>5, SumIsInt
<1> QED
  BY <1>1, <1>6 DEF iter

LEMMA LyingIsSum ==
  ASSUME NEW S \in SUBSET Open, IsFiniteSet(Open), \A x \in Open : Lying[x] \in Int
  PROVE  MapThenSumSet(StillThere, S) \in Int
<1> DEFINE E(it) == it = [s \in SUBSET S |->
                            IF s = {} THEN 0 ELSE StillThere(One(s)) + it[s \ {One(s)}]]
           iter == CHOOSE it : E(it)
<1>0. IsFiniteSet(S) /\ \A x \in S : Lying[x] \in Int
  BY FS_Subset
<1>1. MapThenSumSet(StillThere, S) = iter[S]
  BY DEF MapThenSumSet, MapThenFoldSet, One
<1>2. ASSUME NEW it PROVE E(it) <=> Sums(it, Lying, S)
  <2>1. \A s \in SUBSET S : s # {} => Lying[One(s)] = StillThere(One(s))
    BY OneIsIn DEF Lying
  <2> DEFINE F == [s \in SUBSET S |->
                     IF s = {} THEN 0 ELSE StillThere(One(s)) + it[s \ {One(s)}]]
             G == [s \in SUBSET S |->
                     IF s = {} THEN 0 ELSE Lying[One(s)] + it[s \ {One(s)}]]
  <2>2. F = G
    BY <2>1
  <2> QED
    BY <2>2 DEF Sums
<1> HIDE DEF E
<1>3. \E it : E(it)
  BY <1>0, <1>2, SumsExist
<1>4. E(iter)
  BY <1>3
<1>5. Sums(iter, Lying, S) /\ S \in SUBSET S
  BY <1>2, <1>4
<1> HIDE DEF iter
<1>6. iter[S] \in Int
  BY <1>0, <1>5, SumIsInt
<1> QED
  BY <1>1, <1>6 DEF iter

LEMMA LeastOfTwo ==
  ASSUME NEW a \in Int, NEW b \in Int
  PROVE  /\ Min({a, b}) \in {a, b} /\ Min({a, b}) <= a /\ Min({a, b}) <= b
<1> DEFINE S == {a, b}
<1>1. \E x \in S : \A y \in S : x <= y
  <2>1. CASE a <= b
    BY <2>1
  <2>2. CASE b <= a
    BY <2>2
  <2> QED
    BY <2>1, <2>2
<1> HIDE DEF S
<1>2. Min(S) \in S /\ \A y \in S : Min(S) <= y
  BY <1>1 DEF Min
<1> QED
  BY <1>2 DEF S

\* What a recovery finds of an expenditure is part of the row that lies there.
LEMMA StillThereIs ==
  ASSUME ItemsTypeOK, NEW k \in Open
  PROVE  /\ StillThere(k) \in 0 .. MaxQty
         /\ StillThere(k) > 0 => items[shots[k].item] \in ItemRows
<1> DEFINE i == shots[k].item
<1>1. i \in Ids /\ shots[k].qty \in 1 .. MaxQty
  BY ShotsTyped
<1>2. CASE Lies(i) /\ items[i].fate = "dropped" /\ InReach(i)
  <2>1. items[i] \in ItemRows
    BY <1>1, <1>2 DEF Lies, ItemsTypeOK
  <2>2. items[i].qty \in 1 .. MaxQty
    BY <2>1, RowTypes
  <2> DEFINE a == items[i].qty
             b == shots[k].qty
  <2>3. StillThere(k) = Min({a, b})
    BY <1>2 DEF StillThere
  <2>4. a \in 1 .. MaxQty /\ b \in 1 .. MaxQty /\ a \in Int /\ b \in Int
    BY <1>1, <2>2, ItemNames
  <2> HIDE DEF a, b
  <2>5. Min({a, b}) \in {a, b}
    BY <2>4, LeastOfTwo
  <2> QED
    BY <2>1, <2>3, <2>4, <2>5, ItemNames
<1>3. CASE ~ (Lies(i) /\ items[i].fate = "dropped" /\ InReach(i))
  <2>1. StillThere(k) = 0
    BY <1>3 DEF StillThere
  <2> QED
    BY <2>1, ItemNames
<1> QED
  BY <1>2, <1>3

\* A recovery closes what it settles and touches no row another expenditure
\* names.
LEMMA RecoverStocked ==
  ASSUME Stocked, NEW c \in Chars, NEW f, RecoverAmmunition(c, f)
  PROVE  Stocked'
<1> DEFINE mine == {k \in Open : shots[k].who = c /\ shots[k].fight = f}
           alike(k) == {m \in mine : shots[m].kind = shots[k].kind}
           half(k) == MapThenSumSet(LAMBDA m : shots[m].qty, alike(k)) \div 2
           before(k) == MapThenSumSet(StillThere, {m \in alike(k) : m < k})
           take(k) == IF before(k) < half(k)
                      THEN Min({StillThere(k), half(k) - before(k)}) ELSE 0
           found == {k \in mine : StillThere(k) > 0}
           shot(i) == CHOOSE k \in found : shots[k].item = i
           lost == {shots[k].item : k \in {m \in found : take(m) = 0}}
           back(i) == HeldBy(c, [items[i] EXCEPT !.qty = take(shot(i))])
<1>1. /\ items' = [i \in Ids |->
                      IF i \in lost THEN NoItem
                      ELSE IF \E k \in found : shots[k].item = i
                      THEN back(i) ELSE items[i]]
      /\ bonds' \subseteq bonds
      /\ shots' = [k \in DOMAIN shots |->
                     [shots[k] EXCEPT !.open = @ /\ k \notin mine]]
      /\ cursed' = cursed /\ place' = place /\ reissued' = reissued
  BY DEF RecoverAmmunition
<1>2. /\ ItemsTypeOK /\ ShotsDistinct /\ ShotsAccounted
      /\ DOMAIN shots = 1 .. Len(shots) /\ Len(shots) \in Nat
      /\ \A k \in DOMAIN shots : shots[k] \in Shots
      /\ Open \subseteq DOMAIN shots
      /\ \A k \in Open : shots[k].item \in Ids /\ shots[k].qty \in 1 .. MaxQty
  BY ShotsTyped DEF Stocked
<1>3. IsFiniteSet(Open)
  <2>1. IsFiniteSet(1 .. Len(shots))
    BY <1>2, FS_Interval
  <2> QED
    BY <1>2, <2>1, FS_Subset
<1>4. /\ \A k \in Open : Expended[k] \in Int /\ Lying[k] \in Int
      /\ mine \subseteq Open /\ found \subseteq Open
  BY <1>2, StillThereIs, ItemNames DEF Expended, Lying
<1>5. ASSUME NEW k \in found
      PROVE  take(k) \in 0 .. MaxQty
  <2>1. alike(k) \in SUBSET Open /\ {m \in alike(k) : m < k} \in SUBSET Open
    OBVIOUS
  <2> DEFINE total == MapThenSumSet(LAMBDA m : shots[m].qty, alike(k))
             a == StillThere(k)
             h == half(k)
             b == before(k)
  <2>2. total \in Int
    <3> HIDE DEF mine, alike
    <3> QED
      BY <1>3, <1>4, <2>1, ExpendedIsSum
  <2>3. b \in Int
    BY <1>3, <1>4, <2>1, LyingIsSum
  <2>4. a \in 0 .. MaxQty
    BY <1>2, <1>4, StillThereIs
  <2>5. h = total \div 2
    OBVIOUS
  <2>6. take(k) = IF b < h THEN Min({a, h - b}) ELSE 0
    OBVIOUS
  <2> HIDE DEF total, h, b, a, take, half, before, alike, mine, found
  <2>7. h \in Int
    BY <2>2, <2>5
  <2>8. a \in Int /\ h - b \in Int
    BY <2>3, <2>4, <2>7, ItemNames
  <2> DEFINE d == h - b
             low == Min({a, d})
  <2>9. low \in {a, d} /\ low <= a
    BY <2>8, LeastOfTwo
  <2>10. b < h => d >= 0 /\ d \in Int
    BY <2>3, <2>7
  <2>11. take(k) = IF b < h THEN low ELSE 0
    BY <2>6
  <2> HIDE DEF low, d
  <2> QED
    BY <2>4, <2>8, <2>9, <2>10, <2>11, ItemNames
<1> HIDE DEF mine, alike, half, before, take
<1>6. ASSUME NEW i \in Ids, i \notin lost, \E k \in found : shots[k].item = i
      PROVE  back(i) \in ItemRows
  <2>1. shot(i) \in found /\ shots[shot(i)].item = i
    BY <1>6
  <2> DEFINE k == shot(i)
             n == take(k)
             r == [items[i] EXCEPT !.qty = n]
  <2> HIDE DEF k
  <2>2. k \in found /\ shots[k].item = i
    BY <2>1 DEF k
  <2>3. n # 0
    BY <1>6, <2>2
  <2>4. n \in 0 .. MaxQty
    BY <1>5, <2>2
  <2>5. items[i] \in ItemRows
    BY <1>2, <1>4, <2>2, StillThereIs DEF found
  <2> HIDE DEF n
  <2>6. n \in 1 .. MaxQty
    BY <2>3, <2>4, ItemNames
  <2>7. r \in ItemRows
    BY <2>5, <2>6, QtyTyped
  <2> HIDE DEF r
  <2>8. HeldBy(c, r) \in ItemRows
    BY <2>7, RowsAreBroad, HeldTyped
  <2> QED
    BY <2>8 DEF r, n, k
<1> HIDE DEF found, lost, shot, back
<1>7. items' \in [Ids -> ItemRows \cup {NoItem}]
  BY <1>1, <1>2, <1>6 DEF ItemsTypeOK
<1>8. /\ DOMAIN shots' = DOMAIN shots
      /\ \A k \in DOMAIN shots : shots'[k] = [shots[k] EXCEPT !.open = @ /\ k \notin mine]
  BY <1>1
<1>9. ASSUME NEW k \in DOMAIN shots
      PROVE  /\ shots'[k] \in Shots
             /\ shots'[k].open <=> shots[k].open /\ k \notin mine
             /\ shots'[k].open => shots'[k] = shots[k]
  <2> DEFINE s == shots[k]
             b == s.open /\ k \notin mine
             t == [s EXCEPT !.open = b]
  <2>1. s \in Shots
    BY <1>2
  <2>2. shots'[k] = t
    BY <1>8
  <2> HIDE DEF s
  <2>3. b \in BOOLEAN
    OBVIOUS
  <2>4. s.open \in BOOLEAN
    BY <2>1 DEF Shots
  <2> HIDE DEF b
  <2>5. t \in Shots /\ t.open = b
    BY <2>1, <2>3 DEF Shots
  <2>6. s.open = b => t = s
    BY <2>1 DEF Shots
  <2>7. b <=> s.open /\ k \notin mine
    BY DEF b
  <2> HIDE DEF t
  <2>8. b => t = s
    <3>1. b => s.open = TRUE /\ b = TRUE
      BY <2>3, <2>4, <2>7
    <3> QED
      BY <2>6, <3>1
  <2> QED
    BY <2>2, <2>5, <2>7, <2>8 DEF s
<1>10. \A k \in Open' : /\ k \in Open /\ k \notin mine /\ shots'[k] = shots[k]
  BY <1>8, <1>9 DEF Open
<1>11. shots' \in Seq(Shots) /\ Len(shots') = Len(shots)
  <2>1. shots' = [k \in 1 .. Len(shots) |-> shots'[k]]
    BY <1>1, <1>2
  <2>2. shots' \in [1 .. Len(shots) -> Shots]
    BY <1>2, <1>9, <2>1
  <2> QED
    BY <1>2, <2>2
<1>12. ItemsTypeOK'
  BY <1>1, <1>2, <1>7, <1>11 DEF ItemsTypeOK
<1>13. ShotsDistinct'
  BY <1>2, <1>10 DEF ShotsDistinct
<1>14. ASSUME NEW k \in Open'
       PROVE  k \in Open /\ shots'[k] = shots[k] /\ Stands(k)
  <2>1. k \in Open /\ k \notin mine /\ shots'[k] = shots[k]
    BY <1>10
  <2>2. \A m \in mine : shots[m].item # shots[k].item
    BY <1>2, <1>4, <2>1 DEF ShotsDistinct
  <2>3. \A m \in found : shots[m].item # shots[k].item
    BY <2>2 DEF found
  <2>4. shots[k].item \notin lost
    BY <2>3 DEF lost
  <2>5. items'[shots[k].item] = items[shots[k].item]
    BY <1>1, <1>2, <2>1, <2>3, <2>4
  <2> QED
    BY <2>1, <2>5 DEF Stands
<1>15. ShotsAccounted'
  BY <1>1, <1>2, <1>14, AccountsKept
<1> QED
  BY <1>12, <1>13, <1>15 DEF Stocked

\* Every call keeps the stock in order.
LEMMA ItemsStocked ==
  ASSUME Stocked, TimeKept, ItemsNext, UNCHANGED vars
  PROVE  Stocked'
<1>1. ASSUME NEW c \in Chars, NEW i \in Ids, NEW n \in 1 .. MaxQty,
             \/ \E kind \in Kinds : GiveItem(c, i, kind, n)
             \/ \E fate \in Fates : RemoveItem(c, i, n, fate)
             \/ DestroyItem(c, i, n) \/ ExpendAmmunition(c, i, n)
      PROVE  Stocked'
  BY <1>1, GiveStocked, RemoveStocked, DestroyStocked, ExpendStocked
<1>2. ASSUME NEW c \in Chars, NEW i \in Ids, ClaimItem(c, i) \/ ReacquireItem(c, i)
      PROVE  Stocked'
  <2>1. /\ items[i] # NoItem /\ SetRow(i, HeldBy(c, items[i]))
        /\ items[i].fate # "dropped" \/ ~ Reserved(i)
        /\ bonds' = bonds /\ UNCHANGED <<cursed, place, shots, reissued>>
    BY <1>2 DEF ClaimItem, ReacquireItem, Lies
  <2> QED
    BY <2>1, PassStocked
<1>3. ASSUME NEW c \in Chars, NEW i \in Ids, NEW d \in Chars,
             NEW policy \in {"end", "require-unattuned"}, TransferItem(c, d, i, policy)
      PROVE  Stocked'
  <2>1. /\ items[i] # NoItem /\ SetRow(i, HeldBy(d, items[i])) /\ Held(c, i)
        /\ bonds' \subseteq bonds /\ UNCHANGED <<cursed, place, shots, reissued>>
    BY <1>3 DEF TransferItem, Held
  <2> QED
    BY <2>1, PassStocked
<1>4. ASSUME NEW c \in Chars, NEW i \in Ids, DonItem(c, i)
      PROVE  Stocked'
  <2>1. /\ Held(c, i) /\ items' = [items EXCEPT ![i].worn = TRUE]
        /\ UNCHANGED <<bonds, place, shots, reissued>>
        /\ cursed' = cursed \cup ({<<c, items[i].kind>>} \cap (Chars \X Clinging))
    BY <1>4 DEF DonItem
  <2>2. cursed' \subseteq Chars \X Clinging
    BY <2>1 DEF Stocked, ItemsTypeOK
  <2> QED
    BY <2>1, <2>2, WearStocked
<1>5. ASSUME NEW c \in Chars, NEW i \in Ids, DoffItem(c, i)
      PROVE  Stocked'
  <2>1. /\ Held(c, i) /\ items' = [items EXCEPT ![i].worn = FALSE]
        /\ UNCHANGED <<bonds, place, shots, reissued>> /\ cursed' = cursed
    BY <1>5 DEF DoffItem
  <2>2. cursed' \subseteq Chars \X Clinging
    BY <2>1 DEF Stocked, ItemsTypeOK
  <2> QED
    BY <2>1, <2>2, WearStocked
<1>6. ASSUME items' = items, shots' = shots, reissued' = reissued,
             bonds' \subseteq Chars \X Ids \X Kinds, cursed' \subseteq Chars \X Clinging,
             place' \in Places \cup {Nowhere}
      PROVE  Stocked'
  <2>1. reissued \subseteq Ids /\ items \in [Ids -> ItemRows \cup {NoItem}]
    BY DEF Stocked, ItemsTypeOK
  <2>2. \A k \in Open : Stands(k)
    BY <1>6 DEF Stands
  <2> QED
    BY <1>6, <2>1, <2>2, StockKept
<1>7. /\ bonds \subseteq Chars \X Ids \X Kinds /\ cursed \subseteq Chars \X Clinging
      /\ place \in Places \cup {Nowhere}
  BY DEF Stocked, ItemsTypeOK
<1>8. ASSUME NEW c \in Chars, NEW i \in Ids,
             (\E key \in Kinds : AttuneItem(c, i, key)) \/ EndAttunement(c, i)
      PROVE  Stocked'
  BY <1>6, <1>7, <1>8 DEF AttuneItem, EndAttunement
<1>9. ASSUME NEW c \in Chars, NEW kind \in Clinging, RemoveCurse(c, kind)
      PROVE  Stocked'
  BY <1>6, <1>7, <1>9 DEF RemoveCurse
<1>10. ASSUME NEW p \in Places \cup {Nowhere}, UpdateLocation(p)
       PROVE  Stocked'
  BY <1>6, <1>7, <1>10 DEF UpdateLocation
<1>11. ASSUME NEW c \in Chars, NEW f \in 1 .. fights, RecoverAmmunition(c, f)
       PROVE  Stocked'
  BY <1>11, RecoverStocked
<1> QED
  BY <1>1, <1>2, <1>3, <1>4, <1>5, <1>8, <1>9, <1>10, <1>11 DEF ItemsNext

\* The campaign itself takes nothing but the bonds of a dead hero.
LEMMA MournStocked ==
  ASSUME Stocked, Mourn
  PROVE  Stocked'
<1>1. /\ items' = items /\ bonds' \subseteq bonds
      /\ UNCHANGED <<cursed, place, shots, reissued>>
  BY DEF Mourn
<1>2. /\ reissued \subseteq Ids /\ items \in [Ids -> ItemRows \cup {NoItem}]
      /\ bonds \subseteq Chars \X Ids \X Kinds /\ cursed \subseteq Chars \X Clinging
      /\ place \in Places \cup {Nowhere}
  BY DEF Stocked, ItemsTypeOK
<1>3. \A k \in Open : Stands(k)
  BY <1>1 DEF Stands
<1> QED
  BY <1>1, <1>2, <1>3, StockKept

LEMMA StockInit == JourneyInit => Stocked
<1> SUFFICES ASSUME JourneyInit
             PROVE  Stocked
  OBVIOUS
<1>1. /\ items = [i \in Ids |-> NoItem] /\ bonds = {} /\ cursed = {}
      /\ shots = <<>> /\ reissued = {} /\ place \in Places
  BY DEF JourneyInit, ItemsInit
<1>2. Open = {}
  BY <1>1 DEF Open
<1>3. shots \in Seq(Shots) /\ Len(shots) = 0
  BY <1>1
<1>4. ItemsTypeOK
  BY <1>1, <1>3, ItemNames DEF ItemsTypeOK
<1> QED
  BY <1>2, <1>4 DEF Stocked, ShotsDistinct, ShotsAccounted

-----------------------------------------------------------------------------
\* A journey is an adventure: what is proved of Spec holds of every journey.
THEOREM JourneyPlays == Journey => Spec
<1>1. JourneyInit => Init
  BY DEF JourneyInit
<1>2. [JourneyNext]_journeyVars => [Next]_vars
  BY DEF JourneyNext, journeyVars
<1> QED
  BY <1>1, <1>2, PTL DEF Journey, Spec

\* Nobody ever holds more attunements than there are slots, two with one key,
\* one to an item another is attuned to or one to an item that is gone, and the
\* dead hold none; and what the rules have a record of is bonded under that
\* record (attuneItem, endAllAttunementsOnDeath, destroyInventoryItem), however
\* the things were given, renamed, dropped, sold, shot, recovered and passed on
\* between.  What was given ad hoc may be renamed while it is bonded, so this
\* says nothing of the names its bonds would have now.
THEOREM BondsStaySound == Journey => []BondsSound
<1>1. BInv => BondsSound
  BY DEF BInv
<1> QED
  BY BInit, BStep, <1>1, PTL DEF Journey

-----------------------------------------------------------------------------
LEMMA StockStep ==
  ASSUME Stocked, TimeKept, [JourneyNext]_journeyVars
  PROVE  Stocked'
<1>1. CASE UNCHANGED journeyVars
  BY <1>1 DEF Stocked, ItemsTypeOK, ShotsDistinct, ShotsAccounted, Open,
     journeyVars, itemVars
<1> QED
  BY <1>1, ItemsStocked, MournStocked DEF JourneyNext

LEMMA StockStays == Journey => []Stocked
<1>1. TypeOK /\ Bounded => TimeKept
  BY DEF TimeKept, Bounded
<1> QED
  BY JourneyPlays, BoundsStay, TypesStayOK, StockInit, StockStep, <1>1, PTL DEF Journey

\* An open expenditure reserves what was shot, as it was shot, until it is
\* recovered: nothing else that happens to the things of a campaign makes it
\* stand for another, but an id that was destroyed and given out again
\* (expendAmmunition, recoverAmmunition).
THEOREM ShotsStayAccounted == Journey => []ShotsAccounted
<1>1. Stocked => ShotsAccounted
  BY DEF Stocked
<1> QED
  BY StockStays, <1>1, PTL

\* Campaign, creatures, hero and things keep their types through any journey.
THEOREM JourneyTypesStayOK == Journey => []JourneyTypeOK
<1>1. TypeOK /\ Stocked => JourneyTypeOK
  BY DEF JourneyTypeOK, Stocked
<1> QED
  BY JourneyPlays, TypesStayOK, StockStays, <1>1, PTL

-----------------------------------------------------------------------------
\* What is cursed is where it was.
Stays(c, i) ==
  \/ items'[i] = NoItem
  \/ /\ items'[i].holder = c /\ items'[i].worn
     /\ items'[i].kind = items[i].kind

LEMMA UntouchedStays ==
  ASSUME NEW c, NEW i, Clings(c, i), items'[i] = items[i]
  PROVE  Stays(c, i)
  BY DEF Clings, Held, Stays

LEMMA QtyStays ==
  ASSUME BInv, NEW c, NEW i \in Ids, Clings(c, i), NEW n,
         items'[i] = [items[i] EXCEPT !.qty = n]
  PROVE  Stays(c, i)
<1>1. DOMAIN items[i] = Columns /\ items[i].holder = c /\ items[i].worn
  BY DEF BInv, ItemsShaped, Shaped, Clings, Held
<1>2. /\ [items[i] EXCEPT !.qty = n].holder = items[i].holder
      /\ [items[i] EXCEPT !.qty = n].worn = items[i].worn
      /\ [items[i] EXCEPT !.qty = n].kind = items[i].kind
  BY <1>1 DEF Columns
<1> QED
  BY <1>1, <1>2 DEF Stays

LEMMA RelinquishStays ==
  ASSUME BInv, NEW c \in Chars, NEW i \in Ids, Clings(c, i),
         NEW d \in Chars, NEW j \in Ids, NEW n, NEW fate,
         Relinquish(d, j, n, fate)
  PROVE  Stays(c, i)
<1>1. i # j /\ items[i] # NoItem
  BY DEF Relinquish, Clings, Held
<1>2. CASE n < items[j].qty /\ FreeParts(j) # {}
  <2>1. Parted(j, n) \in Ids /\ items[Parted(j, n)] = NoItem
    BY <1>2, PartIsFree
  <2>2. items'[i] = items[i]
    BY <1>1, <2>1 DEF Relinquish, SetRow, BInv, ItemsShaped
  <2> QED
    BY <2>2, UntouchedStays
<1>3. CASE \E row : SetRow(j, row)
  <2>1. items'[i] = items[i]
    BY <1>1, <1>3 DEF SetRow, BInv, ItemsShaped
  <2> QED
    BY <2>1, UntouchedStays
<1> QED
  BY <1>2, <1>3 DEF Relinquish

LEMMA RecoverStays ==
  ASSUME BInv, NEW c \in Chars, NEW i \in Ids, Clings(c, i),
         NEW d \in Chars, NEW f, RecoverAmmunition(d, f)
  PROVE  Stays(c, i)
<1> DEFINE mine == {k \in Open : shots[k].who = d /\ shots[k].fight = f}
           alike(k) == {m \in mine : shots[m].kind = shots[k].kind}
           half(k) == MapThenSumSet(LAMBDA m : shots[m].qty, alike(k)) \div 2
           before(k) == MapThenSumSet(StillThere, {m \in alike(k) : m < k})
           take(k) == IF before(k) < half(k)
                      THEN Min({StillThere(k), half(k) - before(k)}) ELSE 0
           found == {k \in mine : StillThere(k) > 0}
           shot(j) == CHOOSE k \in found : shots[k].item = j
           lost == {shots[k].item : k \in {m \in found : take(m) = 0}}
           back(j) == HeldBy(d, [items[j] EXCEPT !.qty = take(shot(j))])
<1>1. items' = [j \in Ids |->
                  IF j \in lost THEN NoItem
                  ELSE IF \E k \in found : shots[k].item = j
                  THEN back(j) ELSE items[j]]
  BY DEF RecoverAmmunition
<1>2. \A k \in found : Lies(shots[k].item)
  BY DEF StillThere
<1>3. ~ Lies(i)
  BY ItemNames DEF Lies, Clings, Held
<1>4. \A k \in found : shots[k].item # i
  BY <1>2, <1>3
<1>5. i \notin lost
  BY <1>4
<1> HIDE DEF found, lost, back
<1>6. items'[i] = items[i]
  BY <1>1, <1>4, <1>5
<1> QED
  BY <1>6, UntouchedStays

LEMMA ItemsCling ==
  ASSUME BInv, ItemsNext, NEW c \in Chars, NEW i \in Ids, Clings(c, i)
  PROVE  Stays(c, i)
<1>0. /\ items[i] # NoItem /\ items[i].holder = c /\ items[i].worn
      /\ ~ Lies(i) /\ items[i].kind \in PackBound
  BY ItemNames DEF Clings, Held, Lies
<1>1. ASSUME NEW j \in Ids, j # i, \E row : SetRow(j, row)
      PROVE  Stays(c, i)
  <2>1. items'[i] = items[i]
    BY <1>1 DEF SetRow, BInv, ItemsShaped
  <2> QED
    BY <2>1, UntouchedStays
<1>2. CASE \E d \in Chars, j \in Ids : \E n \in 1 .. MaxQty :
             \E kind \in Kinds : GiveItem(d, j, kind, n)
  <2>1. PICK d \in Chars, j \in Ids, n \in 1 .. MaxQty, kind \in Kinds :
               GiveItem(d, j, kind, n)
    BY <1>2
  <2>2. CASE items[j] = NoItem
    BY <1>0, <1>1, <2>1, <2>2 DEF GiveItem, Held
  <2>3. CASE /\ items[j].kind # kind => {items[j].kind, kind} \cap PackBound = {}
             /\ items' = [items EXCEPT ![j].kind = kind, ![j].qty = n]
    <3>0. items'[j] = Renamed(items[j], kind, n) /\ (i # j => items'[i] = items[i])
      BY <2>3 DEF Renamed, BInv, ItemsShaped
    <3>1. CASE i = j
      <4>1. kind = items[i].kind
        BY <1>0, <2>3, <3>1
      <4> QED
        BY <1>0, <3>0, <3>1, <4>1, RenamedShaped DEF Stays, BInv, ItemsShaped
    <3>2. CASE i # j
      BY <3>0, <3>2, UntouchedStays
    <3> QED
      BY <3>1, <3>2
  <2> QED
    BY <2>1, <2>2, <2>3 DEF GiveItem
<1>3. CASE \E d \in Chars, j \in Ids : \E n \in 1 .. MaxQty :
             \E fate \in Fates : RemoveItem(d, j, n, fate)
  BY <1>3, RelinquishStays DEF RemoveItem
<1>4. CASE \E d \in Chars, j \in Ids : \E n \in 1 .. MaxQty : DestroyItem(d, j, n)
  <2>1. PICK d \in Chars, j \in Ids, n \in 1 .. MaxQty : DestroyItem(d, j, n)
    BY <1>4
  <2>2. CASE i # j
    BY <1>1, <2>1, <2>2 DEF DestroyItem, SetRow
  <2>3. CASE i = j /\ SetRow(i, NoItem)
    BY <2>3, SetRowShaped, NoItemIsShaped DEF Stays, BInv
  <2>4. CASE i = j /\ items' = [items EXCEPT ![i].qty = @ - n]
    <3>1. items'[i] = [items[i] EXCEPT !.qty = items[i].qty - n]
      BY <2>4 DEF BInv, ItemsShaped
    <3> QED
      BY <3>1, QtyStays
  <2> QED
    BY <2>1, <2>2, <2>3, <2>4 DEF DestroyItem
<1>5. CASE \E d \in Chars, j \in Ids : \E n \in 1 .. MaxQty :
             ExpendAmmunition(d, j, n)
  BY <1>5, RelinquishStays DEF ExpendAmmunition
<1>6. CASE \E d \in Chars, j \in Ids : ClaimItem(d, j) \/ ReacquireItem(d, j)
  BY <1>0, <1>1, <1>6 DEF ClaimItem, ReacquireItem
<1>7. CASE \E d \in Chars, j \in Ids : \E e \in Chars,
             policy \in {"end", "require-unattuned"} : TransferItem(d, e, j, policy)
  BY <1>0, <1>1, <1>7 DEF TransferItem, Held
<1>8. CASE \E d \in Chars, j \in Ids : DonItem(d, j) \/ DoffItem(d, j)
  <2>1. PICK d \in Chars, j \in Ids : DonItem(d, j) \/ DoffItem(d, j)
    BY <1>8
  <2>2. j # i
    BY <1>0, <2>1 DEF DonItem, DoffItem, Held
  <2>3. \E row : SetRow(j, row)
    BY <2>1 DEF DonItem, DoffItem, SetRow
  <2> QED
    BY <1>1, <2>2, <2>3
<1>9. CASE \/ \E d \in Chars, j \in Ids :
                (\E key \in Kinds : AttuneItem(d, j, key)) \/ EndAttunement(d, j)
           \/ \E d \in Chars, kind \in Clinging : RemoveCurse(d, kind)
           \/ \E p \in Places \cup {Nowhere} : UpdateLocation(p)
  <2>1. items' = items
    BY <1>9 DEF AttuneItem, EndAttunement, RemoveCurse, UpdateLocation
  <2> QED
    BY <2>1, UntouchedStays
<1>10. CASE \E d \in Chars, f \in 1 .. fights : RecoverAmmunition(d, f)
  BY <1>10, RecoverStays
<1> QED
  BY <1>2, <1>3, <1>4, <1>5, <1>6, <1>7, <1>8, <1>9, <1>10 DEF ItemsNext

\* Whatever is done to a cursed thing that is worn, it stays on its wearer
\* until the curse is lifted or the thing destroyed
\* (assertInventoryCurseCustodyReady).
THEOREM CurseStaysOn == Journey => CurseClings
<1> DEFINE Worn == \A w \in cursed, i \in Ids : Clings(w[1], i) =>
                     \/ items'[i] = NoItem
                     \/ /\ items'[i].holder = w[1] /\ items'[i].worn
                        /\ items'[i].kind = items[i].kind
                     \/ <<w[1], items[i].kind>> \notin cursed'
<1>1. BInv /\ JourneyNext => Worn
  <2> SUFFICES ASSUME BInv, JourneyNext, NEW w \in cursed, NEW i \in Ids,
                      Clings(w[1], i)
               PROVE  Stays(w[1], i)
    BY DEF Stays
  <2>1. w[1] \in Chars
    BY DEF BInv
  <2>2. CASE ItemsNext
    BY <2>1, <2>2, ItemsCling
  <2>3. CASE Mourn
    BY <2>3, UntouchedStays DEF Mourn
  <2> QED
    BY <2>2, <2>3 DEF JourneyNext
<1>2. BInv /\ [JourneyNext]_journeyVars => [Worn]_journeyVars
  BY <1>1
<1> QED
  BY BInit, BStep, <1>2, PTL DEF Journey, CurseClings
=============================================================================
