----------------------------- MODULE RuleProofs -----------------------------
(***************************************************************************)
(* TLAPS proofs about RuleStore, for any ambiguities, names and ordinals:  *)
(* what no sequence of writes, turns and disputes does to the table, and   *)
(* to the turns that were adjudicated under it.                            *)
(***************************************************************************)
EXTENDS RuleStore, TLAPS

\* Only a superseded row names a successor.
Unlinked(t) ==
  \A r \in RuleIds : t[r].status # "superseded" => t[r].by = NoRule

\* Where a superseded row ends a row begins that is in force there, and that
\* took the place of one: it can no longer be revoked before it begins.
Relieves(t, r, q) ==
  /\ q \in ActiveAt(t, EndOf(t, r)) /\ t[q].eff = EndOf(t, r)
  /\ \E x \in Present(t) : t[x].by = q
Relieved(t) ==
  \A r \in RuleIds : t[r].status = "superseded" => \E q \in RuleIds : Relieves(t, r, q)

\* What every write takes from one table to the next.
TableInv(t) ==
  /\ t \in [RuleIds -> Rows]
  /\ Unlinked(t) /\ ValidLinks(t) /\ NoOverlap(t) /\ NoCycle(t) /\ Relieved(t)

\* The turns before the latest stand in the table its snapshot holds.
SnapshotStands ==
  \A i \in 1 .. (ordinal - 1) : ActiveAt(before, At(i)) = contexts[i]

RulesInv ==
  /\ TypeOK /\ TableInv(rules) /\ TableInv(before)
  /\ ContextsStand /\ SnapshotStands
  /\ replay # "none" => ordinal > 0

-----------------------------------------------------------------------------
\* Positions

LEMMA PositionFacts ==
  ASSUME NEW n \in Nat
  PROVE  /\ Future(n) \in Nat /\ At(n) \in Nat /\ Future(n) <= At(n)
         /\ OrdinalOf(Future(n)) = n /\ OrdinalOf(At(n)) = n
         /\ n <= Horizon => Future(n) \in Positions /\ At(n) \in Positions
         /\ \A p \in Nat : OrdinalOf(p) \in Nat /\ (OrdinalOf(p) > n => p > At(n))
         /\ \A i \in Nat : i < n => At(i) < Future(n)
  BY HorizonAssumption DEF Future, At, OrdinalOf, Positions

\* A canonical position is one of the table's, of the same ordinal.
LEMMA CanonicalFacts ==
  ASSUME NEW p \in Positions, NEW n \in Nat
  PROVE  /\ Canonical(p, n) \in Positions
         /\ OrdinalOf(Canonical(p, n)) = OrdinalOf(p)
  BY HorizonAssumption DEF Canonical, Future, At, OrdinalOf, Positions

LEMMA RuleIdFacts ==
  /\ NoRule \notin RuleIds
  /\ \A a \in Ambiguities, n \in 1 .. Horizon : <<a, n>> \in RuleIds
  /\ Names \subseteq RuleIds
  BY NamesAssumption, HorizonAssumption DEF RuleIds

\* The row of a write is well-formed.
LEMMA NewRowFacts ==
  ASSUME NEW a \in Ambiguities \cup {NoAmbiguity}, NEW p \in Positions
  PROVE  /\ NewRow(a, p) \in Rows
         /\ NewRow(a, p).status = "active" /\ NewRow(a, p).by = NoRule
         /\ NewRow(a, p).amb = a /\ NewRow(a, p).eff = p
<1> DEFINE one == [NoRow EXCEPT !.status = "active"]
           two == [one EXCEPT !.amb = a]
           three == [two EXCEPT !.eff = p]
<1>1. 0 \in Positions
  BY HorizonAssumption DEF Positions, At
<1>2. NoRow \in Rows /\ NoRow.by = NoRule
  BY <1>1 DEF NoRow, Rows
<1>3. one \in Rows /\ one.by = NoRule /\ one.status = "active"
  BY <1>2 DEF Rows
<1> HIDE DEF one
<1>4. two \in Rows /\ two.by = NoRule /\ two.status = "active" /\ two.amb = a
  BY <1>3 DEF Rows
<1> HIDE DEF two
<1>5. /\ three \in Rows /\ three.by = NoRule /\ three.status = "active"
      /\ three.amb = a /\ three.eff = p
  BY <1>4 DEF Rows
<1>6. NewRow(a, p) = three
  BY DEF NewRow, one, two
<1> QED
  BY <1>5, <1>6

LEMMA RowTypes ==
  ASSUME NEW t \in [RuleIds -> Rows], NEW r \in RuleIds
  PROVE  /\ t[r] \in Rows /\ t[r].eff \in Nat /\ t[r].end \in Nat
         /\ t[r].eff < Forever /\ t[r].end < Forever /\ Forever \in Nat
         /\ t[r].status \in {"absent", "active", "revoked", "superseded"}
         /\ t[r].by \in RuleIds \cup {NoRule}
<1>1. t[r] \in Rows
  OBVIOUS
<1>2. t[r].eff \in Positions /\ t[r].end \in Positions
  BY <1>1 DEF Rows
<1> QED
  BY <1>1, <1>2, HorizonAssumption DEF Rows, Positions, Forever, At

\* The end of a row is a position, or open.
LEMMA EndType ==
  ASSUME NEW t, TableInv(t), NEW r \in Present(t)
  PROVE  EndOf(t, r) \in Nat /\ EndOf(t, r) <= Forever
<1>1. r \in RuleIds /\ t \in [RuleIds -> Rows]
  BY DEF Present, TableInv
<1>2. t[r].status = "superseded" => t[r].by \in RuleIds
  BY DEF TableInv, ValidLinks, Present
<1> QED
  BY <1>1, <1>2, RowTypes DEF EndOf

\* A row is in force at the positions of its interval.
LEMMA ActiveFacts ==
  ASSUME NEW t, TableInv(t), NEW p \in Nat, p < Forever
  PROVE  ActiveAt(t, p) = {r \in Present(t) : t[r].eff <= p /\ p < EndOf(t, r)}
<1> SUFFICES ASSUME NEW r \in Present(t)
             PROVE  r \in ActiveAt(t, p) <=> t[r].eff <= p /\ p < EndOf(t, r)
  BY DEF ActiveAt
<1>1. r \in RuleIds /\ t \in [RuleIds -> Rows] /\ t[r].status # "absent"
  BY DEF Present, TableInv
<1>2. t[r].status = "superseded" => t[r].by \in RuleIds
  BY DEF TableInv, ValidLinks, Present
<1>3. t[r].status \in {"active", "revoked", "superseded"} /\ t[r].end \in Nat
  BY <1>1, RowTypes
<1>4. t[r].status = "superseded" => t[t[r].by].eff \in Nat
  BY <1>1, <1>2, RowTypes
<1> QED
  BY <1>1, <1>3, <1>4 DEF ActiveAt, EndOf

-----------------------------------------------------------------------------
\* Writes

\* u is t with the new rows N, each of which fits.
Adds(t, N, u) ==
  /\ u \in [RuleIds -> Rows] /\ N \subseteq RuleIds
  /\ \A r \in RuleIds \ N : u[r] = t[r]
  /\ \A r \in N : /\ t[r].status = "absent"
                  /\ u[r].status = "active" /\ u[r].by = NoRule
                  /\ Fits(With(t, r, u[r]), r, u[r])
  /\ \A r, q \in N : r # q => u[r].amb # u[q].amb

\* New rows that fit beside what is there, and beside one another, leave it
\* as it was and change nothing before they begin.
LEMMA RowsAdded ==
  ASSUME NEW t, TableInv(t), NEW N, NEW u, Adds(t, N, u)
  PROVE  /\ TableInv(u)
         /\ \A p \in Nat : p < Forever /\ (\A r \in N : p < u[r].eff) =>
              ActiveAt(u, p) = ActiveAt(t, p)
<1> USE DEF Adds
<1>1. /\ Present(u) = Present(t) \cup N
      /\ \A r \in Present(t) : r \in RuleIds /\ r \notin N /\ u[r] = t[r]
  BY DEF Present
<1>2. /\ t \in [RuleIds -> Rows] /\ Unlinked(t) /\ ValidLinks(t) /\ NoOverlap(t)
      /\ NoCycle(t) /\ Relieved(t)
  BY DEF TableInv
<1>3. \A r \in Present(t) : t[r].status = "superseded" => t[r].by \in Present(t)
  BY <1>2 DEF ValidLinks
<1>4. \A r \in Present(t) : EndOf(u, r) = EndOf(t, r)
  BY <1>1, <1>3 DEF EndOf
<1>5. \A r \in N : EndOf(u, r) = Forever
  BY DEF EndOf
<1>6. Unlinked(u)
  BY <1>1, <1>2 DEF Unlinked
<1>7. ValidLinks(u)
  <2> SUFFICES ASSUME NEW r \in Present(u), u[r].status = "superseded"
               PROVE  /\ u[r].by \in Present(u)
                      /\ \A q \in Present(u) \ {r} : u[q].by # u[r].by
                      /\ u[u[r].by].eff >= u[r].eff
                      /\ u[u[r].by].status = "revoked" => u[u[r].by].end > u[u[r].by].eff
    BY DEF ValidLinks
  <2>1. r \in Present(t) /\ u[r] = t[r]
    BY <1>1
  <2>2. u[r].by \in Present(t) /\ u[u[r].by] = t[t[r].by]
    BY <2>1, <1>1, <1>3
  <2>3. \A q \in N : u[q].by # u[r].by
    BY <2>2, RuleIdFacts, <1>1
  <2> QED
    BY <2>1, <2>2, <2>3, <1>1, <1>2 DEF ValidLinks
<1>8. \A r \in N, q \in Present(t) :
        u[r].amb = t[q].amb /\ u[r].amb # NoAmbiguity =>
          ~ Overlaps(u[r].eff, Forever, t[q].eff, EndOf(t, q))
  <2> SUFFICES ASSUME NEW r \in N, NEW q \in Present(t),
                      u[r].amb = t[q].amb, u[r].amb # NoAmbiguity
               PROVE  ~ Overlaps(u[r].eff, Forever, t[q].eff, EndOf(t, q))
    OBVIOUS
  <2> DEFINE v == With(t, r, u[r])
  <2>1. q # r /\ v[q] = t[q]
    BY <1>1, <1>2 DEF With
  <2>2. q \in Present(v)
    BY <2>1 DEF Present
  <2>3. t[q].status = "superseded" => v[t[q].by] = t[t[q].by]
    BY <1>1, <1>2, <1>3 DEF With
  <2>4. EndOf(v, q) = EndOf(t, q)
    BY <2>1, <2>3 DEF EndOf
  <2> QED
    BY <2>1, <2>2, <2>4 DEF Fits
<1>9. NoOverlap(u)
  <2> SUFFICES ASSUME NEW r \in Present(u), NEW q \in Present(u), r # q,
                      u[r].amb = u[q].amb, u[r].amb # NoAmbiguity
               PROVE  ~ Overlaps(u[r].eff, EndOf(u, r), u[q].eff, EndOf(u, q))
    BY DEF NoOverlap
  <2>1. CASE r \in Present(t) /\ q \in Present(t)
    BY <2>1, <1>1, <1>2, <1>4 DEF NoOverlap
  <2>2. CASE r \in N /\ q \in Present(t)
    BY <2>2, <1>1, <1>4, <1>5, <1>8
  <2>3. CASE r \in Present(t) /\ q \in N
    BY <2>3, <1>1, <1>4, <1>5, <1>8 DEF Overlaps
  <2> QED
    BY <2>1, <2>2, <2>3, <1>1
<1>10. NoCycle(u)
  <2> SUFFICES ASSUME NEW S \in SUBSET Present(u), S # {}, \A r \in S : u[r].by \in S
               PROVE  FALSE
    BY DEF NoCycle
  <2>1. S \subseteq Present(t)
    BY <1>1, RuleIdFacts DEF Present
  <2> QED
    BY <2>1, <1>1, <1>2 DEF NoCycle
<1>11. \A p, q : q \in ActiveAt(t, p) => q \in ActiveAt(u, p)
  BY <1>1, <1>3 DEF ActiveAt
<1>12. Relieved(u)
  <2> SUFFICES ASSUME NEW r \in RuleIds, u[r].status = "superseded"
               PROVE  \E q \in RuleIds : Relieves(u, r, q)
    BY DEF Relieved
  <2>1. r \notin N /\ r \in Present(t) /\ t[r].status = "superseded"
    BY DEF Present
  <2>2. PICK q \in RuleIds : Relieves(t, r, q)
    BY <2>1, <1>2 DEF Relieved
  <2>3. q \in Present(t)
    BY <2>2 DEF Relieves, ActiveAt
  <2> QED
    BY <2>1, <2>2, <2>3, <1>1, <1>4, <1>11 DEF Relieves
<1>13. TableInv(u)
  BY <1>6, <1>7, <1>9, <1>10, <1>12 DEF TableInv
<1>14. ASSUME NEW p \in Nat, p < Forever, \A r \in N : p < u[r].eff
       PROVE  ActiveAt(u, p) = ActiveAt(t, p)
  <2>1. \A r \in N : ~ (u[r].eff <= p)
    BY <1>14, RowTypes
  <2>2. ActiveAt(u, p) = {r \in Present(u) : u[r].eff <= p /\ p < EndOf(u, r)}
    BY <1>13, <1>14, ActiveFacts
  <2>3. ActiveAt(t, p) = {r \in Present(t) : t[r].eff <= p /\ p < EndOf(t, r)}
    BY <1>14, ActiveFacts
  <2> QED
    BY <2>1, <2>2, <2>3, <1>1, <1>4
<1> QED
  BY <1>13, <1>14

\* The same of one row.
LEMMA RowAdded ==
  ASSUME NEW t, TableInv(t), NEW r \in RuleIds, NEW row \in Rows,
         row.status = "active", row.by = NoRule, Writable(t, r, row)
  PROVE  /\ TableInv(With(t, r, row))
         /\ \A p \in Nat : p < row.eff => ActiveAt(With(t, r, row), p) = ActiveAt(t, p)
<1> DEFINE u == With(t, r, row)
<1>1. t \in [RuleIds -> Rows]
  BY DEF TableInv
<1>2. u \in [RuleIds -> Rows] /\ u[r] = row /\ \A q \in RuleIds \ {r} : u[q] = t[q]
  BY <1>1 DEF With
<1>3. t[r].status = "absent" /\ Fits(With(t, r, u[r]), r, u[r])
  BY <1>2 DEF Writable
<1> HIDE DEF u
<1> DEFINE N == {r}
<1>7. Adds(t, N, u)
  BY <1>2, <1>3 DEF Adds
<1> HIDE DEF N
<1>4. /\ TableInv(u)
      /\ \A p \in Nat : p < Forever /\ (\A q \in N : p < u[q].eff) =>
           ActiveAt(u, p) = ActiveAt(t, p)
  BY <1>7, RowsAdded
<1>5. row.eff \in Nat /\ row.eff < Forever /\ Forever \in Nat
  BY <1>2, RowTypes
<1>6. \A p \in Nat : p < row.eff => p < Forever
  BY <1>5
<1> QED
  BY <1>2, <1>4, <1>6 DEF u, N

\* A period that is cut short overlaps no more than before.
LEMMA CutShort ==
  ASSUME NEW b \in Nat, NEW e \in Nat, NEW c \in Nat, NEW f \in Nat,
         NEW e1 \in Nat, e1 <= e, NEW f1 \in Nat, f1 <= f, ~ Overlaps(b, e, c, f)
  PROVE  ~ Overlaps(b, e1, c, f1)
  BY DEF Overlaps

\* What the update of a superseded row leaves.
LEMMA SupersededFacts ==
  ASSUME NEW t \in [RuleIds -> Rows], NEW prior \in RuleIds, NEW r \in RuleIds
  PROVE  LET v == Superseded(t, prior, r) IN
         /\ v \in [RuleIds -> Rows]
         /\ v[prior].status = "superseded" /\ v[prior].by = r
         /\ v[prior].eff = t[prior].eff /\ v[prior].amb = t[prior].amb
         /\ \A q \in RuleIds \ {prior} : v[q] = t[q]
<1> DEFINE one == [t EXCEPT ![prior].status = "superseded"]
           two == [one EXCEPT ![prior].by = r]
<1>1. t[prior] \in Rows
  OBVIOUS
<1>2. /\ one[prior] \in Rows /\ one[prior].status = "superseded"
      /\ one[prior].eff = t[prior].eff /\ one[prior].amb = t[prior].amb
      /\ one \in [RuleIds -> Rows] /\ \A q \in RuleIds \ {prior} : one[q] = t[q]
  BY <1>1 DEF Rows
<1> HIDE DEF one
<1>3. /\ two[prior] \in Rows /\ two[prior].status = "superseded"
      /\ two[prior].by = r
      /\ two[prior].eff = t[prior].eff /\ two[prior].amb = t[prior].amb
      /\ two \in [RuleIds -> Rows] /\ \A q \in RuleIds \ {prior} : two[q] = t[q]
  BY <1>2 DEF Rows
<1>4. Superseded(t, prior, r) = two
  BY DEF Superseded, one, two
<1> QED
  BY <1>3, <1>4

\* A rule in another's place: the other ends where it begins.
LEMMA RowSuperseded ==
  ASSUME NEW t, TableInv(t), NEW prior \in RuleIds, NEW r \in RuleIds, NEW row \in Rows,
         row.status = "active", row.by = NoRule, MaySupersede(t, prior, r, row)
  PROVE  LET u == With(Superseded(t, prior, r), r, row) IN
         /\ TableInv(u)
         /\ \A p \in Nat : p < row.eff => ActiveAt(u, p) = ActiveAt(t, p)
<1> DEFINE v == Superseded(t, prior, r)
           u == With(v, r, row)
<1>1. /\ t \in [RuleIds -> Rows] /\ Unlinked(t) /\ ValidLinks(t) /\ NoOverlap(t)
      /\ NoCycle(t) /\ Relieved(t)
  BY DEF TableInv
<1>2. /\ t[prior].status = "active" /\ prior # r /\ row.eff >= t[prior].eff
      /\ v[r].status = "absent" /\ Fits(u, r, row)
  BY DEF MaySupersede, Writable
<1>3. /\ v \in [RuleIds -> Rows]
      /\ v[prior].status = "superseded" /\ v[prior].by = r
      /\ v[prior].eff = t[prior].eff /\ v[prior].amb = t[prior].amb
      /\ \A q \in RuleIds \ {prior} : v[q] = t[q]
  BY <1>1, SupersededFacts
<1> HIDE DEF v
<1>4. /\ u \in [RuleIds -> Rows] /\ u[r] = row
      /\ u[prior].status = "superseded" /\ u[prior].by = r
      /\ u[prior].eff = t[prior].eff /\ u[prior].amb = t[prior].amb
      /\ \A q \in RuleIds \ {prior, r} : u[q] = t[q]
      /\ t[r].status = "absent"
  BY <1>2, <1>3 DEF With
<1> HIDE DEF u
<1>5. /\ Present(u) = Present(t) \cup {r} /\ r \notin Present(t) /\ prior \in Present(t)
      /\ \A q \in Present(t) : /\ q \in RuleIds /\ q # r
                               /\ u[q].eff = t[q].eff /\ u[q].amb = t[q].amb
                               /\ q # prior => u[q] = t[q]
  BY <1>2, <1>4 DEF Present
<1>6. \A q \in Present(t) : t[q].status = "superseded" =>
        q # prior /\ t[q].by \in Present(t) /\ t[q].by # r
  BY <1>1, <1>2, <1>5 DEF ValidLinks
<1>7. \A q \in Present(t) : q # prior => EndOf(u, q) = EndOf(t, q)
  BY <1>5, <1>6 DEF EndOf
<1>8. /\ EndOf(u, prior) = row.eff /\ EndOf(t, prior) = Forever
      /\ EndOf(u, r) = Forever
  BY <1>2, <1>4 DEF EndOf
<1>9. row.eff \in Nat /\ row.eff < Forever /\ Forever \in Nat /\ t[prior].eff \in Nat
  BY <1>1, <1>4, RowTypes
<1>10. \A q \in RuleIds : t[q].by # r
  <2> SUFFICES ASSUME NEW q \in RuleIds, t[q].by = r PROVE FALSE
    OBVIOUS
  <2>1. q \in Present(t) /\ t[q].status = "superseded"
    BY <1>1, RuleIdFacts DEF Unlinked, Present
  <2> QED
    BY <2>1, <1>6
<1>11. Unlinked(u)
  BY <1>1, <1>4 DEF Unlinked
<1>12. ValidLinks(u)
  <2> SUFFICES ASSUME NEW q \in Present(u), u[q].status = "superseded"
               PROVE  /\ u[q].by \in Present(u)
                      /\ \A x \in Present(u) \ {q} : u[x].by # u[q].by
                      /\ u[u[q].by].eff >= u[q].eff
                      /\ u[u[q].by].status = "revoked" => u[u[q].by].end > u[u[q].by].eff
    BY DEF ValidLinks
  <2>1. CASE q = prior
    BY <2>1, <1>2, <1>4, <1>5, <1>10, RuleIdFacts
  <2>2. CASE q # prior
    <3>1. q \in Present(t) /\ u[q] = t[q]
      BY <2>2, <1>4, <1>5
    <3>2. t[q].by \in Present(t) /\ t[q].by # r
      BY <3>1, <1>6
    <3>3. \A x \in Present(u) \ {q} : u[x].by # u[q].by
      BY <3>1, <3>2, <1>1, <1>4, <1>5, RuleIdFacts DEF ValidLinks
    <3>4. u[t[q].by].status = "revoked" => u[t[q].by] = t[t[q].by]
      BY <3>2, <1>4, <1>5
    <3> QED
      BY <3>1, <3>2, <3>3, <3>4, <1>1, <1>5 DEF ValidLinks
  <2> QED
    BY <2>1, <2>2
<1>13. NoOverlap(u)
  <2> SUFFICES ASSUME NEW x \in Present(u), NEW q \in Present(u), x # q,
                      u[x].amb = u[q].amb, u[x].amb # NoAmbiguity
               PROVE  ~ Overlaps(u[x].eff, EndOf(u, x), u[q].eff, EndOf(u, q))
    BY DEF NoOverlap
  <2>1. \A y \in Present(t) :
          /\ EndOf(t, y) \in Nat /\ EndOf(u, y) \in Nat /\ EndOf(u, y) <= EndOf(t, y)
          /\ t[y].eff \in Nat
    <3> SUFFICES ASSUME NEW y \in Present(t)
                 PROVE /\ EndOf(t, y) \in Nat /\ EndOf(u, y) \in Nat
                       /\ EndOf(u, y) <= EndOf(t, y) /\ t[y].eff \in Nat
      OBVIOUS
    <3>1. EndOf(t, y) \in Nat
      BY EndType
    <3>2. t[y].eff \in Nat
      BY <1>1, <1>5, RowTypes
    <3> QED
      BY <3>1, <3>2, <1>7, <1>8, <1>9
  <2>2. CASE x \in Present(t) /\ q \in Present(t)
    <3>1. ~ Overlaps(t[x].eff, EndOf(t, x), t[q].eff, EndOf(t, q))
      BY <2>2, <1>1, <1>5 DEF NoOverlap
    <3> QED
      BY <3>1, <2>1, <2>2, <1>5, CutShort
  <2>3. CASE x = r /\ q # r
    BY <2>3, <1>2, <1>4, <1>8 DEF Fits
  <2>4. CASE q = r /\ x # r
    BY <2>4, <1>2, <1>4, <1>8 DEF Fits, Overlaps
  <2> QED
    BY <2>2, <2>3, <2>4, <1>5
<1>14. NoCycle(u)
  <2> SUFFICES ASSUME NEW S \in SUBSET Present(u), S # {}, \A q \in S : u[q].by \in S
               PROVE  FALSE
    BY DEF NoCycle
  <2>1. r \notin S
    BY <1>4, <1>5, RuleIdFacts DEF Present
  <2>2. prior \notin S
    BY <2>1, <1>4
  <2>3. S \in SUBSET Present(t) /\ \A q \in S : t[q].by \in S
    BY <2>1, <2>2, <1>5
  <2> QED
    BY <2>3, <1>1 DEF NoCycle
<1>15. r \in ActiveAt(u, row.eff) /\ u[r].eff = row.eff
  BY <1>4, <1>5, <1>9 DEF ActiveAt
<1>16. Relieved(u)
  <2> SUFFICES ASSUME NEW x \in RuleIds, u[x].status = "superseded"
               PROVE  \E q \in RuleIds : Relieves(u, x, q)
    BY DEF Relieved
  <2>1. CASE EndOf(u, x) = row.eff
    BY <2>1, <1>4, <1>5, <1>15 DEF Relieves
  <2>2. CASE EndOf(u, x) # row.eff
    <3>1. x # prior /\ x \in Present(t) /\ t[x].status = "superseded"
      BY <2>2, <1>4, <1>5, <1>8 DEF Present
    <3>2. PICK q \in RuleIds : Relieves(t, x, q)
      BY <3>1, <1>1 DEF Relieved
    <3>3. /\ EndOf(u, x) = EndOf(t, x) /\ q \in ActiveAt(t, EndOf(t, x))
          /\ t[q].eff = EndOf(t, x) /\ q \in Present(t)
      BY <3>1, <3>2, <1>7 DEF Relieves, ActiveAt
    <3>4. \E y \in Present(u) : u[y].by = q
      <4>1. PICK y \in Present(t) : t[y].by = q
        BY <3>2 DEF Relieves
      <4>2. y # prior
        BY <4>1, <1>1, <1>2, RuleIdFacts DEF Unlinked
      <4> QED
        BY <4>1, <4>2, <1>5
    <3>5. q \in ActiveAt(u, EndOf(t, x))
      <4>1. CASE q = prior
        BY <4>1, <3>3, <2>2, <1>2, <1>4, <1>5, <1>9 DEF ActiveAt
      <4>2. CASE q # prior
        BY <4>2, <3>3, <1>5, <1>6 DEF ActiveAt
      <4> QED
        BY <4>1, <4>2
    <3> QED
      BY <3>3, <3>4, <3>5, <1>5 DEF Relieves
  <2> QED
    BY <2>1, <2>2
<1>17. TableInv(u)
  BY <1>4, <1>11, <1>12, <1>13, <1>14, <1>16 DEF TableInv
<1>18. ASSUME NEW p \in Nat, p < row.eff
       PROVE  ActiveAt(u, p) = ActiveAt(t, p)
  <2>1. p < Forever /\ ~ (row.eff <= p)
    BY <1>18, <1>9
  <2>2. ActiveAt(u, p) = {q \in Present(u) : u[q].eff <= p /\ p < EndOf(u, q)}
    BY <2>1, <1>17, ActiveFacts
  <2>3. ActiveAt(t, p) = {q \in Present(t) : t[q].eff <= p /\ p < EndOf(t, q)}
    BY <2>1, ActiveFacts
  <2> QED
    BY <1>18, <2>1, <2>2, <2>3, <1>4, <1>5, <1>7, <1>8
<1> QED
  BY <1>17, <1>18 DEF u, v

\* A row revoked: those that ended where it began are still relieved by it.
LEMMA RowRevoked ==
  ASSUME NEW t, TableInv(t), NEW r \in RuleIds, NEW end \in Positions,
         MayRevoke(t, r, end)
  PROVE  /\ TableInv(Revoked(t, r, end))
         /\ \A p \in Nat : p < end => ActiveAt(Revoked(t, r, end), p) = ActiveAt(t, p)
<1> DEFINE one == [t EXCEPT ![r].status = "revoked"]
           u == [one EXCEPT ![r].end = end]
<1>1. /\ t \in [RuleIds -> Rows] /\ Unlinked(t) /\ ValidLinks(t) /\ NoOverlap(t)
      /\ NoCycle(t) /\ Relieved(t)
  BY DEF TableInv
<1>2. /\ t[r].status = "active"
      /\ (\E q \in Present(t) : t[q].by = r) => end > t[r].eff
  BY DEF MayRevoke
<1>3. t[r] \in Rows
  BY <1>1
<1>4. /\ one[r] \in Rows /\ one[r].status = "revoked" /\ one[r].by = t[r].by
      /\ one[r].eff = t[r].eff /\ one[r].amb = t[r].amb
      /\ one \in [RuleIds -> Rows] /\ \A q \in RuleIds \ {r} : one[q] = t[q]
  BY <1>1, <1>3 DEF Rows
<1>5. Revoked(t, r, end) = u
  BY DEF Revoked
<1> HIDE DEF one
<1>6. /\ u[r] \in Rows /\ u[r].status = "revoked" /\ u[r].by = t[r].by
      /\ u[r].eff = t[r].eff /\ u[r].amb = t[r].amb /\ u[r].end = end
      /\ u \in [RuleIds -> Rows] /\ \A q \in RuleIds \ {r} : u[q] = t[q]
  BY <1>4 DEF Rows
<1> HIDE DEF u
<1>7. end \in Nat /\ end < Forever /\ Forever \in Nat /\ t[r].eff \in Nat
  BY <1>1, <1>6, RowTypes
<1>8. /\ Present(u) = Present(t) /\ r \in Present(t)
      /\ \A q \in RuleIds : u[q].eff = t[q].eff /\ u[q].amb = t[q].amb /\ u[q].by = t[q].by
  BY <1>2, <1>6 DEF Present
<1>9. \A q \in Present(t) : q \in RuleIds /\ (t[q].status = "superseded" =>
        q # r /\ t[q].by \in Present(t))
  BY <1>1, <1>2 DEF ValidLinks, Present
<1>10. /\ \A q \in Present(t) : q # r => EndOf(u, q) = EndOf(t, q)
       /\ EndOf(u, r) = end /\ EndOf(t, r) = Forever
  BY <1>2, <1>6, <1>8, <1>9 DEF EndOf
<1>11. Unlinked(u)
  BY <1>1, <1>2, <1>6, <1>8 DEF Unlinked
<1>12. ValidLinks(u)
  <2> SUFFICES ASSUME NEW q \in Present(u), u[q].status = "superseded"
               PROVE  /\ u[q].by \in Present(u)
                      /\ \A x \in Present(u) \ {q} : u[x].by # u[q].by
                      /\ u[u[q].by].eff >= u[q].eff
                      /\ u[u[q].by].status = "revoked" => u[u[q].by].end > u[u[q].by].eff
    BY DEF ValidLinks
  <2>1. q \in Present(t) /\ q # r /\ u[q] = t[q] /\ t[q].by \in Present(t)
    BY <1>6, <1>8, <1>9
  <2>2. CASE t[q].by = r
    BY <2>1, <2>2, <1>1, <1>2, <1>6, <1>8, <1>9 DEF ValidLinks
  <2>3. CASE t[q].by # r
    BY <2>1, <2>3, <1>1, <1>6, <1>8, <1>9 DEF ValidLinks
  <2> QED
    BY <2>2, <2>3
<1>13. NoOverlap(u)
  <2> SUFFICES ASSUME NEW x \in Present(t), NEW q \in Present(t), x # q,
                      t[x].amb = t[q].amb, t[x].amb # NoAmbiguity
               PROVE  ~ Overlaps(u[x].eff, EndOf(u, x), u[q].eff, EndOf(u, q))
    BY <1>8, <1>9 DEF NoOverlap
  <2>1. \A y \in Present(t) :
          /\ EndOf(t, y) \in Nat /\ EndOf(u, y) \in Nat /\ EndOf(u, y) <= EndOf(t, y)
          /\ t[y].eff \in Nat
    <3> SUFFICES ASSUME NEW y \in Present(t)
                 PROVE /\ EndOf(t, y) \in Nat /\ EndOf(u, y) \in Nat
                       /\ EndOf(u, y) <= EndOf(t, y) /\ t[y].eff \in Nat
      OBVIOUS
    <3>1. EndOf(t, y) \in Nat
      BY EndType
    <3>2. t[y].eff \in Nat
      BY <1>1, <1>9, RowTypes
    <3> QED
      BY <3>1, <3>2, <1>7, <1>10
  <2>2. ~ Overlaps(t[x].eff, EndOf(t, x), t[q].eff, EndOf(t, q))
    BY <1>1 DEF NoOverlap
  <2> QED
    BY <2>1, <2>2, <1>8, <1>9, CutShort
<1>14. NoCycle(u)
  BY <1>1, <1>8, <1>9 DEF NoCycle
<1>15. Relieved(u)
  <2> SUFFICES ASSUME NEW x \in RuleIds, u[x].status = "superseded"
               PROVE  \E q \in RuleIds : Relieves(u, x, q)
    BY DEF Relieved
  <2>1. x # r /\ x \in Present(t) /\ t[x].status = "superseded"
    BY <1>6 DEF Present
  <2>2. PICK q \in RuleIds : Relieves(t, x, q)
    BY <2>1, <1>1 DEF Relieved
  <2>3. /\ EndOf(u, x) = EndOf(t, x) /\ q \in ActiveAt(t, EndOf(t, x))
        /\ t[q].eff = EndOf(t, x) /\ q \in Present(t)
        /\ \E y \in Present(t) : t[y].by = q
    BY <2>1, <2>2, <1>10 DEF Relieves, ActiveAt
  <2>4. q \in ActiveAt(u, EndOf(t, x))
    <3>1. CASE q = r
      BY <3>1, <2>3, <1>2, <1>6, <1>7, <1>8 DEF ActiveAt
    <3>2. CASE q # r
      BY <3>2, <2>3, <1>6, <1>8, <1>9 DEF ActiveAt
    <3> QED
      BY <3>1, <3>2
  <2> QED
    BY <2>3, <2>4, <1>8, <1>9 DEF Relieves
<1>16. TableInv(u)
  BY <1>6, <1>11, <1>12, <1>13, <1>14, <1>15 DEF TableInv
<1>17. ASSUME NEW p \in Nat, p < end PROVE ActiveAt(u, p) = ActiveAt(t, p)
  <2>1. p < Forever
    BY <1>7, <1>17
  <2>2. ActiveAt(u, p) = {q \in Present(u) : u[q].eff <= p /\ p < EndOf(u, q)}
    BY <2>1, <1>16, <1>17, ActiveFacts
  <2>3. ActiveAt(t, p) = {q \in Present(t) : t[q].eff <= p /\ p < EndOf(t, q)}
    BY <2>1, <1>17, ActiveFacts
  <2> QED
    BY <2>1, <2>2, <2>3, <1>8, <1>9, <1>10, <1>17
<1> QED
  BY <1>5, <1>16, <1>17

-----------------------------------------------------------------------------
\* Steps

LEMMA RulesInit == ASSUME Init PROVE RulesInv
<1>1. /\ rules = [r \in RuleIds |-> NoRow] /\ before = [r \in RuleIds |-> NoRow]
      /\ ordinal = 0 /\ contexts = [i \in 1 .. Horizon |-> {}]
      /\ replay = "none" /\ fresh = FALSE
  BY DEF Init
<1>2. NoRow \in Rows /\ NoRow.status = "absent" /\ NoRow.by = NoRule
  BY HorizonAssumption DEF NoRow, Rows, Positions, At
<1>3. ASSUME NEW t, t = [r \in RuleIds |-> NoRow] PROVE TableInv(t)
  <2>1. \A r \in RuleIds : t[r] = NoRow
    BY <1>3
  <2>2. t \in [RuleIds -> Rows] /\ Present(t) = {}
    BY <1>2, <1>3, <2>1 DEF Present
  <2>3. Unlinked(t) /\ Relieved(t)
    BY <1>2, <2>1 DEF Unlinked, Relieved
  <2>4. ValidLinks(t) /\ NoOverlap(t)
    BY <2>2 DEF ValidLinks, NoOverlap
  <2>5. NoCycle(t)
    BY <2>2 DEF NoCycle
  <2> QED
    BY <2>2, <2>3, <2>4, <2>5 DEF TableInv
<1>4. TypeOK
  <2>1. rules \in [RuleIds -> Rows] /\ before \in [RuleIds -> Rows]
    BY <1>1, <1>2
  <2>2. contexts \in [1 .. Horizon -> SUBSET RuleIds]
    BY <1>1
  <2>3. ordinal \in 0 .. Horizon
    BY <1>1, HorizonAssumption
  <2> QED
    BY <1>1, <2>1, <2>2, <2>3 DEF TypeOK
<1>5. ContextsStand /\ SnapshotStands
  <2>1. Standing = 1 .. 0 /\ ordinal - 1 = 0 - 1
    BY <1>1 DEF Standing
  <2>2. \A i \in 1 .. 0 : FALSE
    OBVIOUS
  <2>3. \A i \in 1 .. (0 - 1) : FALSE
    OBVIOUS
  <2> QED
    BY <2>1, <2>2, <2>3 DEF ContextsStand, SnapshotStands
<1> QED
  BY <1>1, <1>3, <1>4, <1>5 DEF RulesInv

\* A write at the open prompt that changes nothing up to the latest turn.
LEMMA ManagedStep ==
  ASSUME RulesInv, NEW t, TableInv(t), Managed(t),
         \A p \in Nat : p <= At(ordinal) => ActiveAt(t, p) = ActiveAt(rules, p)
  PROVE  RulesInv'
<1>1. /\ rules' = t /\ fresh' = FALSE /\ replay # "pending"
      /\ ordinal' = ordinal /\ contexts' = contexts /\ before' = before /\ replay' = replay
  BY DEF Managed
<1>2. TypeOK'
  BY <1>1 DEF RulesInv, TypeOK, TableInv
<1>3. TableInv(rules') /\ TableInv(before')
  BY <1>1 DEF RulesInv
<1>4. SnapshotStands' /\ (replay' # "none" => ordinal' > 0)
  BY <1>1 DEF RulesInv, SnapshotStands
<1>5. ContextsStand'
  <2> SUFFICES ASSUME NEW i \in 1 .. ordinal
               PROVE  ActiveAt(t, At(i)) = contexts[i]
    BY <1>1 DEF ContextsStand, Standing
  <2>1. ordinal \in Nat /\ At(i) \in Nat /\ At(i) <= At(ordinal)
    BY HorizonAssumption DEF RulesInv, TypeOK, At
  <2>2. ActiveAt(rules, At(i)) = contexts[i]
    BY <1>1 DEF RulesInv, ContextsStand, Standing
  <2> QED
    BY <2>1, <2>2
<1> QED
  BY <1>2, <1>3, <1>4, <1>5 DEF RulesInv

\* What begins at a later ordinal begins after the latest turn.
LEMMA ProspectiveFacts ==
  ASSUME RulesInv, NEW e \in Positions, OrdinalOf(e) > ordinal
  PROVE  /\ ordinal \in Nat /\ OrdinalOf(e) \in 1 .. Horizon
         /\ \A p \in Nat : p <= At(ordinal) => p < e
<1>1. ordinal \in Nat /\ e \in Nat /\ e <= At(Horizon)
  BY HorizonAssumption DEF RulesInv, TypeOK, Positions, At
<1> QED
  BY <1>1, HorizonAssumption DEF OrdinalOf, At

LEMMA ResolveStep ==
  ASSUME RulesInv, NEW a \in Ambiguities, NEW p \in Positions, Resolve(a, p)
  PROVE  RulesInv'
<1> DEFINE eff == Canonical(p, ordinal)
           r == RulingId(a, eff)
           row == NewRow(a, eff)
           t == With(rules, r, row)
<1>1. ordinal \in Nat
  BY DEF RulesInv, TypeOK
<1>2. OrdinalOf(eff) > ordinal /\ Writable(rules, r, row) /\ Managed(t)
  BY DEF Resolve, Recordable
<1>3. eff \in Positions
  BY <1>1, CanonicalFacts
<1> HIDE DEF eff
<1>4. OrdinalOf(eff) \in 1 .. Horizon /\ \A q \in Nat : q <= At(ordinal) => q < eff
  BY <1>2, <1>3, ProspectiveFacts
<1>5. r \in RuleIds
  BY <1>4, RuleIdFacts DEF RulingId
<1>6. row \in Rows /\ row.status = "active" /\ row.by = NoRule /\ row.eff = eff
  BY <1>3, NewRowFacts
<1> HIDE DEF r, row
<1>7. TableInv(t) /\ \A q \in Nat : q < eff => ActiveAt(t, q) = ActiveAt(rules, q)
  BY <1>2, <1>5, <1>6, RowAdded DEF RulesInv
<1> HIDE DEF t
<1> QED
  BY <1>2, <1>4, <1>7, ManagedStep

LEMMA AddStep ==
  ASSUME RulesInv, NEW r \in Names, NEW a \in Ambiguities \cup {NoAmbiguity},
         NEW p \in Positions, Add(r, a, p)
  PROVE  RulesInv'
<1> DEFINE eff == Canonical(p, ordinal)
           row == NewRow(a, eff)
           t == With(rules, r, row)
<1>1. ordinal \in Nat /\ r \in RuleIds
  BY RuleIdFacts DEF RulesInv, TypeOK
<1>2. eff \in Positions
  BY <1>1, CanonicalFacts
<1>3. Prospective(row.eff) /\ Writable(rules, r, row) /\ Managed(t)
  BY DEF Add
<1> HIDE DEF eff
<1>4. row \in Rows /\ row.status = "active" /\ row.by = NoRule /\ row.eff = eff
  BY <1>2, NewRowFacts
<1> HIDE DEF row
<1>5. \A q \in Nat : q <= At(ordinal) => q < eff
  BY <1>2, <1>3, <1>4, ProspectiveFacts DEF Prospective
<1>6. TableInv(t) /\ \A q \in Nat : q < eff => ActiveAt(t, q) = ActiveAt(rules, q)
  BY <1>1, <1>3, <1>4, RowAdded DEF RulesInv
<1> HIDE DEF t
<1> QED
  BY <1>3, <1>5, <1>6, ManagedStep

LEMMA SupersedeStep ==
  ASSUME RulesInv, NEW prior \in RuleIds, NEW r \in Names,
         NEW a \in Ambiguities \cup {NoAmbiguity}, NEW p \in Positions,
         Supersede(prior, r, a, p)
  PROVE  RulesInv'
<1> DEFINE eff == Canonical(p, ordinal)
           row == NewRow(a, eff)
           t == With(Superseded(rules, prior, r), r, row)
<1>1. ordinal \in Nat /\ r \in RuleIds
  BY RuleIdFacts DEF RulesInv, TypeOK
<1>2. eff \in Positions
  BY <1>1, CanonicalFacts
<1>3. Prospective(row.eff) /\ MaySupersede(rules, prior, r, row) /\ Managed(t)
  BY DEF Supersede
<1> HIDE DEF eff
<1>4. row \in Rows /\ row.status = "active" /\ row.by = NoRule /\ row.eff = eff
  BY <1>2, NewRowFacts
<1> HIDE DEF row
<1>5. \A q \in Nat : q <= At(ordinal) => q < eff
  BY <1>2, <1>3, <1>4, ProspectiveFacts DEF Prospective
<1>6. TableInv(t) /\ \A q \in Nat : q < eff => ActiveAt(t, q) = ActiveAt(rules, q)
  BY <1>1, <1>3, <1>4, RowSuperseded DEF RulesInv
<1> HIDE DEF t
<1> QED
  BY <1>3, <1>5, <1>6, ManagedStep

LEMMA RevokeStep ==
  ASSUME RulesInv, NEW r \in RuleIds, NEW p \in Positions, Revoke(r, p)
  PROVE  RulesInv'
<1> DEFINE end == Canonical(p, ordinal)
           t == Revoked(rules, r, end)
<1>1. ordinal \in Nat
  BY DEF RulesInv, TypeOK
<1>2. end \in Positions
  BY <1>1, CanonicalFacts
<1>3. MayRevoke(rules, r, end) /\ Prospective(end) /\ Managed(t)
  BY DEF Revoke
<1> HIDE DEF end
<1>4. \A q \in Nat : q <= At(ordinal) => q < end
  BY <1>2, <1>3, ProspectiveFacts DEF Prospective
<1>5. TableInv(t) /\ \A q \in Nat : q < end => ActiveAt(t, q) = ActiveAt(rules, q)
  BY <1>2, <1>3, RowRevoked DEF RulesInv
<1> HIDE DEF t
<1> QED
  BY <1>3, <1>4, <1>5, ManagedStep

\* The precedents of a turn are new rows of different ambiguities.
LEMMA PrecedentsAdded ==
  ASSUME TypeOK, NEW n \in Nat, n < Horizon, NEW P \in SUBSET Ambiguities,
         \A a \in P : Recordable(rules, a, Future(n + 1), n)
  PROVE  LET N == {RulingId(a, Future(n + 1)) : a \in P}
             u == WithPrecedents(rules, P, n)
         IN  Adds(rules, N, u) /\ \A r \in N : u[r].eff = Future(n + 1)
<1> DEFINE f == Future(n + 1)
           N == {RulingId(a, f) : a \in P}
           u == WithPrecedents(rules, P, n)
<1>1. n + 1 \in 1 .. Horizon /\ f \in Positions /\ OrdinalOf(f) = n + 1
  BY HorizonAssumption DEF Future, OrdinalOf, Positions, At
<1>2. \A a \in Ambiguities : RulingId(a, f) = <<a, n + 1>> /\ RulingId(a, f) \in RuleIds
  BY <1>1, RuleIdFacts DEF RulingId
<1>3. \A a \in Ambiguities : RulingId(a, f)[1] = a
  BY <1>1 DEF RulingId
<1>4. \A r \in RuleIds :
        u[r] = IF \E a \in P : r = RulingId(a, f) THEN NewRow(r[1], f) ELSE rules[r]
  BY DEF WithPrecedents
<1>5. \A a \in P : u[RulingId(a, f)] = NewRow(a, f)
  BY <1>2, <1>3, <1>4
<1>6. \A r \in RuleIds \ N : u[r] = rules[r]
  BY <1>4
<1>7. \A a \in P : /\ NewRow(a, f) \in Rows /\ NewRow(a, f).status = "active"
                   /\ NewRow(a, f).by = NoRule
                   /\ NewRow(a, f).amb = a /\ NewRow(a, f).eff = f
  BY <1>1, NewRowFacts
<1>8. u = [r \in RuleIds |-> u[r]]
  BY DEF WithPrecedents
<1>9. \A a \in P : Writable(rules, RulingId(a, f), NewRow(a, f))
  BY DEF Recordable
<1> HIDE DEF f, u
<1>10. N \subseteq RuleIds
  BY <1>2
<1>11. \A r \in RuleIds : u[r] \in Rows
  BY <1>5, <1>6, <1>7 DEF TypeOK
<1>12. u \in [RuleIds -> Rows]
  BY <1>8, <1>11
<1>13. \A r \in N : /\ rules[r].status = "absent"
                    /\ u[r].status = "active" /\ u[r].by = NoRule
                    /\ Fits(With(rules, r, u[r]), r, u[r])
  BY <1>5, <1>7, <1>9 DEF Writable
<1>14. \A r, q \in N : r # q => u[r].amb # u[q].amb
  BY <1>5, <1>7
<1>15. Adds(rules, N, u)
  BY <1>6, <1>10, <1>12, <1>13, <1>14 DEF Adds
<1>16. \A r \in N : u[r].eff = f
  BY <1>5, <1>7
<1> QED
  BY <1>15, <1>16 DEF f, u

LEMMA AcceptTurnStep == ASSUME RulesInv, AcceptTurn PROVE RulesInv'
<1> DEFINE n == IF replay = "pending" THEN ordinal ELSE ordinal + 1
           f == Future(n + 1)
<1>1. PICK P \in SUBSET Ambiguities :
        /\ \A a \in P : Recordable(rules, a, f, n)
        /\ rules' = WithPrecedents(rules, P, n)
  BY DEF AcceptTurn
<1>2. /\ n < Horizon /\ ordinal' = n /\ before' = rules /\ fresh' = TRUE
      /\ contexts' = [contexts EXCEPT ![n] = ActiveAt(rules, At(n))]
      /\ replay' = IF replay = "pending" THEN "replayed" ELSE "available"
  BY DEF AcceptTurn
<1>3. TypeOK /\ TableInv(rules)
  BY DEF RulesInv
<1>4. n \in Nat /\ n > 0 /\ n \in 1 .. Horizon
  BY <1>2, HorizonAssumption DEF RulesInv, TypeOK
<1>5. Standing = 1 .. (n - 1)
  BY DEF Standing, RulesInv, TypeOK
<1> HIDE DEF n
<1> DEFINE N == {RulingId(a, f) : a \in P}
           u == WithPrecedents(rules, P, n)
<1>6. Adds(rules, N, u) /\ \A r \in N : u[r].eff = f
  BY <1>1, <1>2, <1>3, <1>4, PrecedentsAdded
<1>7. f \in Nat /\ f < Forever /\ \A i \in Nat : i <= n => At(i) \in Nat /\ At(i) < f
  BY <1>2, <1>4, HorizonAssumption DEF Future, At, Forever
<1> HIDE DEF u, N, f
<1>8. /\ TableInv(u)
      /\ \A p \in Nat : p < Forever /\ (\A r \in N : p < u[r].eff) =>
           ActiveAt(u, p) = ActiveAt(rules, p)
  BY <1>3, <1>6, RowsAdded
<1>9. \A p \in Nat : p < f => p < Forever
  BY <1>7, HorizonAssumption DEF Forever, At
<1>10. \A i \in Nat : i <= n => ActiveAt(u, At(i)) = ActiveAt(rules, At(i))
  BY <1>6, <1>7, <1>8, <1>9
<1>11. rules' = u
  BY <1>1 DEF u
<1>12. TypeOK'
  <2>1. ActiveAt(rules, At(n)) \subseteq RuleIds
    BY DEF ActiveAt, Present
  <2> QED
    BY <2>1, <1>2, <1>3, <1>4, <1>8, <1>11 DEF TypeOK, TableInv
<1>13. \A i \in 1 .. (n - 1) : contexts'[i] = contexts[i] /\ ActiveAt(rules, At(i)) = contexts[i]
  BY <1>2, <1>3, <1>4, <1>5 DEF RulesInv, ContextsStand, TypeOK
<1>14. contexts'[n] = ActiveAt(rules, At(n))
  BY <1>2, <1>3, <1>4 DEF TypeOK
<1>15. SnapshotStands'
  BY <1>2, <1>13 DEF SnapshotStands
<1>16. ContextsStand'
  <2>1. Standing' = 1 .. n
    BY <1>2 DEF Standing
  <2> SUFFICES ASSUME NEW i \in 1 .. n PROVE ActiveAt(u, At(i)) = contexts'[i]
    BY <2>1, <1>11 DEF ContextsStand
  <2>2. ActiveAt(u, At(i)) = ActiveAt(rules, At(i))
    BY <1>4, <1>10
  <2> QED
    BY <2>2, <1>4, <1>13, <1>14
<1> QED
  BY <1>2, <1>3, <1>4, <1>8, <1>11, <1>12, <1>15, <1>16 DEF RulesInv

LEMMA DisputeStep ==
  ASSUME RulesInv, NEW r \in Names, NEW a \in Ambiguities \cup {NoAmbiguity},
         NEW prior \in RuleIds \cup {NoRule}, Dispute(r, a, prior)
  PROVE  RulesInv'
<1> DEFINE e == At(ordinal)
           row == NewRow(a, e)
<1>1. /\ replay = "available" /\ replay' = "pending" /\ fresh' = FALSE
      /\ ordinal' = ordinal /\ contexts' = contexts /\ before' = before
      /\ IF prior = NoRule
         THEN Writable(before, r, row) /\ rules' = With(before, r, row)
         ELSE /\ MaySupersede(before, prior, r, row)
              /\ rules' = With(Superseded(before, prior, r), r, row)
  BY DEF Dispute
<1>2. ordinal \in 1 .. Horizon /\ TableInv(before) /\ TypeOK
  BY <1>1, HorizonAssumption DEF RulesInv, TypeOK
<1>3. e \in Positions /\ \A i \in 1 .. (ordinal - 1) : At(i) \in Nat /\ At(i) < e
  BY <1>2, HorizonAssumption DEF Positions, At
<1>4. r \in RuleIds
  BY RuleIdFacts
<1> HIDE DEF e
<1>5. row \in Rows /\ row.status = "active" /\ row.by = NoRule /\ row.eff = e
  BY <1>3, NewRowFacts
<1> HIDE DEF row
<1>6. TableInv(rules') /\ \A p \in Nat : p < e => ActiveAt(rules', p) = ActiveAt(before, p)
  <2>1. CASE prior = NoRule
    BY <2>1, <1>1, <1>2, <1>4, <1>5, RowAdded
  <2>2. CASE prior # NoRule
    BY <2>2, <1>1, <1>2, <1>4, <1>5, RowSuperseded
  <2> QED
    BY <2>1, <2>2
<1>7. TypeOK'
  BY <1>1, <1>2, <1>6 DEF TypeOK, TableInv
<1>8. SnapshotStands'
  BY <1>1 DEF RulesInv, SnapshotStands
<1>9. ContextsStand'
  <2> SUFFICES ASSUME NEW i \in 1 .. (ordinal - 1)
               PROVE  ActiveAt(rules', At(i)) = contexts[i]
    BY <1>1 DEF ContextsStand, Standing
  <2> QED
    BY <1>3, <1>6 DEF RulesInv, SnapshotStands
<1> QED
  BY <1>1, <1>2, <1>6, <1>7, <1>8, <1>9 DEF RulesInv

LEMMA RulesNext == ASSUME RulesInv, [Next]_vars PROVE RulesInv'
<1>1. CASE AcceptTurn
  BY <1>1, AcceptTurnStep
<1>2. CASE OtherChange
  BY <1>2, ManagedStep DEF OtherChange, RulesInv
<1>3. ASSUME NEW a \in Ambiguities, NEW p \in Positions, Resolve(a, p)
      PROVE  RulesInv'
  BY <1>3, ResolveStep
<1>4. ASSUME NEW r \in Names, NEW a \in Ambiguities \cup {NoAmbiguity},
             NEW p \in Positions,
             Add(r, a, p) \/ \E prior \in RuleIds : Supersede(prior, r, a, p)
      PROVE  RulesInv'
  BY <1>4, AddStep, SupersedeStep
<1>5. ASSUME NEW r \in RuleIds, NEW p \in Positions, Revoke(r, p) PROVE RulesInv'
  BY <1>5, RevokeStep
<1>6. ASSUME NEW r \in Names, NEW a \in Ambiguities \cup {NoAmbiguity},
             NEW prior \in RuleIds \cup {NoRule}, Dispute(r, a, prior)
      PROVE  RulesInv'
  BY <1>6, DisputeStep
<1>7. CASE UNCHANGED vars
  <2>1. /\ rules' = rules /\ ordinal' = ordinal /\ contexts' = contexts
        /\ before' = before /\ replay' = replay /\ fresh' = fresh
    BY <1>7 DEF vars
  <2> QED
    BY <2>1 DEF RulesInv, TypeOK, ContextsStand, Standing, SnapshotStands
<1> QED
  BY <1>1, <1>2, <1>3, <1>4, <1>5, <1>6, <1>7 DEF Next

-----------------------------------------------------------------------------
\* The theorems, for any ambiguities, names and horizon.

\* The table, the snapshot of the latest turn and the contexts of the turns stay
\* consistent with one another (repository.ts, campaignRules.ts).
THEOREM RulesInvariant == Spec => []RulesInv
<1>1. Init => RulesInv
  BY RulesInit
<1>2. RulesInv /\ [Next]_vars => RulesInv'
  BY RulesNext
<1> QED
  BY <1>1, <1>2, PTL DEF Spec

\* No sequence of writes, turns and disputes leaves a table that the validation
\* of the whole would refuse.
THEOREM TablesStayValid == Spec => []TableValid
<1>1. RulesInv => TableValid
  BY DEF RulesInv, TableInv, TableValid
<1> QED
  BY <1>1, RulesInvariant, PTL

\* An ambiguity has one answer at most at every position.
THEOREM RulingsStayUnique == Spec => []OneRuling
<1>1. ASSUME RulesInv PROVE OneRuling
  <2> SUFFICES ASSUME NEW a \in Ambiguities, NEW p \in Positions,
                      NEW r \in RulingsAt(rules, a, p), NEW q \in RulingsAt(rules, a, p),
                      r # q
               PROVE  FALSE
    BY DEF OneRuling
  <2>1. TableInv(rules) /\ p \in Nat /\ p < Forever
    BY <1>1, HorizonAssumption DEF RulesInv, Positions, At, Forever
  <2>2. ActiveAt(rules, p) =
          {x \in Present(rules) : rules[x].eff <= p /\ p < EndOf(rules, x)}
    BY <2>1, ActiveFacts
  <2>3. /\ r \in Present(rules) /\ q \in Present(rules)
        /\ rules[r].eff <= p /\ p < EndOf(rules, r)
        /\ rules[q].eff <= p /\ p < EndOf(rules, q)
        /\ rules[r].amb = a /\ rules[q].amb = a
    BY <2>2 DEF RulingsAt
  <2>4. ~ Overlaps(rules[r].eff, EndOf(rules, r), rules[q].eff, EndOf(rules, q))
    BY <2>1, <2>3, NamesAssumption DEF TableInv, NoOverlap
  <2>5. /\ rules[r].eff \in Nat /\ EndOf(rules, r) \in Nat
        /\ rules[q].eff \in Nat /\ EndOf(rules, q) \in Nat
    <3>1. r \in RuleIds /\ q \in RuleIds /\ rules \in [RuleIds -> Rows]
      BY <2>1, <2>3 DEF Present, TableInv
    <3> QED
      BY <3>1, <2>1, <2>3, RowTypes, EndType
  <2> QED
    BY <2>1, <2>3, <2>4, <2>5 DEF Overlaps
<1> QED
  BY <1>1, RulesInvariant, PTL

\* No later write, and no dispute of a later turn, changes the rules that an
\* accepted turn was adjudicated under (docs/campaign-rules.md).
THEOREM TurnsKeepTheirRules == Spec => []ContextsStand
<1>1. RulesInv => ContextsStand
  BY DEF RulesInv
<1> QED
  BY <1>1, RulesInvariant, PTL

\* Where a superseded rule ends another takes over at once, although a
\* replacement that is scheduled may be revoked or superseded itself.
THEOREM LinesContinue == Spec => []Continuity
<1>1. ASSUME RulesInv PROVE Continuity
  BY <1>1 DEF RulesInv, TableInv, Relieved, Relieves, Continuity
<1> QED
  BY <1>1, RulesInvariant, PTL
=============================================================================
