--------------------------- MODULE CustodyProofs ---------------------------
(***************************************************************************)
(* TLAPS proofs about CharacterCustody, for any number of campaigns, files,*)
(* copies, characters, slots and changes: its types, that the timeline of  *)
(* a character whose copies were stamped is never reverted, and, where each*)
(* campaign has one file, that its custody is sound.                       *)
(***************************************************************************)
EXTENDS CharacterCustody, TLAPS

-----------------------------------------------------------------------------
\* A party slot is linked and stamped to revisions that exist, and a copy has
\* the progress of the revision of its stamp.
Row(f) ==
  /\ f.char \in Chars => Registered(f.char)
  /\ f.stamped \in Chars => f.synced \in 1 .. HeadRevision(f.stamped)
  /\ f.stamped = NoChar => f.synced = 0
  /\ f.char \in Chars \ exempted /\ f.stamped = f.char =>
       timeline[f.char][f.synced] \subseteq f.sheet

Rows ==
  \A d \in Dbs : \A s \in Slots :
    /\ Row(file[d][s])
    /\ \A saved \in backup[d] : Row(saved[s])

\* So does the copy that is about to be stamped.
Due(d) ==
  LET c == due[d].char
      r == due[d].rev
      f == file[d][due[d].slot]
  IN /\ f.char = c
     /\ r \in 1 .. HeadRevision(c)
     /\ c \notin exempted => timeline[c][r] \subseteq f.sheet

Dues == \A d \in Dbs : due[d] # NoStamp => Due(d)

\* Tasks but imports are about linked slots, and a file that is not there has
\* none.
Plans ==
  \A d \in Dbs :
    /\ pc[d] = "absent" => plan[d] = NoPlan /\ due[d] = NoStamp
    /\ \A s \in Slots :
         plan[d][s] \notin {"done", "import"} => file[d][s].char \in Chars

\* The inductive invariant.
IInv == TypeOK /\ StampedNeverRevert /\ Rows /\ Dues /\ Plans

-----------------------------------------------------------------------------
\* Timelines and rows

\* A registered character has a head.
LEMMA HeadFacts ==
  ASSUME TypeOK, NEW g \in Chars, Registered(g)
  PROVE  /\ HeadRevision(g) \in Nat /\ 1 <= HeadRevision(g)
         /\ HeadSheet(g) \in Sheets
<1>1. timeline[g] \in Seq(Sheets) /\ timeline[g] # <<>>
  BY DEF TypeOK, Registered
<1>2. Len(timeline[g]) \in Nat /\ 1 <= Len(timeline[g])
  BY <1>1
<1> QED
  BY <1>1, <1>2 DEF HeadRevision, HeadSheet

\* Timelines only grow, and so does the set of exempted characters.
Grows ==
  /\ \A g \in Chars :
       /\ HeadRevision(g) <= HeadRevision(g)'
       /\ \A i \in 1 .. HeadRevision(g) : timeline'[g][i] = timeline[g][i]
  /\ exempted \subseteq exempted'

\* What is true of a row stays true while timelines grow.
LEMMA RowStays ==
  ASSUME TypeOK, TypeOK', Grows, NEW f \in SlotRows, Row(f)
  PROVE  Row(f)'
<1>1. \A g \in Chars : /\ timeline[g] \in Seq(Sheets) /\ timeline'[g] \in Seq(Sheets)
                       /\ HeadRevision(g) \in Nat /\ HeadRevision(g)' \in Nat
  BY DEF TypeOK, HeadRevision
<1>2. \A g \in Chars : Registered(g) => Registered(g)'
  <2> TAKE g \in Chars
  <2> HAVE Registered(g)
  <2>1. 1 <= HeadRevision(g)
    BY HeadFacts
  <2>2. 1 <= HeadRevision(g)'
    BY <1>1, <2>1 DEF Grows
  <2> QED
    BY <1>1, <2>2 DEF Registered, HeadRevision
<1>3. f.stamped \in Chars => f.synced \in 1 .. HeadRevision(f.stamped)'
  <2> SUFFICES ASSUME f.stamped \in Chars
               PROVE  f.synced \in 1 .. HeadRevision(f.stamped)'
    OBVIOUS
  <2>1. f.synced \in 1 .. HeadRevision(f.stamped)
    BY DEF Row
  <2>2. HeadRevision(f.stamped) <= HeadRevision(f.stamped)'
    BY DEF Grows
  <2> QED
    BY <1>1, <2>1, <2>2
<1>4. ASSUME f.char \in Chars \ exempted', f.stamped = f.char
      PROVE  timeline'[f.char][f.synced] \subseteq f.sheet
  <2>1. f.char \in Chars \ exempted /\ f.synced \in 1 .. HeadRevision(f.char)
    BY <1>4 DEF Row, Grows
  <2>2. timeline'[f.char][f.synced] = timeline[f.char][f.synced]
    BY <2>1 DEF Grows
  <2> QED
    BY <1>4, <2>1, <2>2 DEF Row
<1> QED
  BY <1>2, <1>3, <1>4 DEF Row

\* When nothing of a timeline changes, everything grows.
LEMMA SameGrows ==
  ASSUME TypeOK, UNCHANGED timeline, exempted \subseteq exempted'
  PROVE  Grows
<1>1. \A g \in Chars : HeadRevision(g) \in Nat /\ HeadRevision(g)' = HeadRevision(g)
  BY DEF TypeOK, HeadRevision
<1> QED
  BY <1>1 DEF Grows

\* A new character is registered with one sheet: no timeline is reverted.
LEMMA Founded ==
  ASSUME TypeOK, StampedNeverRevert,
         NEW g \in Chars, ~ Registered(g), NEW sheet \in Sheets,
         timeline' = [timeline EXCEPT ![g] = <<sheet>>], UNCHANGED exempted
  PROVE  /\ timeline' \in [Chars -> Seq(Sheets)]
         /\ Grows /\ StampedNeverRevert'
<1>1. timeline \in [Chars -> Seq(Sheets)] /\ timeline[g] = <<>>
  BY DEF TypeOK, Registered
<1>2. <<sheet>> \in Seq(Sheets) /\ Len(<<sheet>>) = 1
  OBVIOUS
<1>3. timeline' \in [Chars -> Seq(Sheets)]
  BY <1>1, <1>2
<1>4. \A h \in Chars \ {g} : timeline'[h] = timeline[h]
  BY <1>1
<1>5. timeline'[g] = <<sheet>>
  BY <1>1
<1>6. HeadRevision(g) = 0 /\ HeadRevision(g)' = 1
  BY <1>1, <1>2, <1>5 DEF HeadRevision
<1>7. \A h \in Chars \ {g} : HeadRevision(h) \in Nat /\ HeadRevision(h)' = HeadRevision(h)
  BY <1>1, <1>4 DEF HeadRevision
<1>8. Grows
  <2>1. \A h \in Chars : HeadRevision(h) <= HeadRevision(h)'
    BY <1>6, <1>7
  <2>2. \A h \in Chars : \A i \in 1 .. HeadRevision(h) : timeline'[h][i] = timeline[h][i]
    BY <1>4, <1>6
  <2> QED
    BY <2>1, <2>2 DEF Grows
<1>9. StampedNeverRevert'
  <2> SUFFICES ASSUME NEW h \in Chars \ exempted PROVE Continues(h)'
    BY DEF StampedNeverRevert
  <2>1. CASE h = g
    <3>1. \A i, j \in 1 .. HeadRevision(g)' : i = j
      BY <1>6
    <3> QED
      BY <1>6, <2>1, <3>1 DEF Continues
  <2>2. CASE h # g
    <3>1. Continues(h)
      BY DEF StampedNeverRevert
    <3> QED
      BY <1>4, <1>7, <2>2, <3>1 DEF Continues
  <2> QED
    BY <2>1, <2>2
<1> QED
  BY <1>3, <1>8, <1>9

\* Rows that are not written stay as they are.
LEMMA RowsStay ==
  ASSUME IInv, TypeOK', Grows, UNCHANGED <<file, backup>>
  PROVE  Rows'
<1>1. \A d \in Dbs, s \in Slots :
        /\ file[d][s] \in SlotRows /\ Row(file[d][s])
        /\ \A saved \in backup[d] : saved[s] \in SlotRows /\ Row(saved[s])
  BY DEF IInv, TypeOK, Rows
<1>2. \A f \in SlotRows : Row(f) => Row(f)'
  BY RowStays DEF IInv
<1> QED
  BY <1>1, <1>2 DEF Rows

\* So do the stamps that are due in a file that is not written.
LEMMA DueStays ==
  ASSUME IInv, TypeOK', Grows, NEW d \in Dbs, due[d] # NoStamp,
         file'[d] = file[d], due'[d] = due[d]
  PROVE  Due(d)'
<1> DEFINE c == due[d].char
           r == due[d].rev
<1>1. c \in Chars /\ Due(d)
  BY DEF IInv, TypeOK, Dues
<1>2. r \in 1 .. HeadRevision(c) /\ HeadRevision(c) \in Nat /\ HeadRevision(c)' \in Nat
  BY <1>1 DEF IInv, TypeOK, HeadRevision, Due
<1>3. r \in 1 .. HeadRevision(c)' /\ timeline'[c][r] = timeline[c][r]
  BY <1>1, <1>2 DEF Grows
<1> QED
  BY <1>1, <1>3 DEF Due, Grows

\* So do timelines that nothing is appended to.
LEMMA SameTimelines ==
  ASSUME TypeOK, StampedNeverRevert, UNCHANGED timeline, exempted \subseteq exempted'
  PROVE  Grows /\ StampedNeverRevert'
<1>1. Grows
  BY SameGrows
<1>2. \A g \in Chars : Continues(g) => Continues(g)'
  BY DEF Continues, HeadRevision
<1> QED
  BY <1>1, <1>2 DEF StampedNeverRevert

-----------------------------------------------------------------------------
\* Steps of one process

Phases == {"absent", "closed", "setup", "resume", "applying", "playing", "adding",
           "closing"}
Stamps == [slot : Slots, char : Chars, rev : Nat] \cup {NoStamp}

\* The process on d takes a step: it gets no task but an import for a slot that
\* is not linked.
LocalTo(d) ==
  /\ pc' \in [Dbs -> Phases] /\ plan' \in [Dbs -> [Slots -> Tasks]]
  /\ due' \in [Dbs -> Stamps]
  /\ pc'[d] # "absent"
  /\ \A e \in Dbs \ {d} : pc'[e] = pc[e] /\ plan'[e] = plan[e] /\ due'[e] = due[e]
  /\ \A s \in Slots :
       plan'[d][s] \notin {"done", "import"} => file[d][s].char \in Chars

\* What such a step must still show.
LEMMA LocalStep ==
  ASSUME IInv, NEW d \in Dbs, LocalTo(d), TypeOK', Grows,
         StampedNeverRevert', Rows',
         \A e \in Dbs \ {d} : file'[e] = file[e],
         \A s \in Slots : file[d][s].char \in Chars => file'[d][s].char \in Chars,
         due'[d] # NoStamp => Due(d)'
  PROVE  IInv'
<1>1. Dues'
  <2> SUFFICES ASSUME NEW e \in Dbs, due'[e] # NoStamp PROVE Due(e)'
    BY DEF Dues
  <2>1. CASE e = d
    BY <2>1
  <2>2. CASE e # d
    BY <2>2, DueStays DEF LocalTo
  <2> QED
    BY <2>1, <2>2
<1>2. Plans'
  <2> SUFFICES ASSUME NEW e \in Dbs
               PROVE  /\ pc'[e] = "absent" => plan'[e] = NoPlan /\ due'[e] = NoStamp
                      /\ \A s \in Slots : plan'[e][s] \notin {"done", "import"} =>
                           file'[e][s].char \in Chars
    BY DEF Plans
  <2>1. CASE e = d
    BY <2>1 DEF LocalTo
  <2>2. CASE e # d
    BY <2>2 DEF LocalTo, IInv, Plans
  <2> QED
    BY <2>1, <2>2
<1> QED
  BY <1>1, <1>2 DEF IInv

\* A step that writes neither sheets nor revisions, and owes no new stamp.
LEMMA Quiet ==
  ASSUME IInv, NEW d \in Dbs, LocalTo(d),
         custody' \in [Chars -> Holders \cup {Idle}],
         UNCHANGED <<timeline, file, backup, edits, exempted>>,
         due'[d] \in {due[d], NoStamp}
  PROVE  IInv'
<1>1. TypeOK'
  BY DEF IInv, TypeOK, LocalTo, Phases, Stamps
<1>2. Grows /\ StampedNeverRevert'
  BY SameTimelines DEF IInv
<1>3. Rows'
  BY <1>1, <1>2, RowsStay
<1>4. due'[d] # NoStamp => Due(d)'
  BY <1>1, <1>2, DueStays
<1> QED
  BY <1>1, <1>2, <1>3, <1>4, LocalStep

\* A process that ends keeps nothing.
LEMMA EndedIsLocal ==
  ASSUME IInv, NEW d \in Dbs, Ended(d)
  PROVE  LocalTo(d) /\ due'[d] = NoStamp
<1>1. NoPlan \in [Slots -> Tasks] /\ \A s \in Slots : NoPlan[s] = "done"
  BY DEF NoPlan, Tasks, TaskNames
<1>2. pc' = [pc EXCEPT ![d] = "closed"] /\ plan' = [plan EXCEPT ![d] = NoPlan]
      /\ due' = [due EXCEPT ![d] = NoStamp]
  BY DEF Ended, Goto
<1>3. pc \in [Dbs -> Phases] /\ plan \in [Dbs -> [Slots -> Tasks]]
      /\ due \in [Dbs -> Stamps]
  BY DEF IInv, TypeOK, Phases, Stamps
<1>4. pc' \in [Dbs -> Phases] /\ plan' \in [Dbs -> [Slots -> Tasks]]
      /\ due' \in [Dbs -> Stamps]
  BY <1>1, <1>2, <1>3 DEF Phases, Stamps
<1>5. pc'[d] = "closed" /\ plan'[d] = NoPlan /\ due'[d] = NoStamp
  BY <1>2, <1>3
<1>6. \A e \in Dbs \ {d} : pc'[e] = pc[e] /\ plan'[e] = plan[e] /\ due'[e] = due[e]
  BY <1>2, <1>3
<1> QED
  BY <1>1, <1>4, <1>5, <1>6 DEF LocalTo

\* The head sheet of g is attached to s, and its stamp may be due.
LEMMA Attaching ==
  ASSUME IInv, NEW d \in Dbs, NEW s \in Slots, NEW g \in Chars, Registered(g),
         LocalTo(d), file' = Attached(d, s, g),
         custody' \in [Chars -> Holders \cup {Idle}],
         UNCHANGED <<timeline, backup, edits, exempted>>,
         due'[d] \in {NoStamp, [slot |-> s, char |-> g, rev |-> HeadRevision(g)]}
  PROVE  IInv'
<1> DEFINE row == [file[d][s] EXCEPT !.char = g, !.sheet = HeadSheet(g)]
<1>1. /\ HeadRevision(g) \in Nat /\ 1 <= HeadRevision(g)
      /\ HeadSheet(g) \in Sheets
  BY HeadFacts DEF IInv
<1>2. file \in [Dbs -> [Slots -> SlotRows]] /\ file[d][s] \in SlotRows
  BY DEF IInv, TypeOK
<1>3. /\ row \in SlotRows /\ row.char = g /\ row.sheet = HeadSheet(g)
      /\ row.stamped = file[d][s].stamped /\ row.synced = file[d][s].synced
  BY <1>1, <1>2 DEF SlotRows
<1>4. file' = [file EXCEPT ![d] = [file[d] EXCEPT ![s] = row]]
  BY <1>2 DEF Attached
<1> HIDE DEF row
<1>5. /\ file' \in [Dbs -> [Slots -> SlotRows]] /\ file'[d][s] = row
      /\ \A t \in Slots \ {s} : file'[d][t] = file[d][t]
      /\ \A e \in Dbs \ {d} : file'[e] = file[e]
  BY <1>2, <1>3, <1>4
<1>6. TypeOK'
  BY <1>5 DEF IInv, TypeOK, LocalTo, Phases, Stamps
<1>7. Grows /\ StampedNeverRevert'
  BY SameTimelines DEF IInv
<1>8. Row(row)
  <2>1. Row(file[d][s]) /\ StampedNeverRevert
    BY DEF IInv, Rows
  <2>2. ASSUME g \notin exempted, file[d][s].stamped = g
        PROVE  timeline[g][file[d][s].synced] \subseteq HeadSheet(g)
    <3>1. file[d][s].synced \in 1 .. HeadRevision(g)
      BY <2>1, <2>2 DEF Row
    <3>2. Continues(g)
      BY <2>1, <2>2 DEF StampedNeverRevert
    <3> QED
      BY <1>1, <3>1, <3>2 DEF Continues, HeadSheet
  <2>3. g # NoChar
    BY NoneAssumption
  <2> QED
    BY <1>3, <2>1, <2>2, <2>3 DEF Row
<1>9. Rows'
  <2>1. \A f \in SlotRows : Row(f) => Row(f)'
    BY <1>6, <1>7, RowStays DEF IInv
  <2>2. \A e \in Dbs, t \in Slots : file'[e][t] \in SlotRows /\ Row(file'[e][t])
    BY <1>2, <1>3, <1>5, <1>8 DEF IInv, Rows
  <2>3. \A e \in Dbs, t \in Slots : \A saved \in backup[e] :
          saved[t] \in SlotRows /\ Row(saved[t])
    BY DEF IInv, Rows, TypeOK
  <2> QED
    BY <2>1, <2>2, <2>3 DEF Rows
<1>10. due'[d] # NoStamp => Due(d)'
  <2> SUFFICES ASSUME due'[d] # NoStamp PROVE Due(d)'
    OBVIOUS
  <2>1. due'[d] = [slot |-> s, char |-> g, rev |-> HeadRevision(g)]
    OBVIOUS
  <2>2. HeadRevision(g)' = HeadRevision(g) /\ HeadSheet(g) = timeline'[g][HeadRevision(g)]
    BY DEF HeadRevision, HeadSheet
  <2> QED
    BY <1>1, <1>3, <1>5, <2>1, <2>2 DEF Due
<1> QED
  BY <1>3, <1>5, <1>6, <1>7, <1>9, <1>10, LocalStep

\* A step of the process on d changes no plan, that of one slot, or drops it all.
Tasked(d) ==
  \/ plan' = plan
  \/ plan' = [plan EXCEPT ![d] = NoPlan]
  \/ \E s \in Slots, task \in Tasks :
       /\ file[d][s].char \in Chars \/ task = "import"
       /\ plan' = [plan EXCEPT ![d][s] = task]

\* A step that changes where the process is and what it has to do.
LEMMA Moving ==
  ASSUME IInv, NEW d \in Dbs, NEW p \in Phases \ {"absent"},
         pc' = [pc EXCEPT ![d] = p],
         due' \in [Dbs -> Stamps], \A e \in Dbs \ {d} : due'[e] = due[e],
         Tasked(d)
  PROVE  LocalTo(d)
<1>1. pc \in [Dbs -> Phases] /\ plan \in [Dbs -> [Slots -> Tasks]]
  BY DEF IInv, TypeOK, Phases
<1>2. /\ pc' \in [Dbs -> Phases] /\ pc'[d] # "absent"
      /\ \A e \in Dbs \ {d} : pc'[e] = pc[e]
  BY <1>1
<1>3. \A s \in Slots : plan[d][s] \notin {"done", "import"} => file[d][s].char \in Chars
  BY DEF IInv, Plans
<1>4. /\ plan' \in [Dbs -> [Slots -> Tasks]]
      /\ \A e \in Dbs \ {d} : plan'[e] = plan[e]
      /\ \A s \in Slots :
           plan'[d][s] \notin {"done", "import"} => file[d][s].char \in Chars
  <2>1. CASE plan' = plan
    BY <1>1, <1>3, <2>1
  <2>2. CASE plan' = [plan EXCEPT ![d] = NoPlan]
    <3>1. NoPlan \in [Slots -> Tasks] /\ \A s \in Slots : NoPlan[s] = "done"
      BY DEF NoPlan, Tasks, TaskNames
    <3>2. /\ plan' \in [Dbs -> [Slots -> Tasks]] /\ plan'[d] = NoPlan
          /\ \A e \in Dbs \ {d} : plan'[e] = plan[e]
      BY <1>1, <2>2, <3>1
    <3> QED
      BY <3>1, <3>2
  <2>3. CASE plan' \notin {plan, [plan EXCEPT ![d] = NoPlan]}
    <3>1. PICK s \in Slots, task \in Tasks :
            /\ file[d][s].char \in Chars \/ task = "import"
            /\ plan' = [plan EXCEPT ![d][s] = task]
      BY <2>3 DEF Tasked
    <3>2. /\ plan' \in [Dbs -> [Slots -> Tasks]]
          /\ \A e \in Dbs \ {d} : plan'[e] = plan[e]
          /\ plan'[d][s] = task /\ \A t \in Slots \ {s} : plan'[d][t] = plan[d][t]
      BY <1>1, <3>1
    <3> QED
      BY <1>3, <3>1, <3>2
  <2> QED
    BY <2>1, <2>2, <2>3
<1> QED
  BY <1>2, <1>4 DEF LocalTo

\* So does a step that stays where it is.
LEMMA Staying ==
  ASSUME IInv, NEW d \in Dbs, pc[d] # "absent", UNCHANGED pc,
         due' \in [Dbs -> Stamps], \A e \in Dbs \ {d} : due'[e] = due[e],
         Tasked(d)
  PROVE  LocalTo(d)
<1>1. pc \in [Dbs -> Phases]
  BY DEF IInv, TypeOK, Phases
<1>2. pc' = [pc EXCEPT ![d] = pc[d]] /\ pc[d] \in Phases \ {"absent"}
  BY <1>1
<1> QED
  BY <1>2, Moving

-----------------------------------------------------------------------------
\* One lemma per group of actions.

\* Init satisfies the invariant.
LEMMA InitInv == Init => IInv
<1> SUFFICES ASSUME Init PROVE IInv
  OBVIOUS
<1>1. {} \in Sheets /\ NoPlan \in [Slots -> Tasks]
  BY DEF Sheets, NoPlan, Tasks, TaskNames
<1>2. EmptySlot \in SlotRows /\ Row(EmptySlot)
  BY <1>1, NoneAssumption DEF EmptySlot, SlotRows, Row
<1>3. <<>> \in Seq(Sheets) /\ 0 \in 0 .. MaxEdits
  BY BoundAssumption
<1>4. TypeOK
  BY <1>1, <1>2, <1>3 DEF Init, TypeOK
<1>5. StampedNeverRevert
  BY DEF Init, StampedNeverRevert, Continues, HeadRevision
<1>6. Rows
  BY <1>2 DEF Init, Rows
<1>7. Dues
  BY DEF Init, Dues
<1>8. Plans
  BY DEF Init, Plans, NoPlan
<1> QED
  BY <1>4, <1>5, <1>6, <1>7, <1>8 DEF IInv

\* Register and Fork found a character, and touch nothing else.
LEMMA FoundingInv ==
  ASSUME IInv, NEW g \in Chars, ~ Registered(g), NEW sheet \in Sheets,
         timeline' = [timeline EXCEPT ![g] = <<sheet>>],
         UNCHANGED <<custody, file, backup, pc, plan, due, edits, exempted>>
  PROVE  IInv'
<1>1. /\ timeline' \in [Chars -> Seq(Sheets)]
      /\ Grows /\ StampedNeverRevert'
  BY Founded DEF IInv
<1>2. TypeOK'
  BY <1>1 DEF IInv, TypeOK
<1>3. Rows'
  BY <1>1, <1>2, RowsStay
<1>4. Dues'
  BY <1>1, <1>2, DueStays DEF Dues
<1>5. Plans'
  BY DEF IInv, Plans
<1> QED
  BY <1>1, <1>2, <1>3, <1>4, <1>5 DEF IInv

LEMMA RegisterInv ==
  ASSUME IInv, NEW g \in Chars, Register(g)
  PROVE  IInv'
<1>1. {} \in Sheets
  BY DEF Sheets
<1> QED
  BY <1>1, FoundingInv DEF Register

LEMMA ForkInv ==
  ASSUME IInv, NEW g \in Chars, NEW new \in Chars, NEW i \in 1 .. MaxEdits + 1,
         Fork(g, i, new)
  PROVE  IInv'
<1>1. timeline[g] \in Seq(Sheets) /\ i \in 1 .. Len(timeline[g])
  BY DEF Fork, HeadRevision, IInv, TypeOK
<1>2. timeline[g][i] \in Sheets
  BY <1>1
<1> QED
  BY <1>2, FoundingInv DEF Fork

\* A checkout, catch-up or attached fork that dies half-way.
LEMMA TornInv ==
  ASSUME IInv, NEW d \in Dbs, NEW s \in Slots, NEW g \in Chars, Registered(g),
         pc[d] # "absent", due[d] = NoStamp, Torn(d, s, g),
         UNCHANGED <<timeline, backup, edits, exempted>>
  PROVE  IInv'
<1>1. custody' \in [Chars -> Holders \cup {Idle}] /\ file' = Attached(d, s, g)
  BY DEF Torn, IInv, TypeOK
<1>2. CASE Ended(d)
  BY <1>1, <1>2, EndedIsLocal, Attaching
<1>3. CASE UNCHANGED <<pc, plan, due>>
  <2>1. LocalTo(d)
    BY <1>3, Staying DEF Tasked, IInv, TypeOK, Stamps
  <2> QED
    BY <1>1, <1>3, <2>1, Attaching
<1> QED
  BY <1>2, <1>3 DEF Torn

\* What Take does to the custody records and the stamps.
LEMMA TakeFacts ==
  ASSUME IInv, NEW d \in Dbs, NEW s \in Slots, NEW g \in Chars, Registered(g),
         Take(d, s, g)
  PROVE  /\ custody' \in [Chars -> Holders \cup {Idle}]
         /\ due' \in [Dbs -> Stamps]
         /\ \A e \in Dbs \ {d} : due'[e] = due[e]
         /\ due'[d] = [slot |-> s, char |-> g, rev |-> HeadRevision(g)]
<1>1. Holder(d, s) \in Holders
  BY FilesAssumption DEF Holder, Holders
<1>2. [slot |-> s, char |-> g, rev |-> HeadRevision(g)] \in Stamps
  BY HeadFacts DEF IInv, Stamps
<1>3. due \in [Dbs -> Stamps] /\ custody \in [Chars -> Holders \cup {Idle}]
  BY DEF IInv, TypeOK, Stamps
<1> QED
  BY <1>1, <1>2, <1>3 DEF Take

LEMMA ImportInv ==
  ASSUME IInv, NEW d \in Dbs, NEW s \in Slots, NEW g \in Chars, Import(d, s, g)
  PROVE  IInv'
<1>1. pc[d] \in {"setup", "adding"} /\ due[d] = NoStamp /\ Registered(g)
  BY DEF Import, At, MayCheckout
<1>2. CASE Torn(d, s, g)
  BY <1>1, <1>2, TornInv DEF Import
<1>3. CASE file' = Attached(d, s, g) /\ Take(d, s, g) /\ UNCHANGED <<pc, plan>>
  <2>1. LocalTo(d)
    BY <1>1, <1>3, TakeFacts, Staying DEF Tasked
  <2> QED
    BY <1>1, <1>3, <2>1, TakeFacts, Attaching DEF Import
<1> QED
  BY <1>2, <1>3 DEF Import

\* The attach of a resolution.
LEMMA AdoptInv ==
  ASSUME IInv, NEW d \in Dbs, NEW s \in Slots, NEW g \in Chars, Registered(g),
         At(d, "applying"), file[d][s].char \in Chars, Adopt(d, s, g),
         UNCHANGED <<timeline, backup, edits, exempted>>
  PROVE  IInv'
<1>1. pc[d] = "applying" /\ due[d] = NoStamp
  BY DEF At
<1>2. CASE Torn(d, s, g)
  BY <1>1, <1>2, TornInv
<1>3. CASE /\ file' = Attached(d, s, g) /\ Take(d, s, g)
           /\ Did(d, s, "caught") /\ UNCHANGED pc
  <2>1. "caught" \in Tasks
    BY DEF Tasks, TaskNames
  <2>2. LocalTo(d)
    BY <1>1, <1>3, <2>1, TakeFacts, Staying DEF Did, Tasked
  <2> QED
    BY <1>3, <2>2, TakeFacts, Attaching
<1> QED
  BY <1>2, <1>3 DEF Adopt

\* A step that ends the process and writes nothing.
LEMMA EndingInv ==
  ASSUME IInv, NEW d \in Dbs, Ended(d),
         UNCHANGED <<timeline, custody, file, backup, edits, exempted>>
  PROVE  IInv'
<1>1. custody' \in [Chars -> Holders \cup {Idle}]
  BY DEF IInv, TypeOK
<1> QED
  BY <1>1, EndedIsLocal, Quiet

\* So do the steps of a set-up that write nothing.
LEMMA SetupInv ==
  ASSUME IInv, NEW d \in Dbs,
         Open(d) \/ Defer(d) \/ \E s \in Slots : AddCharacter(d, s)
  PROVE  IInv'
<1>1. PICK p \in Phases \ {"absent"} : Goto(d, p)
  BY DEF Open, Defer, AddCharacter, Phases
<1>2. UNCHANGED <<timeline, custody, file, backup, due, edits, exempted>>
  BY DEF Open, Defer, AddCharacter
<1>3. "import" \in Tasks
  BY DEF Tasks, TaskNames
<1>4. Tasked(d)
  BY <1>3 DEF Tasked, Open, Defer, AddCharacter, Did
<1>5. LocalTo(d)
  BY <1>1, <1>2, <1>4, Moving DEF Goto, IInv, TypeOK, Stamps
<1>6. custody' \in [Chars -> Holders \cup {Idle}]
  BY <1>2 DEF IInv, TypeOK
<1> QED
  BY <1>2, <1>5, <1>6, Quiet

LEMMA ActivateInv ==
  ASSUME IInv, NEW d \in Dbs, Activate(d)
  PROVE  IInv'
<1> DEFINE Are(kind) == {s \in Slots : Classification(d, s) = kind}
<1>1. custody' \in [Chars -> Holders \cup {Idle}]
  BY DEF Activate, IInv, TypeOK
<1>2. CASE Ended(d)
  BY <1>2, EndingInv DEF Activate
<1>3. CASE ~ Ended(d)
  <2>1. PICK chosen \in [Are("stale-copy") -> {"catchup", "fork"}] :
          plan' = [plan EXCEPT ![d] =
            [s \in Slots |->
               IF s \in Are("stale-copy") THEN chosen[s]
               ELSE IF s \in Are("not-linked") THEN "done" ELSE "take"]]
    BY <1>3 DEF Activate
  <2>2. Goto(d, "applying") /\ UNCHANGED due
    BY <1>3 DEF Activate
  <2> DEFINE tasks == [s \in Slots |->
               IF s \in Are("stale-copy") THEN chosen[s]
               ELSE IF s \in Are("not-linked") THEN "done" ELSE "take"]
  <2>3. tasks \in [Slots -> Tasks]
    <3>1. \A s \in Are("stale-copy") : chosen[s] \in Tasks
      BY DEF Tasks, TaskNames
    <3> QED
      BY <3>1 DEF Tasks, TaskNames
  <2>4. \A s \in Slots : tasks[s] # "done" => file[d][s].char \in Chars
    <3> SUFFICES ASSUME NEW s \in Slots, file[d][s].char = NoChar
                 PROVE  tasks[s] = "done"
      BY DEF IInv, TypeOK, SlotRows
    <3>1. Classification(d, s) = "not-linked"
      BY DEF Classification
    <3> QED
      BY <3>1
  <2>5. /\ pc \in [Dbs -> Phases] /\ due \in [Dbs -> Stamps]
        /\ plan \in [Dbs -> [Slots -> Tasks]]
    BY DEF IInv, TypeOK, Phases, Stamps
  <2>6. plan' = [plan EXCEPT ![d] = tasks]
    BY <2>1
  <2> HIDE DEF tasks
  <2>7. LocalTo(d)
    BY <2>2, <2>3, <2>4, <2>5, <2>6 DEF LocalTo, Goto, Phases
  <2> QED
    BY <1>1, <2>2, <2>7, Quiet DEF Activate
<1> QED
  BY <1>2, <1>3

\* A slot with a task but an import is linked to a registered character.
LEMMA LinkedFacts ==
  ASSUME IInv, NEW d \in Dbs, NEW s \in Slots, plan[d][s] \notin {"done", "import"}
  PROVE  file[d][s].char \in Chars /\ Registered(file[d][s].char)
<1>1. file[d][s].char \in Chars
  BY DEF IInv, Plans
<1> QED
  BY <1>1 DEF IInv, Rows, Row

LEMMA CatchUpInv ==
  ASSUME IInv, NEW d \in Dbs, NEW s \in Slots, CatchUp(d, s)
  PROVE  IInv'
<1> DEFINE g == file[d][s].char
<1>1. At(d, "applying") /\ plan[d][s] = "catchup"
  BY DEF CatchUp, Resolving
<1>2. g \in Chars /\ Registered(g)
  BY <1>1, LinkedFacts
<1>3. CASE Adopt(d, s, g)
  BY <1>1, <1>2, <1>3, AdoptInv DEF CatchUp
<1>4. CASE Ended(d) /\ UNCHANGED <<custody, file>>
  BY <1>4, EndingInv DEF CatchUp
<1> QED
  BY <1>3, <1>4 DEF CatchUp

LEMMA AttachForkInv ==
  ASSUME IInv, NEW d \in Dbs, NEW s \in Slots, AttachFork(d, s)
  PROVE  IInv'
<1> DEFINE new == plan[d][s]
<1>1. At(d, "applying") /\ new \in Chars
  BY DEF AttachFork, Resolving
<1>2. CASE MayCheckout(d, s, new) /\ Adopt(d, s, new)
  <2>1. Registered(new)
    BY <1>2 DEF MayCheckout
  <2>2. new \notin {"done", "import"}
    BY <1>1, TasksAssumption DEF TaskNames
  <2> QED
    BY <1>1, <1>2, <2>1, <2>2, LinkedFacts, AdoptInv DEF AttachFork
<1>3. CASE Ended(d) /\ UNCHANGED <<custody, file>>
  BY <1>3, EndingInv DEF AttachFork
<1> QED
  BY <1>2, <1>3 DEF AttachFork

LEMMA ForkConflictedInv ==
  ASSUME IInv, NEW d \in Dbs, NEW s \in Slots, NEW new \in Chars,
         ForkConflicted(d, s, new)
  PROVE  IInv'
<1>1. pc[d] = "applying" /\ plan[d][s] = "fork"
  BY DEF ForkConflicted, Resolving, At
<1>2. file[d][s].char \in Chars /\ file[d][s].sheet \in Sheets
  BY <1>1, LinkedFacts DEF IInv, TypeOK, SlotRows
<1>3. LocalTo(d)
  BY <1>1, <1>2, Staying DEF ForkConflicted, Did, Tasked, Tasks, IInv, TypeOK, Stamps
<1>4. /\ timeline' \in [Chars -> Seq(Sheets)]
      /\ Grows /\ StampedNeverRevert'
  BY <1>2, Founded DEF ForkConflicted, IInv
<1>5. TypeOK'
  BY <1>3, <1>4 DEF ForkConflicted, IInv, TypeOK, LocalTo
<1>6. Rows'
  BY <1>4, <1>5, RowsStay DEF ForkConflicted
<1>7. due'[d] # NoStamp => Due(d)'
  BY <1>4, <1>5, DueStays DEF ForkConflicted
<1> QED
  BY <1>3, <1>4, <1>5, <1>6, <1>7, LocalStep DEF ForkConflicted

\* What the classification of a linked slot says of it.
LEMMA ClassFacts ==
  ASSUME IInv, NEW d \in Dbs, NEW s \in Slots, file[d][s].char \in Chars
  PROVE  /\ Classification(d, s) = "resumable" =>
              file[d][s].sheet = HeadSheet(file[d][s].char)
         /\ Classification(d, s) = "already-held" => ~ BehindHead(file[d][s])
<1>1. Holder(d, s) # Idle /\ file[d][s].char # NoChar
  BY FilesAssumption, NoneAssumption DEF Holder
<1> QED
  BY <1>1 DEF Classification

\* A copy that is not behind has the progress of the head, but for a stamp.
LEMMA CurrentFacts ==
  ASSUME IInv, NEW f \in SlotRows, Row(f), f.char \in Chars, ~ BehindHead(f)
  PROVE  Exempt(f) \/ f.char \in exempted \/ HeadSheet(f.char) \subseteq f.sheet
<1> SUFFICES ASSUME ~ Exempt(f), f.char \notin exempted, f.sheet # HeadSheet(f.char)
             PROVE  HeadSheet(f.char) \subseteq f.sheet
  OBVIOUS
<1>1. Synced(f) # 0 /\ f.stamped = f.char /\ Synced(f) = f.synced
  BY DEF Exempt, Synced
<1>2. f.synced \in 1 .. HeadRevision(f.char)
  BY <1>1 DEF Row
<1>3. HeadRevision(f.char) \in Nat
  BY DEF HeadRevision, IInv, TypeOK
<1>4. f.synced = HeadRevision(f.char)
  BY <1>1, <1>2, <1>3 DEF BehindHead
<1> QED
  BY <1>1, <1>4 DEF Row, HeadSheet

\* The copy in s is taken for current and will be stamped at the head.
LEMMA Stamping ==
  ASSUME IInv, NEW d \in Dbs, NEW s \in Slots, LocalTo(d), NEW c \in Chars,
         c = file[d][s].char,
         custody' \in [Chars -> Holders \cup {Idle}],
         UNCHANGED <<timeline, file, backup, edits>>,
         exempted \subseteq exempted', exempted' \subseteq Chars,
         c \in exempted' \/ HeadSheet(c) \subseteq file[d][s].sheet,
         \/ due'[d] = due[d]
         \/ due'[d] = [slot |-> s, char |-> c, rev |-> HeadRevision(c)]
  PROVE  IInv'
<1>1. TypeOK'
  BY DEF IInv, TypeOK, LocalTo, Phases, Stamps
<1>2. Grows /\ StampedNeverRevert'
  BY SameTimelines DEF IInv
<1>3. Rows'
  BY <1>1, <1>2, RowsStay
<1>4. due'[d] # NoStamp => Due(d)'
  <2>1. CASE due'[d] = due[d]
    BY <1>1, <1>2, <2>1, DueStays
  <2>2. CASE due'[d] = [slot |-> s, char |-> c, rev |-> HeadRevision(c)]
    <3>1. Registered(c)
      BY DEF IInv, Rows, Row
    <3>2. HeadRevision(c) \in Nat /\ 1 <= HeadRevision(c)
      BY <3>1, HeadFacts DEF IInv
    <3>3. HeadRevision(c)' = HeadRevision(c) /\ HeadSheet(c) = timeline'[c][HeadRevision(c)]
      BY DEF HeadRevision, HeadSheet
    <3> QED
      BY <2>2, <3>2, <3>3 DEF Due
  <2> QED
    BY <2>1, <2>2
<1> QED
  BY <1>1, <1>2, <1>3, <1>4, LocalStep

LEMMA AcquireInv ==
  ASSUME IInv, NEW d \in Dbs, NEW s \in Slots, Acquire(d, s)
  PROVE  IInv'
<1> DEFINE f == file[d][s]
           c == file[d][s].char
<1>1. pc[d] = "applying" /\ plan[d][s] \notin {"done", "import"}
  BY DEF Acquire, At, IsNext
<1>2. c \in Chars /\ Registered(c) /\ f \in SlotRows /\ Row(f)
  BY <1>1, LinkedFacts DEF IInv, TypeOK, Rows
<1>3. CASE Ended(d) /\ UNCHANGED <<custody, exempted>>
  BY <1>3, EndingInv DEF Acquire
<1>4. CASE /\ Classification(d, s) = "resumable" /\ UNCHANGED pc
           /\ Take(d, s, c) /\ Did(d, s, "taken") /\ UNCHANGED exempted
  <2>1. LocalTo(d)
    BY <1>1, <1>2, <1>4, TakeFacts, Staying DEF Did, Tasked, Tasks, TaskNames
  <2>2. f.sheet = HeadSheet(c) /\ exempted' \subseteq Chars
    BY <1>2, <1>4, ClassFacts DEF IInv, TypeOK
  <2> QED
    BY <1>2, <1>4, <2>1, <2>2, TakeFacts, Stamping DEF Acquire
<1>5. CASE /\ Classification(d, s) = "already-held" /\ UNCHANGED <<pc, custody>>
           /\ due' = IF Synced(f) < HeadRevision(c)
                     THEN [due EXCEPT ![d] = [slot |-> s, char |-> c,
                                              rev |-> HeadRevision(c)]]
                     ELSE due
           /\ Did(d, s, IF plan[d][s] = "caught" THEN "taken" ELSE "done")
           /\ TakenForCurrent(f)
  <2>1. due \in [Dbs -> Stamps]
    BY DEF IInv, TypeOK, Stamps
  <2>2. [slot |-> s, char |-> c, rev |-> HeadRevision(c)] \in Stamps
    BY <1>2, HeadFacts DEF IInv, Stamps
  <2>3. /\ due' \in [Dbs -> Stamps]
        /\ \A e \in Dbs \ {d} : due'[e] = due[e]
        /\ \/ due'[d] = due[d]
           \/ due'[d] = [slot |-> s, char |-> c, rev |-> HeadRevision(c)]
    BY <1>5, <2>1, <2>2
  <2>4. LocalTo(d)
    BY <1>1, <1>2, <1>5, <2>3, Staying DEF Did, Tasked, Tasks, TaskNames
  <2>5. /\ exempted \subseteq exempted' /\ exempted' \subseteq Chars
        /\ Exempt(f) => c \in exempted'
    BY <1>2, <1>5 DEF TakenForCurrent, IInv, TypeOK
  <2>6. c \in exempted' \/ HeadSheet(c) \subseteq f.sheet
    BY <1>2, <1>5, <2>5, ClassFacts, CurrentFacts
  <2>7. custody' \in [Chars -> Holders \cup {Idle}]
    BY <1>5 DEF IInv, TypeOK
  <2> QED
    BY <1>2, <2>3, <2>4, <2>5, <2>6, <2>7, Stamping DEF Acquire
<1> QED
  BY <1>3, <1>4, <1>5 DEF Acquire, Acquired

LEMMA BeginInv ==
  ASSUME IInv, NEW d \in Dbs, Begin(d)
  PROVE  IInv'
<1>1. NoPlan \in [Slots -> Tasks] /\ \A s \in Slots : NoPlan[s] = "done"
  BY DEF NoPlan, Tasks, TaskNames
<1>2. /\ pc \in [Dbs -> Phases] /\ due \in [Dbs -> Stamps]
      /\ plan \in [Dbs -> [Slots -> Tasks]]
      /\ custody' \in [Chars -> Holders \cup {Idle}]
  BY DEF IInv, TypeOK, Phases, Stamps, Begin
<1>3. LocalTo(d)
  BY <1>1, <1>2 DEF Begin, Goto, LocalTo, Phases
<1> QED
  BY <1>2, <1>3, Quiet DEF Begin

\* A row of d is written, and no stamp is due there.
LEMMA Writing ==
  ASSUME IInv, NEW d \in Dbs, NEW s \in Slots, NEW row \in SlotRows, LocalTo(d),
         row.char = file[d][s].char, Row(row), due'[d] = NoStamp,
         file' = [file EXCEPT ![d][s] = row],
         edits' \in 0 .. MaxEdits,
         UNCHANGED <<timeline, custody, backup, exempted>>
  PROVE  IInv'
<1>1. file \in [Dbs -> [Slots -> SlotRows]]
  BY DEF IInv, TypeOK
<1>2. /\ file' \in [Dbs -> [Slots -> SlotRows]] /\ file'[d][s] = row
      /\ \A t \in Slots \ {s} : file'[d][t] = file[d][t]
      /\ \A e \in Dbs \ {d} : file'[e] = file[e]
  BY <1>1
<1>3. TypeOK'
  BY <1>2 DEF IInv, TypeOK, LocalTo, Phases, Stamps
<1>4. Grows /\ StampedNeverRevert'
  BY SameTimelines DEF IInv
<1>5. Rows'
  <2>1. \A f \in SlotRows : Row(f) => Row(f)'
    BY <1>3, <1>4, RowStays DEF IInv
  <2>2. \A e \in Dbs, t \in Slots : file'[e][t] \in SlotRows /\ Row(file'[e][t])
    BY <1>1, <1>2 DEF IInv, Rows
  <2>3. \A e \in Dbs, t \in Slots : \A saved \in backup[e] :
          saved[t] \in SlotRows /\ Row(saved[t])
    BY DEF IInv, Rows, TypeOK
  <2> QED
    BY <2>1, <2>2, <2>3 DEF Rows
<1> QED
  BY <1>2, <1>3, <1>4, <1>5, LocalStep

LEMMA EditInv ==
  ASSUME IInv, NEW d \in Dbs, NEW s \in Slots, Edit(d, s)
  PROVE  IInv'
<1> DEFINE f == file[d][s]
           row == [f EXCEPT !.sheet = f.sheet \cup {edits + 1}]
<1>1. pc[d] # "absent" /\ due[d] = NoStamp
  BY DEF Edit, At
<1>2. f \in SlotRows /\ Row(f) /\ file \in [Dbs -> [Slots -> SlotRows]]
  BY DEF IInv, TypeOK, Rows
<1>3. edits' \in 0 .. MaxEdits /\ edits + 1 \in 1 .. MaxEdits
  BY BoundAssumption DEF Edit, IInv, TypeOK
<1>4. /\ row \in SlotRows /\ row.char = f.char /\ row.sheet = f.sheet \cup {edits + 1}
      /\ row.stamped = f.stamped /\ row.synced = f.synced
  BY <1>2, <1>3 DEF SlotRows, Sheets
<1>5. file' = [file EXCEPT ![d][s] = row]
  <2>1. file' = [file EXCEPT ![d][s].sheet = @ \cup {edits + 1}]
    BY DEF Edit
  <2> QED
    BY <1>2, <2>1
<1> HIDE DEF row
<1>6. Row(row)
  BY <1>2, <1>4 DEF Row
<1>7. LocalTo(d)
  BY <1>1, Staying DEF Edit, Tasked, IInv, TypeOK, Stamps
<1> QED
  BY <1>1, <1>3, <1>4, <1>5, <1>6, <1>7, Writing DEF Edit

LEMMA StampInv ==
  ASSUME IInv, NEW d \in Dbs, Stamp(d)
  PROVE  IInv'
<1> DEFINE s == due[d].slot
           f == file[d][s]
           row == [f EXCEPT !.stamped = due[d].char, !.synced = due[d].rev]
<1>1. /\ due[d] \in [slot : Slots, char : Chars, rev : Nat] /\ Due(d)
      /\ due \in [Dbs -> Stamps]
  BY DEF Stamp, IInv, TypeOK, Dues, Stamps
<1>2. f \in SlotRows /\ Row(f) /\ file \in [Dbs -> [Slots -> SlotRows]]
  BY <1>1 DEF IInv, TypeOK, Rows
<1>3. /\ row \in SlotRows /\ row.char = f.char /\ row.sheet = f.sheet
      /\ row.stamped = due[d].char /\ row.synced = due[d].rev
  BY <1>1, <1>2 DEF SlotRows
<1>4. file' = [file EXCEPT ![d][s] = row]
  BY <1>2 DEF Stamp
<1>5. s \in Slots /\ due[d].char \in Chars /\ due[d].char # NoChar
  BY <1>1, NoneAssumption
<1>6. pc[d] # "absent"
  BY DEF Stamp, IInv, Plans
<1>7. due' \in [Dbs -> Stamps] /\ due'[d] = NoStamp
      /\ \A e \in Dbs \ {d} : due'[e] = due[e]
  BY <1>1 DEF Stamp, Stamps
<1>8. LocalTo(d)
  <2>1. pc[d] \in Phases \ {"absent"} /\ pc' = [pc EXCEPT ![d] = pc'[d]]
        /\ pc'[d] \in Phases \ {"absent"}
    BY <1>6 DEF Stamp, Goto, Phases, IInv, TypeOK
  <2>2. Tasked(d)
    BY DEF Stamp, Tasked
  <2> QED
    BY <1>7, <2>1, <2>2, Moving
<1>9. edits' \in 0 .. MaxEdits
  BY DEF Stamp, IInv, TypeOK
<1> HIDE DEF row
<1>10. Row(row)
  BY <1>1, <1>2, <1>3, <1>5 DEF Row, Due
<1> QED
  BY <1>3, <1>4, <1>5, <1>7, <1>8, <1>9, <1>10, Writing DEF Stamp

LEMMA StampFailsInv ==
  ASSUME IInv, NEW d \in Dbs, StampFails(d)
  PROVE  IInv'
<1>1. CASE Ended(d)
  BY <1>1, EndingInv DEF StampFails
<1>2. CASE due' = [due EXCEPT ![d] = NoStamp] /\ UNCHANGED <<pc, plan>>
  <2>1. due \in [Dbs -> Stamps] /\ custody' \in [Chars -> Holders \cup {Idle}]
    BY DEF StampFails, IInv, TypeOK, Stamps
  <2>2. due' \in [Dbs -> Stamps] /\ due'[d] = NoStamp
        /\ \A e \in Dbs \ {d} : due'[e] = due[e]
    BY <1>2, <2>1 DEF Stamps
  <2>3. pc[d] # "absent"
    BY DEF StampFails, IInv, Plans
  <2>4. LocalTo(d)
    BY <1>2, <2>2, <2>3, Staying DEF Tasked
  <2> QED
    BY <2>1, <2>2, <2>4, Quiet DEF StampFails
<1> QED
  BY <1>1, <1>2 DEF StampFails

\* Of the actions that end a process, two write nothing else.
LEMMA LeaveCrashInv ==
  ASSUME IInv, NEW d \in Dbs, Leave(d) \/ Crash(d)
  PROVE  IInv'
  BY EndingInv DEF Leave, Crash

LEMMA CloseInv ==
  ASSUME IInv, NEW d \in Dbs, Close(d)
  PROVE  IInv'
<1> DEFINE tasks == [s \in Slots |-> IF s \in Linked(d) THEN "release" ELSE "done"]
<1>1. /\ pc \in [Dbs -> Phases] /\ due \in [Dbs -> Stamps]
      /\ plan \in [Dbs -> [Slots -> Tasks]] /\ file \in [Dbs -> [Slots -> SlotRows]]
      /\ backup \in [Dbs -> SUBSET [Slots -> SlotRows]]
  BY DEF IInv, TypeOK, Phases, Stamps
<1>2. /\ tasks \in [Slots -> Tasks]
      /\ \A s \in Slots :
           tasks[s] \notin {"done", "import"} => file[d][s].char \in Chars
  BY <1>1 DEF Tasks, TaskNames, Linked, SlotRows
<1>3. plan' = [plan EXCEPT ![d] = tasks] /\ pc' = [pc EXCEPT ![d] = "closing"]
      /\ UNCHANGED due
  BY DEF Close, Goto
<1> HIDE DEF tasks
<1>4. LocalTo(d)
  BY <1>1, <1>2, <1>3 DEF LocalTo, Phases
<1>5. /\ backup' \in [Dbs -> SUBSET [Slots -> SlotRows]]
      /\ \A e \in Dbs : \A saved \in backup'[e] : saved \in backup[e] \/ saved = file[e]
  <2>1. CASE backup' = [backup EXCEPT ![d] = {file[d]}]
    <3>1. backup'[d] = {file[d]} /\ \A e \in Dbs \ {d} : backup'[e] = backup[e]
      BY <1>1, <2>1
    <3> QED
      BY <1>1, <2>1, <3>1
  <2>2. CASE UNCHANGED backup
    BY <1>1, <2>2
  <2> QED
    BY <2>1, <2>2 DEF Close
<1>6. TypeOK'
  BY <1>4, <1>5 DEF Close, IInv, TypeOK, LocalTo, Phases, Stamps
<1>7. Grows /\ StampedNeverRevert'
  BY SameTimelines DEF Close, IInv
<1>8. Rows'
  <2>1. \A f \in SlotRows : Row(f) => Row(f)'
    BY <1>6, <1>7, RowStays DEF IInv
  <2>2. \A e \in Dbs, s \in Slots : file[e][s] \in SlotRows /\ Row(file[e][s])
    BY <1>1 DEF IInv, Rows
  <2>3. \A e \in Dbs, s \in Slots : \A saved \in backup'[e] :
          saved[s] \in SlotRows /\ Row(saved[s])
    BY <1>1, <1>5, <2>2 DEF IInv, Rows
  <2>4. UNCHANGED file
    BY DEF Close
  <2> QED
    BY <2>1, <2>2, <2>3, <2>4 DEF Rows
<1>9. due'[d] # NoStamp => Due(d)'
  BY DEF Close, At
<1> QED
  BY <1>4, <1>6, <1>7, <1>8, <1>9, LocalStep DEF Close

\* The sheet of a copy that is not behind is appended to its timeline.
LEMMA Appended ==
  ASSUME IInv, NEW f \in SlotRows, Row(f), f.char \in Chars, ~ BehindHead(f),
         f.sheet # HeadSheet(f.char), TakenForCurrent(f),
         timeline' = [timeline EXCEPT ![f.char] = Append(@, f.sheet)]
  PROVE  /\ timeline' \in [Chars -> Seq(Sheets)]
         /\ Grows /\ StampedNeverRevert'
         /\ Len(timeline'[f.char]) \in Nat /\ 1 <= Len(timeline'[f.char])
         /\ timeline'[f.char][Len(timeline'[f.char])] = f.sheet
<1> DEFINE c == f.char
           n == HeadRevision(c)
<1>1. timeline \in [Chars -> Seq(Sheets)] /\ timeline[c] \in Seq(Sheets) /\ f.sheet \in Sheets
  BY DEF IInv, TypeOK, SlotRows
<1>2. Registered(c) /\ n \in Nat /\ 1 <= n
  BY HeadFacts DEF IInv, Row
<1>3. /\ timeline'[c] = Append(timeline[c], f.sheet)
      /\ \A g \in Chars \ {c} : timeline'[g] = timeline[g]
      /\ timeline' \in [Chars -> Seq(Sheets)]
  BY <1>1
<1>4. /\ HeadRevision(c)' = n + 1
      /\ timeline'[c][n + 1] = f.sheet
      /\ \A i \in 1 .. n : timeline'[c][i] = timeline[c][i]
  BY <1>1, <1>3 DEF HeadRevision
<1>5. \A g \in Chars \ {c} : HeadRevision(g)' = HeadRevision(g) /\ HeadRevision(g) \in Nat
  BY <1>1, <1>3 DEF HeadRevision
<1>6. exempted \subseteq exempted' /\ (Exempt(f) => c \in exempted')
  BY DEF TakenForCurrent
<1>7. Grows
  <2>1. \A g \in Chars : HeadRevision(g) <= HeadRevision(g)'
    BY <1>2, <1>4, <1>5
  <2>2. \A g \in Chars : \A i \in 1 .. HeadRevision(g) : timeline'[g][i] = timeline[g][i]
    BY <1>3, <1>4
  <2> QED
    BY <1>6, <2>1, <2>2 DEF Grows
<1>8. StampedNeverRevert'
  <2> SUFFICES ASSUME NEW g \in Chars \ exempted' PROVE Continues(g)'
    BY DEF StampedNeverRevert
  <2>1. Continues(g)
    BY <1>6 DEF IInv, StampedNeverRevert
  <2>2. CASE g # c
    BY <1>3, <1>5, <2>1, <2>2 DEF Continues
  <2>3. CASE g = c
    <3>1. HeadSheet(c) \subseteq f.sheet
      BY <1>6, <2>3, CurrentFacts
    <3>2. \A i \in 1 .. n : timeline[c][i] \subseteq f.sheet
      BY <1>2, <2>1, <2>3, <3>1 DEF Continues, HeadSheet
    <3> SUFFICES ASSUME NEW j \in 1 .. n + 1, NEW i \in 1 .. j
                 PROVE  timeline'[c][i] \subseteq timeline'[c][j]
      BY <1>4, <2>3 DEF Continues
    <3>3. CASE j = n + 1
      <4>1. i = n + 1 \/ i \in 1 .. n
        BY <1>2, <3>3
      <4> QED
        BY <1>4, <3>2, <3>3, <4>1
    <3>4. CASE j # n + 1
      <4>1. j \in 1 .. n /\ i \in 1 .. n
        BY <1>2, <3>4
      <4> QED
        BY <1>4, <2>1, <2>3, <4>1 DEF Continues
    <3> QED
      BY <3>3, <3>4
  <2> QED
    BY <2>2, <2>3
<1>9. /\ Len(timeline'[c]) \in Nat /\ 1 <= Len(timeline'[c])
      /\ timeline'[c][Len(timeline'[c])] = f.sheet
  BY <1>2, <1>4 DEF HeadRevision
<1> QED
  BY <1>3, <1>7, <1>8, <1>9

LEMMA ReleaseInv ==
  ASSUME IInv, NEW d \in Dbs, NEW s \in Slots, Release(d, s)
  PROVE  IInv'
<1> DEFINE f == file[d][s]
           c == file[d][s].char
           stamp == [slot |-> s, char |-> c, rev |-> Len(timeline'[c])]
<1>1. /\ pc[d] = "closing" /\ plan[d][s] = "release"
      /\ Did(d, s, "done") /\ UNCHANGED <<file, backup, pc, edits>>
  BY DEF Release, At, IsNext
<1>2. c \in Chars /\ Registered(c) /\ f \in SlotRows /\ Row(f)
  BY <1>1, LinkedFacts DEF IInv, TypeOK, Rows
<1>3. CASE UNCHANGED <<timeline, custody, due, exempted>>
  <2>1. LocalTo(d)
    BY <1>1, <1>2, <1>3, Staying DEF Did, Tasked, Tasks, TaskNames, IInv, TypeOK, Stamps
  <2>2. custody' \in [Chars -> Holders \cup {Idle}]
    BY <1>3 DEF IInv, TypeOK
  <2> QED
    BY <1>1, <1>3, <2>1, <2>2, Quiet
<1>4. CASE /\ ~ BehindHead(f) /\ TakenForCurrent(f)
           /\ timeline' = SyncedBack(d, s)
           /\ custody' = [custody EXCEPT ![c] = Idle]
           /\ due' = [due EXCEPT ![d] = stamp]
  <2>1. /\ custody' \in [Chars -> Holders \cup {Idle}] /\ due \in [Dbs -> Stamps]
    BY <1>4 DEF IInv, TypeOK, Stamps
  <2>2. /\ exempted \subseteq exempted' /\ exempted' \subseteq Chars
        /\ Exempt(f) => c \in exempted'
    BY <1>2, <1>4 DEF TakenForCurrent, IInv, TypeOK
  <2>3. timeline' \in [Chars -> Seq(Sheets)] => LocalTo(d) /\ due'[d] = stamp
    <3> HAVE timeline' \in [Chars -> Seq(Sheets)]
    <3>1. stamp \in Stamps
      BY <1>2 DEF Stamps
    <3>2. /\ due' \in [Dbs -> Stamps] /\ due'[d] = stamp
          /\ \A e \in Dbs \ {d} : due'[e] = due[e]
      BY <1>4, <2>1, <3>1
    <3> QED
      BY <1>1, <1>2, <3>2, Staying DEF Did, Tasked, Tasks, TaskNames
  <2>4. CASE f.sheet = HeadSheet(c)
    <3>1. UNCHANGED timeline
      BY <1>4, <2>4 DEF SyncedBack
    <3>2. LocalTo(d) /\ due'[d] = [slot |-> s, char |-> c, rev |-> HeadRevision(c)]
      BY <2>3, <3>1 DEF HeadRevision, IInv, TypeOK
    <3> QED
      BY <1>1, <1>2, <2>1, <2>2, <2>4, <3>1, <3>2, Stamping
  <2>5. CASE f.sheet # HeadSheet(c)
    <3>1. timeline' = [timeline EXCEPT ![c] = Append(@, f.sheet)]
      BY <1>4, <2>5 DEF SyncedBack
    <3>2. /\ timeline' \in [Chars -> Seq(Sheets)]
          /\ Grows /\ StampedNeverRevert'
          /\ Len(timeline'[c]) \in Nat /\ 1 <= Len(timeline'[c])
          /\ timeline'[c][Len(timeline'[c])] = f.sheet
      BY <1>2, <1>4, <2>5, <3>1, Appended
    <3>3. LocalTo(d) /\ due'[d] = stamp
      BY <2>3, <3>2
    <3>4. TypeOK'
      BY <1>1, <2>1, <2>2, <3>2, <3>3 DEF IInv, TypeOK, LocalTo, Phases, Stamps
    <3>5. Rows'
      BY <1>1, <3>2, <3>4, RowsStay
    <3>6. Due(d)'
      BY <1>1, <3>2, <3>3 DEF Due, HeadRevision
    <3> QED
      BY <1>1, <3>2, <3>3, <3>4, <3>5, <3>6, LocalStep
  <2> QED
    BY <2>4, <2>5
<1> QED
  BY <1>3, <1>4 DEF Release

LEMMA RestoreInv ==
  ASSUME IInv, NEW d \in Dbs, NEW e \in Copies, Restore(d, e)
  PROVE  IInv'
<1>1. e \in Dbs /\ pc[e] = "absent"
  BY FilesAssumption DEF Restore
<1>2. PICK saved \in backup[d] : file' = [file EXCEPT ![e] = saved]
  BY DEF Restore
<1>3. /\ file \in [Dbs -> [Slots -> SlotRows]] /\ saved \in [Slots -> SlotRows]
      /\ pc \in [Dbs -> Phases]
  BY DEF IInv, TypeOK, Phases
<1>4. /\ file' \in [Dbs -> [Slots -> SlotRows]] /\ file'[e] = saved
      /\ \A x \in Dbs \ {e} : file'[x] = file[x]
  BY <1>1, <1>2, <1>3
<1>5. /\ pc' \in [Dbs -> Phases] /\ pc'[e] = "closed"
      /\ \A x \in Dbs \ {e} : pc'[x] = pc[x]
  BY <1>1, <1>3 DEF Restore, Goto, Phases
<1>6. plan[e] = NoPlan /\ due[e] = NoStamp
  BY <1>1 DEF IInv, Plans
<1>7. TypeOK'
  BY <1>4, <1>5 DEF Restore, IInv, TypeOK, Phases
<1>8. Grows /\ StampedNeverRevert'
  BY SameTimelines DEF Restore, IInv
<1>9. Rows'
  <2>1. \A f \in SlotRows : Row(f) => Row(f)'
    BY <1>7, <1>8, RowStays DEF IInv
  <2>2. \A x \in Dbs, s \in Slots : file'[x][s] \in SlotRows /\ Row(file'[x][s])
    BY <1>2, <1>3, <1>4 DEF IInv, Rows
  <2>3. \A x \in Dbs, s \in Slots : \A kept \in backup[x] :
          kept[s] \in SlotRows /\ Row(kept[s])
    BY DEF IInv, Rows, TypeOK
  <2>4. UNCHANGED backup
    BY DEF Restore
  <2> QED
    BY <2>1, <2>2, <2>3, <2>4 DEF Rows
<1>10. Dues'
  <2> SUFFICES ASSUME NEW x \in Dbs, due'[x] # NoStamp PROVE Due(x)'
    BY DEF Dues
  <2>1. UNCHANGED due /\ x # e
    BY <1>6 DEF Restore
  <2> QED
    BY <1>4, <1>7, <1>8, <2>1, DueStays
<1>11. Plans'
  <2>1. \A s \in Slots : plan[e][s] = "done"
    BY <1>6 DEF NoPlan
  <2>2. UNCHANGED <<plan, due>>
    BY DEF Restore
  <2> QED
    BY <1>4, <1>5, <2>1, <2>2 DEF IInv, Plans
<1> QED
  BY <1>7, <1>8, <1>9, <1>10, <1>11 DEF IInv

-----------------------------------------------------------------------------
\* Every step keeps the invariant.
LEMMA NextInv == IInv /\ [Next]_vars => IInv'
<1> SUFFICES ASSUME IInv, [Next]_vars PROVE IInv'
  OBVIOUS
<1>1. CASE UNCHANGED vars
  <2>1. TypeOK'
    BY <1>1 DEF IInv, TypeOK, vars
  <2>2. Grows /\ StampedNeverRevert'
    BY <1>1, SameTimelines DEF IInv, vars
  <2>3. Rows'
    BY <1>1, <2>1, <2>2, RowsStay DEF vars
  <2>4. Dues'
    BY <1>1, <2>1, <2>2, DueStays DEF vars, Dues
  <2>5. Plans'
    BY <1>1 DEF IInv, Plans, vars
  <2> QED
    BY <2>1, <2>2, <2>3, <2>4, <2>5 DEF IInv
<1>2. ASSUME NEW g \in Chars, Register(g) PROVE IInv'
  BY <1>2, RegisterInv
<1>3. ASSUME NEW g \in Chars, NEW new \in Chars, NEW i \in 1 .. MaxEdits + 1,
             Fork(g, i, new)
      PROVE  IInv'
  BY <1>3, ForkInv
<1>4. ASSUME NEW d \in Dbs,
             \/ Open(d) \/ Defer(d) \/ Activate(d) \/ Begin(d) \/ Close(d) \/ Leave(d)
             \/ Stamp(d) \/ StampFails(d) \/ Crash(d)
      PROVE  IInv'
  BY <1>4, SetupInv, ActivateInv, BeginInv, CloseInv, LeaveCrashInv, StampInv,
     StampFailsInv
<1>5. ASSUME NEW d \in Dbs, NEW s \in Slots,
             \/ AddCharacter(d, s)
             \/ CatchUp(d, s) \/ AttachFork(d, s) \/ Acquire(d, s)
             \/ Edit(d, s) \/ Release(d, s)
      PROVE  IInv'
  BY <1>5, SetupInv, CatchUpInv, AttachForkInv, AcquireInv, EditInv, ReleaseInv
<1>6. ASSUME NEW d \in Dbs, NEW s \in Slots, NEW g \in Chars,
             Import(d, s, g) \/ ForkConflicted(d, s, g)
      PROVE  IInv'
  BY <1>6, ImportInv, ForkConflictedInv
<1>7. ASSUME NEW d \in Dbs, NEW e \in Copies, Restore(d, e) PROVE IInv'
  BY <1>7, RestoreInv
<1> QED
  BY <1>1, <1>2, <1>3, <1>4, <1>5, <1>6, <1>7 DEF Next

\* Every variable is a value of its kind: no registry unit is entered for a
\* character that is not registered, nor a slot released that is not linked.
THEOREM TypesHold == Spec => []TypeOK
<1>1. IInv => TypeOK
  BY DEF IInv
<1> QED
  BY <1>1, InitInv, NextInv, PTL DEF Spec

\* However many campaigns, files and copies play a character, and wherever they
\* die, its timeline loses no progress, as long as every copy of it that was
\* taken for current was the head or bore a stamp.
THEOREM NeverReverted == Spec => []StampedNeverRevert
<1>1. IInv => StampedNeverRevert
  BY DEF IInv
<1> QED
  BY <1>1, InitInv, NextInv, PTL DEF Spec

-----------------------------------------------------------------------------
\* Custody where each campaign has one file

\* Each campaign has one file: no checkpoint of it was restored beside it.
OneFileEach == \A d, e \in Dbs : CampaignOf[d] = CampaignOf[e] => d = e

\* The tasks that an activation or a set-up still has to do.
Unsettled == Resolutions \cup {"caught", "take", "import"}

\* The process on d plays slot s, or will without looking at it again.
Settled(d, s) ==
  \/ pc[d] = "playing"
  \/ pc[d] \in {"applying", "adding"} /\ plan[d][s] \notin Unsettled

HeadStamp(s, g) == [slot |-> s, char |-> g, rev |-> HeadRevision(g)]

\* Slot s of d holds g with all its progress, and the copy is stamped at the
\* head unless it is the head itself.
Kept(d, s, g) ==
  /\ file[d][s].char = g
  /\ HeadSheet(g) \subseteq file[d][s].sheet
  /\ Synced(file[d][s]) = HeadRevision(g) \/ file[d][s].sheet = HeadSheet(g)

\* It is stamped before play can change it.
Stamped(d, s, g) ==
  Settled(d, s) =>
    Synced(file[d][s]) = HeadRevision(g) \/ due[d] = HeadStamp(s, g)

\* Slot s of d, which holds g, was given another character after a write failed.
Orphan(d, s, g) == d \in Failing /\ file[d][s].char \in Chars \ {g}

KeptAll(d) ==
  \A g \in Chars, s \in Slots : custody[g] = Holder(d, s) =>
    /\ Registered(g)
    /\ Orphan(d, s, g) \/ (Kept(d, s, g) /\ Stamped(d, s, g))

\* A stamp that is due on a copy in custody is that of the head.
DueHead(d) ==
  due[d] # NoStamp /\ custody[due[d].char] = Holder(d, due[d].slot)
    => due[d].rev = HeadRevision(due[d].char)

\* A stamp is due on a copy that was locked just now, and at a set-up it is the
\* one that is set up; or it was released just now.
Owed(d) ==
  due[d] # NoStamp =>
    /\ pc[d] \in {"setup", "adding", "applying", "closing"}
    /\ pc[d] \in {"setup", "adding"} => plan[d][due[d].slot] = "import"
    /\ pc[d] # "closing" => custody[due[d].char] = Holder(d, due[d].slot)
    /\ pc[d] = "closing" =>
         plan[d][due[d].slot] # "release" /\ HandedBack(d, due[d].slot)

\* A character is in one slot.
Alone(d) ==
  \A s, t \in Linked(d) : file[d][s].char = file[d][t].char => s = t

\* A character registered for a fork is in none, and for one.
Reserved(d) ==
  \A s \in Slots : plan[d][s] \in Chars =>
    /\ Registered(plan[d][s])
    /\ \A t \in Slots : file[d][t].char # plan[d][s]
    /\ \A t \in Slots : plan[d][t] = plan[d][s] => s = t

\* Only an activation has tasks other than releases and the one import of a
\* set-up; the party that is first set up has no other slot.
Idling(d) ==
  /\ pc[d] # "applying" =>
       \A s \in Slots : plan[d][s] \in {"done", "release", "import"}
  /\ \A s \in Slots : plan[d][s] = "import" =>
       /\ pc[d] \in {"setup", "adding"}
       /\ \A t \in Slots : plan[d][t] = "import" => s = t
  /\ pc[d] = "setup" => \A s \in Linked(d) : plan[d][s] = "import"

\* A set-up finds its slot linked only when a write has failed: it is held, or
\* was only attached.
Fresh(d) ==
  \A s \in Linked(d) : plan[d][s] = "import" =>
    /\ d \in Failing \/ due[d] # NoStamp
    /\ custody[file[d][s].char] = Holder(d, s) \/ HandedBack(d, s)

\* What is played is in custody until its release; what is to be resolved is not.
Locked(d) ==
  \A s \in Linked(d) :
    /\ Settled(d, s) => custody[file[d][s].char] = Holder(d, s)
    /\ pc[d] = "closing" /\ plan[d][s] = "release" =>
         custody[file[d][s].char] = Holder(d, s) \/ HandedBack(d, s)
    /\ plan[d][s] \in Resolutions => custody[file[d][s].char] # Holder(d, s)

\* What was released is neither held nor lost, but where a write failed.
Returned(d) ==
  pc[d] = "closing" =>
    \A s \in Linked(d) : plan[d][s] # "release" =>
      \/ HandedBack(d, s)
      \/ d \in Failing /\ custody[file[d][s].char] = Holder(d, s)

Own(d) ==
  /\ KeptAll(d) /\ DueHead(d) /\ Owed(d) /\ Alone(d) /\ Reserved(d)
  /\ Idling(d) /\ Fresh(d) /\ Locked(d) /\ Returned(d)

\* Custody is only ever taken by a slot of a file.
HeldBySome ==
  \A g \in Chars : custody[g] # Idle =>
    \E d \in Dbs, s \in Slots : custody[g] = Holder(d, s)

\* The strengthening of the custody properties.
OwnInv == IInv /\ HeldBySome /\ \A d \in Dbs : Own(d)

-----------------------------------------------------------------------------
\* What a step of d does to the other files and to the registry: it takes what
\* nobody holds, gives up what d holds, and appends to what d holds.
Acts(d) ==
  /\ \A e \in Dbs \ {d} :
       file'[e] = file[e] /\ pc'[e] = pc[e] /\ plan'[e] = plan[e] /\ due'[e] = due[e]
  /\ \A g \in Chars :
       \/ custody'[g] = custody[g]
       \/ \E s \in Slots : custody[g] = Idle /\ custody'[g] = Holder(d, s)
       \/ \E s \in Slots : custody[g] = Holder(d, s) /\ custody'[g] = Idle
  /\ \A g \in Chars :
       \/ timeline'[g] = timeline[g] \/ ~ Registered(g)
       \/ \E s \in Slots : custody[g] = Holder(d, s)
  /\ Grows

LEMMA HolderFacts ==
  ASSUME NEW d \in Dbs, NEW e \in Dbs, NEW s \in Slots, NEW t \in Slots
  PROVE  /\ Holder(d, s) # Idle
         /\ Holder(d, s) = Holder(e, t) => CampaignOf[d] = CampaignOf[e] /\ s = t
BY FilesAssumption, NoneAssumption DEF Holder

\* A stamp is never the lack of one.
LEMMA StampFacts ==
  ASSUME NEW s \in Slots, NEW g
  PROVE  HeadStamp(s, g) # NoStamp
<1>1. s # 0
  BY SlotsAssumption
<1>2. HeadStamp(s, g).slot = s /\ NoStamp.slot = 0
  BY DEF HeadStamp, NoStamp
<1> QED
  BY <1>1, <1>2

\* A linked slot has a registered character, and no stamp from the future.
LEMMA CharFacts ==
  ASSUME IInv, NEW d \in Dbs, NEW s \in Slots
  PROVE  /\ file[d][s] \in SlotRows
         /\ s \in Linked(d) <=> file[d][s].char \in Chars
         /\ s \notin Linked(d) <=> file[d][s].char = NoChar
         /\ s \in Linked(d) =>
              /\ Registered(file[d][s].char)
              /\ HeadRevision(file[d][s].char) \in Nat
              /\ Synced(file[d][s]) \in Nat
              /\ Synced(file[d][s]) <= HeadRevision(file[d][s].char)
<1> DEFINE f == file[d][s]
<1>1. f \in SlotRows /\ Row(f)
  BY DEF IInv, TypeOK, Rows
<1>2. f.char = NoChar \/ f.char \in Chars
  BY <1>1 DEF SlotRows
<1>3. s \in Linked(d) <=> f.char \in Chars
  BY <1>2, NoneAssumption DEF Linked
<1>4. ASSUME f.char \in Chars
      PROVE  /\ Registered(f.char) /\ HeadRevision(f.char) \in Nat
             /\ Synced(f) \in Nat /\ Synced(f) <= HeadRevision(f.char)
  <2>1. Registered(f.char)
    BY <1>1, <1>4 DEF Row
  <2>2. HeadRevision(f.char) \in Nat
    BY <1>4, <2>1, HeadFacts DEF IInv
  <2>3. CASE f.stamped = f.char
    <3>1. f.synced \in 1 .. HeadRevision(f.char)
      BY <1>1, <1>4, <2>3 DEF Row
    <3> QED
      BY <2>1, <2>2, <2>3, <3>1 DEF Synced
  <2>4. CASE f.stamped # f.char
    BY <2>1, <2>2, <2>4 DEF Synced
  <2> QED
    BY <2>3, <2>4
<1> QED
  BY <1>1, <1>2, <1>3, <1>4 DEF Linked

\* A character that a slot holds is registered, and in it but for a failed write.
LEMMA HeldFacts ==
  ASSUME IInv, NEW d \in Dbs, KeptAll(d), NEW s \in Slots, NEW g \in Chars,
         custody[g] = Holder(d, s)
  PROVE  /\ s \in Linked(d) /\ Registered(g)
         /\ file[d][s].char # g => d \in Failing
         /\ file[d][s].char = g =>
              Kept(d, s, g) /\ Stamped(d, s, g) /\ ~ BehindHead(file[d][s])
<1>1. Registered(g) /\ (Orphan(d, s, g) \/ (Kept(d, s, g) /\ Stamped(d, s, g)))
  BY DEF KeptAll
<1>2. CASE Orphan(d, s, g)
  BY <1>1, <1>2, CharFacts DEF Orphan
<1>3. CASE Kept(d, s, g) /\ Stamped(d, s, g)
  <2>1. s \in Linked(d) /\ file[d][s].char = g
        /\ HeadRevision(g) \in Nat /\ Synced(file[d][s]) \in Nat
    BY <1>3, CharFacts DEF Kept
  <2>2. ~ BehindHead(file[d][s])
    BY <1>3, <2>1 DEF Kept, BehindHead
  <2> QED
    BY <1>1, <1>3, <2>1, <2>2
<1> QED
  BY <1>1, <1>2, <1>3

\* The registry keeps what was handed back, while the slot does not take it again.
LEMMA HandedBackStays ==
  ASSUME IInv, IInv', Grows, NEW d \in Dbs, NEW s \in Slots,
         file[d][s].char \in Chars, HandedBack(d, s),
         file'[d][s].char = file[d][s].char, file'[d][s].sheet = file[d][s].sheet,
         custody'[file[d][s].char] # Holder(d, s)
  PROVE  HandedBack(d, s)'
<1> DEFINE g == file[d][s].char
           n == HeadRevision(file[d][s].char)
           m == HeadRevision(file[d][s].char)'
<1>1. PICK i \in 1 .. n : timeline[g][i] = file[d][s].sheet
  BY DEF HandedBack
<1>2. n \in Nat /\ m \in Nat
  BY DEF IInv, TypeOK, HeadRevision
<1>3. n <= m /\ timeline'[g][i] = timeline[g][i]
  <2>1. \A h \in Chars : h = file'[d][s].char => HeadRevision(h)' = m
    BY DEF HeadRevision
  <2> QED
    BY <1>1, <2>1 DEF Grows
<1>4. i \in 1 .. m
  BY <1>1, <1>2, <1>3
<1>5. custody'[file'[d][s].char] # Holder(d, s)
  OBVIOUS
<1>6. \E k \in 1 .. m : timeline'[file'[d][s].char][k] = file'[d][s].sheet
  BY <1>1, <1>3, <1>4
<1> QED
  BY <1>5, <1>6 DEF HandedBack, Holder

\* A step that writes neither the file of e nor what it holds.
Spares(e) ==
  /\ file'[e] = file[e] /\ pc'[e] = pc[e] /\ plan'[e] = plan[e] /\ due'[e] = due[e]
  /\ \A g \in Chars, s \in Slots :
       /\ custody'[g] = Holder(e, s) <=> custody[g] = Holder(e, s)
       /\ custody[g] = Holder(e, s) /\ Registered(g) => timeline'[g] = timeline[g]
  /\ Grows

LEMMA SparedOwn ==
  ASSUME IInv, IInv', NEW e \in Dbs, Spares(e), Own(e)
  PROVE  Own(e)'
<1>1. file'[e] = file[e] /\ pc'[e] = pc[e] /\ plan'[e] = plan[e] /\ due'[e] = due[e]
  BY DEF Spares
<1>2. /\ KeptAll(e) /\ DueHead(e) /\ Owed(e) /\ Alone(e) /\ Reserved(e)
      /\ Idling(e) /\ Fresh(e) /\ Locked(e) /\ Returned(e)
  BY DEF Own
<1>3. Grows
  BY DEF Spares
<1>4. \A g \in Chars, s \in Slots : custody'[g] = Holder(e, s) <=> custody[g] = Holder(e, s)
  BY DEF Spares
<1>5. \A g \in Chars, s \in Slots : custody[g] = Holder(e, s) =>
        /\ timeline'[g] = timeline[g] /\ HeadRevision(g)' = HeadRevision(g)
        /\ HeadSheet(g)' = HeadSheet(g)
  <2> SUFFICES ASSUME NEW g \in Chars, NEW s \in Slots, custody[g] = Holder(e, s)
               PROVE  timeline'[g] = timeline[g]
    BY DEF HeadRevision, HeadSheet
  <2>1. Registered(g)
    BY <1>2, HeldFacts
  <2> QED
    BY <2>1 DEF Spares
<1>6. Linked(e)' = Linked(e) /\ \A s \in Slots : Settled(e, s)' = Settled(e, s)
  BY <1>1 DEF Linked, Settled
<1>7. \A g \in Chars : Registered(g) => Registered(g)'
  <2>1. \A g \in Chars : timeline[g] \in Seq(Sheets) /\ timeline[g] # <<>> => 1 \in 1 .. Len(timeline[g])
    BY DEF IInv, TypeOK
  <2> QED
    BY <1>3, <2>1 DEF Grows, IInv, TypeOK, Registered, HeadRevision
<1>8. KeptAll(e)'
  <2> SUFFICES ASSUME NEW g \in Chars, NEW s \in Slots, custody'[g] = Holder(e, s)
               PROVE  /\ Registered(g)'
                      /\ Orphan(e, s, g)' \/ (Kept(e, s, g)' /\ Stamped(e, s, g)')
    BY DEF KeptAll, Holder
  <2>1. custody[g] = Holder(e, s)
    BY <1>4
  <2>2. HeadRevision(g)' = HeadRevision(g) /\ HeadSheet(g)' = HeadSheet(g)
    BY <1>5, <2>1
  <2>3. Registered(g) /\ (Orphan(e, s, g) \/ (Kept(e, s, g) /\ Stamped(e, s, g)))
    BY <1>2, <2>1 DEF KeptAll
  <2>4. CASE Orphan(e, s, g)
    BY <1>1, <1>7, <2>3, <2>4 DEF Orphan
  <2>5. CASE Kept(e, s, g) /\ Stamped(e, s, g)
    BY <1>1, <1>6, <1>7, <2>2, <2>3, <2>5 DEF Kept, Stamped, HeadStamp, Synced
  <2> QED
    BY <2>3, <2>4, <2>5
<1>9. ASSUME due[e] # NoStamp
      PROVE  /\ due[e].char \in Chars /\ due[e].slot \in Slots
             /\ file[e][due[e].slot].char = due[e].char
             /\ custody'[due[e].char] = Holder(e, due[e].slot) <=>
                  custody[due[e].char] = Holder(e, due[e].slot)
  <2>1. due[e].char \in Chars /\ due[e].slot \in Slots
    BY <1>9 DEF IInv, TypeOK
  <2>2. file[e][due[e].slot].char = due[e].char
    BY <1>9 DEF IInv, Dues, Due
  <2> QED
    BY <1>4, <2>1, <2>2
<1>10. DueHead(e)'
  <2> SUFFICES ASSUME due[e] # NoStamp, custody'[due[e].char] = Holder(e, due[e].slot)
               PROVE  due[e].rev = HeadRevision(due[e].char)'
    BY <1>1 DEF DueHead, Holder, HeadRevision
  <2>1. /\ due[e].char \in Chars /\ due[e].slot \in Slots
        /\ custody[due[e].char] = Holder(e, due[e].slot)
    BY <1>9
  <2>2. HeadRevision(due[e].char)' = HeadRevision(due[e].char)
    <3>1. timeline'[due[e].char] = timeline[due[e].char]
      BY <1>5, <2>1
    <3> QED
      BY <1>1, <3>1 DEF HeadRevision
  <2> QED
    BY <1>2, <2>1, <2>2 DEF DueHead
<1>11. \A s \in Linked(e) : file[e][s].char \in Chars /\ s \in Slots
  BY CharFacts DEF Linked
<1>12. \A s \in Linked(e) : HandedBack(e, s) => HandedBack(e, s)'
  <2> SUFFICES ASSUME NEW s \in Linked(e), HandedBack(e, s) PROVE HandedBack(e, s)'
    OBVIOUS
  <2>1. custody[file[e][s].char] # Holder(e, s)
    BY DEF HandedBack
  <2> QED
    BY <1>1, <1>3, <1>4, <1>11, <2>1, HandedBackStays
<1>13. Owed(e)'
  <2> SUFFICES ASSUME due[e] # NoStamp
               PROVE  /\ pc[e] \in {"setup", "adding", "applying", "closing"}
                      /\ pc[e] \in {"setup", "adding"} => plan[e][due[e].slot] = "import"
                      /\ pc[e] # "closing" => custody'[due[e].char] = Holder(e, due[e].slot)
                      /\ pc[e] = "closing" => plan[e][due[e].slot] # "release"
                      /\ pc[e] = "closing" => HandedBack(e, due[e].slot)'
    BY <1>1 DEF Owed, Holder, HandedBack, HeadRevision
  <2>1. due[e].slot \in Linked(e)
    BY <1>9, CharFacts
  <2>2. HandedBack(e, due[e].slot) => HandedBack(e, due[e].slot)'
    BY <1>1, <1>12, <2>1 DEF HandedBack, Holder, HeadRevision
  <2> QED
    BY <1>2, <1>9, <2>2 DEF Owed
<1>14. Alone(e)' /\ Idling(e)'
  BY <1>1, <1>2, <1>6 DEF Alone, Idling
<1>15. Reserved(e)'
  BY <1>1, <1>2, <1>7 DEF Reserved, Registered
<1>16. Fresh(e)'
  <2> SUFFICES ASSUME NEW s \in Linked(e), plan[e][s] = "import"
               PROVE  /\ e \in Failing \/ due[e] # NoStamp
                      /\ custody'[file[e][s].char] = Holder(e, s) \/ HandedBack(e, s)'
    BY <1>1, <1>6 DEF Fresh, Holder
  <2> QED
    BY <1>2, <1>4, <1>11, <1>12 DEF Fresh
<1>17. Locked(e)'
  <2> SUFFICES ASSUME NEW s \in Linked(e)
               PROVE  /\ Settled(e, s) => custody'[file[e][s].char] = Holder(e, s)
                      /\ pc[e] = "closing" /\ plan[e][s] = "release" =>
                           \/ custody'[file[e][s].char] = Holder(e, s)
                           \/ HandedBack(e, s)'
                      /\ plan[e][s] \in Resolutions =>
                           custody'[file[e][s].char] # Holder(e, s)
    BY <1>1, <1>6, <1>11 DEF Locked, Holder
  <2> QED
    BY <1>2, <1>4, <1>11, <1>12 DEF Locked
<1>18. Returned(e)'
  <2> SUFFICES ASSUME pc[e] = "closing", NEW s \in Linked(e), plan[e][s] # "release"
               PROVE  \/ HandedBack(e, s)'
                      \/ e \in Failing /\ custody'[file[e][s].char] = Holder(e, s)
    BY <1>1, <1>6, <1>11 DEF Returned, Holder
  <2> QED
    BY <1>2, <1>4, <1>11, <1>12 DEF Returned
<1> QED
  BY <1>8, <1>10, <1>13, <1>14, <1>15, <1>16, <1>17, <1>18 DEF Own

\* The custody of the other campaigns is not touched by a step of d.
LEMMA OthersOwn ==
  ASSUME OneFileEach, IInv, IInv', NEW d \in Dbs, Acts(d),
         NEW e \in Dbs \ {d}, Own(e)
  PROVE  Own(e)'
<1>1. \A s, t \in Slots : Holder(d, s) # Holder(e, t) /\ Holder(e, t) # Idle
  BY HolderFacts DEF OneFileEach
<1>2. \A g \in Chars, s \in Slots : custody'[g] = Holder(e, s) <=> custody[g] = Holder(e, s)
  BY <1>1 DEF Acts
<1>3. \A g \in Chars, s \in Slots :
        custody[g] = Holder(e, s) /\ Registered(g) => timeline'[g] = timeline[g]
  BY <1>1 DEF Acts
<1>4. Spares(e)
  BY <1>2, <1>3 DEF Acts, Spares
<1> QED
  BY <1>4, SparedOwn

\* The steps that take or give up no custody and append to no timeline.
LEMMA QuietActs ==
  ASSUME IInv, NEW d \in Dbs, UNCHANGED <<timeline, custody>>,
         exempted \subseteq exempted',
         \A e \in Dbs \ {d} : /\ file'[e] = file[e] /\ pc'[e] = pc[e]
                              /\ plan'[e] = plan[e] /\ due'[e] = due[e]
  PROVE  Acts(d)
<1>1. Grows
  BY SameGrows DEF IInv
<1> QED
  BY <1>1 DEF Acts

\* What is held, and settled with no stamp due, is stamped at the head.
LEMMA SettledFacts ==
  ASSUME IInv, NEW d \in Dbs, KeptAll(d), due[d] = NoStamp,
         NEW s \in Slots, NEW g \in Chars, custody[g] = Holder(d, s),
         file[d][s].char = g, Settled(d, s)
  PROVE  Synced(file[d][s]) = HeadRevision(g)
BY HeldFacts, StampFacts DEF Stamped

\* What stays held in a file that is not written is kept, if it is stamped.
LEMMA KeptStays ==
  ASSUME IInv, NEW d \in Dbs, KeptAll(d), file'[d] = file[d],
         \A g \in Chars, s \in Slots : custody'[g] = Holder(d, s) =>
           custody[g] = Holder(d, s) /\ timeline'[g] = timeline[g],
         \A g \in Chars, s \in Slots :
           custody[g] = Holder(d, s) /\ file[d][s].char = g /\ Settled(d, s)' =>
             \/ Synced(file[d][s]) = HeadRevision(g)
             \/ due'[d] = HeadStamp(s, g)
  PROVE  KeptAll(d)'
<1> SUFFICES ASSUME NEW g \in Chars, NEW s \in Slots, custody'[g] = Holder(d, s)
             PROVE  /\ Registered(g)'
                    /\ Orphan(d, s, g)' \/ (Kept(d, s, g)' /\ Stamped(d, s, g)')
  BY DEF KeptAll, Holder
<1>1. custody[g] = Holder(d, s) /\ timeline'[g] = timeline[g]
  OBVIOUS
<1>2. HeadRevision(g)' = HeadRevision(g) /\ HeadSheet(g)' = HeadSheet(g)
      /\ HeadStamp(s, g)' = HeadStamp(s, g)
      /\ Synced(file[d][s])' = Synced(file[d][s])
  BY <1>1 DEF HeadRevision, HeadSheet, HeadStamp, Synced
<1>3. Registered(g) /\ (Orphan(d, s, g) \/ (Kept(d, s, g) /\ Stamped(d, s, g)))
  BY <1>1 DEF KeptAll
<1>4. Registered(g)'
  BY <1>1, <1>3 DEF Registered
<1>5. CASE Orphan(d, s, g)
  BY <1>4, <1>5 DEF Orphan
<1>6. CASE Kept(d, s, g) /\ Stamped(d, s, g)
  <2>1. Kept(d, s, g)'
    BY <1>2, <1>6 DEF Kept
  <2>2. Settled(d, s)' => Synced(file[d][s]) = HeadRevision(g) \/ due'[d] = HeadStamp(s, g)
    BY <1>1, <1>6 DEF Kept
  <2>3. Stamped(d, s, g)'
    BY <1>2, <2>2 DEF Stamped
  <2> QED
    BY <1>4, <2>1, <2>3
<1> QED
  BY <1>3, <1>5, <1>6

\* A process that ended owes nothing.
LEMMA ClosedOwn ==
  ASSUME IInv, NEW d \in Dbs, Ended(d), Alone(d)',
         \A g \in Chars, s \in Slots : custody'[g] = Holder(d, s) =>
           Registered(g)' /\ (Orphan(d, s, g)' \/ Kept(d, s, g)')
  PROVE  Own(d)'
<1>1. pc'[d] = "closed" /\ due'[d] = NoStamp /\ \A s \in Slots : plan'[d][s] = "done"
  BY DEF Ended, Goto, NoPlan, IInv, TypeOK
<1>2. "done" \notin Chars /\ "done" \notin Resolutions
  BY TasksAssumption DEF TaskNames, Resolutions
<1>3. \A s \in Slots : ~ Settled(d, s)'
  BY <1>1 DEF Settled
<1>4. KeptAll(d)'
  BY <1>3 DEF KeptAll, Stamped, Holder
<1>5. DueHead(d)' /\ Owed(d)' /\ Reserved(d)' /\ Idling(d)' /\ Returned(d)'
  BY <1>1, <1>2 DEF DueHead, Owed, Reserved, Idling, Returned
<1>6. Locked(d)' /\ Fresh(d)'
  BY <1>1, <1>2, <1>3 DEF Locked, Fresh, Linked
<1> QED
  BY <1>4, <1>5, <1>6 DEF Own

\* A process that ends and writes nothing.
LEMMA EndedOwn ==
  ASSUME IInv, NEW d \in Dbs, Own(d), Ended(d),
         UNCHANGED <<timeline, custody, file, exempted>>
  PROVE  Acts(d) /\ Own(d)'
<1>1. \A e \in Dbs \ {d} : pc'[e] = pc[e] /\ plan'[e] = plan[e] /\ due'[e] = due[e]
  BY DEF Ended, Goto, IInv, TypeOK
<1>2. Acts(d)
  BY <1>1, QuietActs
<1>3. Alone(d)'
  BY DEF Own, Alone, Linked
<1>4. \A g \in Chars, s \in Slots : custody'[g] = Holder(d, s) =>
        Registered(g)' /\ (Orphan(d, s, g)' \/ Kept(d, s, g)')
  BY DEF Own, KeptAll, Orphan, Kept, HeadSheet, HeadRevision, Synced, Registered
<1> QED
  BY <1>2, <1>3, <1>4, ClosedOwn

\* A process that goes to p, with no stamp due, and writes nothing: it settles
\* no slot, and what it is to release it holds but for a failed write.
LEMMA QuietOwn ==
  ASSUME IInv, NEW d \in Dbs, Own(d), due[d] = NoStamp,
         UNCHANGED <<timeline, custody, file, due, exempted>>,
         \A e \in Dbs \ {d} : pc'[e] = pc[e] /\ plan'[e] = plan[e],
         pc'[d] # "applying", Idling(d)',
         \A s \in Slots : plan'[d][s] = "import" => file[d][s].char = NoChar,
         \A s \in Slots : Settled(d, s)' => Settled(d, s),
         pc'[d] = "closing" => \A s \in Linked(d) :
           /\ plan'[d][s] = "release"
           /\ custody[file[d][s].char] = Holder(d, s) \/ HandedBack(d, s)
  PROVE  Acts(d) /\ Own(d)'
<1>1. Acts(d)
  BY QuietActs
<1>2. KeptAll(d) /\ Alone(d) /\ Locked(d)
  BY DEF Own
<1>3. KeptAll(d)'
  BY <1>2, SettledFacts, KeptStays
<1>4. DueHead(d)' /\ Owed(d)' /\ Alone(d)'
  BY <1>2 DEF DueHead, Owed, Alone, Linked
<1>5. \A s \in Slots : plan'[d][s] \notin Chars \cup Resolutions
  BY TasksAssumption DEF Idling, TaskNames, Resolutions
<1>6. Reserved(d)'
  BY <1>5 DEF Reserved
<1>7. Linked(d)' = Linked(d) /\ Linked(d) \subseteq Slots
  BY DEF Linked
<1>8. Fresh(d)'
  <2>1. \A s \in Linked(d) : file[d][s].char # NoChar
    BY DEF Linked
  <2> QED
    BY <1>7, <2>1 DEF Fresh
<1>9. \A s \in Slots : HandedBack(d, s)' = HandedBack(d, s)
  BY DEF HandedBack, Holder, HeadRevision
<1>10. Locked(d)'
  <2> SUFFICES ASSUME NEW s \in Linked(d)
               PROVE  /\ Settled(d, s)' => custody[file[d][s].char] = Holder(d, s)
                      /\ pc'[d] = "closing" =>
                           custody[file[d][s].char] = Holder(d, s) \/ HandedBack(d, s)
                      /\ plan'[d][s] \notin Resolutions
    BY <1>7, <1>9 DEF Locked, Holder
  <2> QED
    BY <1>2, <1>5, <1>7 DEF Locked
<1>11. Returned(d)'
  BY <1>7 DEF Returned
<1> QED
  BY <1>1, <1>3, <1>4, <1>6, <1>8, <1>10, <1>11 DEF Own

\* An operation has no stamp due: its own is written before the next.
LEMMA OpenOwn ==
  ASSUME IInv, NEW d \in Dbs, Own(d), Open(d)
  PROVE  Acts(d) /\ Own(d)'
<1>1. /\ pc[d] = "closed" /\ pc'[d] \in {"setup", "resume"}
      /\ \A e \in Dbs \ {d} : pc'[e] = pc[e]
      /\ UNCHANGED <<timeline, custody, file, due, exempted>>
  BY DEF Open, Goto, IInv, TypeOK
<1>2. Owed(d) /\ Idling(d)
  BY DEF Own
<1>3. due[d] = NoStamp
  BY <1>1, <1>2 DEF Owed
<1>4. \A s \in Slots : plan[d][s] \in {"done", "release"}
  BY <1>1, <1>2 DEF Idling
<1>5. \A s \in Slots : ~ Settled(d, s)'
  BY <1>1 DEF Settled
<1>6. CASE pc'[d] = "resume" /\ UNCHANGED plan
  <2>1. Idling(d)'
    BY <1>4, <1>6 DEF Idling
  <2> QED
    BY <1>1, <1>3, <1>4, <1>5, <1>6, <2>1, QuietOwn
<1>7. ASSUME Linked(d) = {}, pc'[d] = "setup", NEW s \in Slots, Did(d, s, "import")
      PROVE  Acts(d) /\ Own(d)'
  <2>1. /\ plan'[d][s] = "import" /\ \A t \in Slots \ {s} : plan'[d][t] = plan[d][t]
        /\ \A e \in Dbs \ {d} : plan'[e] = plan[e]
    BY <1>7 DEF Did, IInv, TypeOK
  <2>2. Linked(d)' = {} /\ \A t \in Slots : file[d][t].char = NoChar
    BY <1>1, <1>7 DEF Linked
  <2>3. Idling(d)'
    BY <1>4, <1>7, <2>1, <2>2 DEF Idling
  <2> QED
    BY <1>1, <1>3, <1>5, <1>7, <2>1, <2>2, <2>3, QuietOwn
<1>8. pc' = [pc EXCEPT ![d] = "setup"] => pc'[d] = "setup"
  BY DEF IInv, TypeOK
<1>9. pc' = [pc EXCEPT ![d] = "resume"] => pc'[d] = "resume"
  BY DEF IInv, TypeOK
<1> QED
  BY <1>6, <1>7, <1>8, <1>9 DEF Open, Goto

LEMMA DeferOwn ==
  ASSUME IInv, NEW d \in Dbs, Own(d), Defer(d)
  PROVE  Acts(d) /\ Own(d)'
<1>1. /\ due[d] = NoStamp /\ pc'[d] = "resume"
      /\ \A s \in Slots : plan'[d][s] = "done"
      /\ \A e \in Dbs \ {d} : pc'[e] = pc[e] /\ plan'[e] = plan[e]
      /\ UNCHANGED <<timeline, custody, file, due, exempted>>
  BY DEF Defer, At, Goto, NoPlan, IInv, TypeOK
<1>2. Idling(d)' /\ \A s \in Slots : ~ Settled(d, s)'
  BY <1>1 DEF Idling, Settled
<1> QED
  BY <1>1, <1>2, QuietOwn

LEMMA AddCharacterOwn ==
  ASSUME IInv, NEW d \in Dbs, NEW s \in Slots, Own(d), AddCharacter(d, s)
  PROVE  Acts(d) /\ Own(d)'
<1>1. /\ pc[d] = "playing" /\ due[d] = NoStamp /\ pc'[d] = "adding"
      /\ plan'[d][s] = "import" /\ \A t \in Slots \ {s} : plan'[d][t] = plan[d][t]
      /\ \A e \in Dbs \ {d} : pc'[e] = pc[e] /\ plan'[e] = plan[e]
      /\ UNCHANGED <<timeline, custody, file, due, exempted>>
  BY DEF AddCharacter, At, Goto, Did, IInv, TypeOK
<1>2. \A t \in Slots : plan[d][t] \in {"done", "release"}
  BY <1>1 DEF Own, Idling
<1>3. Idling(d)' /\ \A t \in Slots : Settled(d, t)
  BY <1>1, <1>2 DEF Idling, Settled
<1>4. file[d][s].char = NoChar
  BY DEF AddCharacter, Linked
<1>5. \A t \in Slots : plan'[d][t] = "import" => t = s
  BY <1>1, <1>2
<1> QED
  BY <1>1, <1>3, <1>4, <1>5, QuietOwn

\* How a slot that the campaign holds, and one that nobody does, is classified.
LEMMA HeldClass ==
  ASSUME NEW d \in Dbs, NEW s \in Slots, file[d][s].char \in Chars
  PROVE  /\ custody[file[d][s].char] = Holder(d, s) /\ ~ BehindHead(file[d][s]) =>
              Classification(d, s) = "already-held"
         /\ Classification(d, s) = "already-held" =>
              custody[file[d][s].char] = Holder(d, s)
         /\ Classification(d, s) = "resumable" => custody[file[d][s].char] = Idle
<1>1. Holder(d, s) # Idle /\ file[d][s].char # NoChar
  BY HolderFacts, NoneAssumption
<1> QED
  BY <1>1 DEF Classification

LEMMA ActivateOwn ==
  ASSUME IInv, NEW d \in Dbs, Own(d), Activate(d)
  PROVE  Acts(d) /\ Own(d)'
<1> DEFINE Are(kind) == {s \in Slots : Classification(d, s) = kind}
<1>1. CASE Ended(d)
  BY <1>1, EndedOwn DEF Activate
<1>2. CASE ~ Ended(d)
  <2>1. PICK chosen \in [Are("stale-copy") -> {"catchup", "fork"}] :
          plan' = [plan EXCEPT ![d] =
            [s \in Slots |->
               IF s \in Are("stale-copy") THEN chosen[s]
               ELSE IF s \in Are("not-linked") THEN "done" ELSE "take"]]
    BY <1>2 DEF Activate
  <2> DEFINE tasks == [s \in Slots |->
               IF s \in Are("stale-copy") THEN chosen[s]
               ELSE IF s \in Are("not-linked") THEN "done" ELSE "take"]
  <2>2. plan'[d] = tasks /\ \A e \in Dbs \ {d} : plan'[e] = plan[e]
    BY <2>1 DEF IInv, TypeOK
  <2>3. /\ due[d] = NoStamp /\ UNCHANGED <<timeline, custody, file, due, exempted>>
        /\ pc'[d] = "applying" /\ \A e \in Dbs \ {d} : pc'[e] = pc[e]
    BY <1>2 DEF Activate, At, Goto, IInv, TypeOK
  <2>4. Acts(d)
    BY <2>2, <2>3, QuietActs
  <2>5. KeptAll(d) /\ Alone(d) /\ Fresh(d)
    BY DEF Own
  <2>6. \A s \in Slots : plan'[d][s] \in {"done", "take", "catchup", "fork"}
    BY <2>2
  <2>7. \A s \in Linked(d) : plan'[d][s] # "done"
    <3>1. \A s \in Linked(d) : Classification(d, s) # "not-linked"
      BY DEF Classification, Linked
    <3> QED
      BY <2>2, <3>1 DEF Linked
  <2>8. /\ \A s \in Linked(d) : ~ Settled(d, s)'
        /\ {"done", "take", "catchup", "fork"} \cap Chars = {}
    BY <2>3, <2>6, <2>7, TasksAssumption DEF Settled, Unsettled, Resolutions, TaskNames, Linked
  <2>9. KeptAll(d)'
    <3>1. \A g \in Chars, s \in Slots : custody[g] = Holder(d, s) => s \in Linked(d)
      BY <2>5, HeldFacts
    <3> QED
      BY <2>3, <2>5, <2>8, <3>1, KeptStays
  <2>10. DueHead(d)' /\ Owed(d)' /\ Alone(d)' /\ Returned(d)'
    BY <2>3, <2>5 DEF DueHead, Owed, Alone, Linked, Returned
  <2>11. Reserved(d)' /\ Idling(d)' /\ Fresh(d)'
    BY <2>3, <2>5, <2>6, <2>8 DEF Reserved, Idling, Fresh, Linked
  <2>12. ASSUME NEW s \in Linked(d), plan'[d][s] \in Resolutions
         PROVE  custody[file[d][s].char] # Holder(d, s)
    <3>1. s \in Slots /\ plan'[d][s] \notin {"done", "take"}
      BY <2>8, <2>6, <2>7, <2>12, TasksAssumption DEF Resolutions, Linked, TaskNames
    <3>2. Classification(d, s) = "stale-copy"
      BY <2>2, <3>1
    <3>3. file[d][s].char \in Chars
      BY <3>1, CharFacts
    <3>4. custody[file[d][s].char] = Holder(d, s) => ~ BehindHead(file[d][s])
      BY <2>5, <3>1, <3>3, HeldFacts
    <3> QED
      BY <3>1, <3>2, <3>3, <3>4, HeldClass
  <2>13. Locked(d)'
    BY <2>3, <2>8, <2>12 DEF Locked, Linked, Holder
  <2> QED
    BY <2>4, <2>9, <2>10, <2>11, <2>13 DEF Own
<1> QED
  BY <1>1, <1>2

LEMMA BeginOwn ==
  ASSUME IInv, NEW d \in Dbs, Own(d), Begin(d)
  PROVE  Acts(d) /\ Own(d)'
<1>1. /\ pc[d] = "applying" /\ due[d] = NoStamp
      /\ \A s \in Slots : plan[d][s] \notin Resolutions \cup {"caught", "take"}
  BY DEF Begin, At, Pending
<1>2. /\ pc'[d] = "playing" /\ \A s \in Slots : plan'[d][s] = "done"
      /\ UNCHANGED <<timeline, custody, file, due, exempted>>
      /\ \A e \in Dbs \ {d} : pc'[e] = pc[e] /\ plan'[e] = plan[e]
  BY DEF Begin, Goto, NoPlan, IInv, TypeOK
<1>3. \A s \in Slots : plan[d][s] # "import"
  BY <1>1 DEF Own, Idling
<1>4. \A s \in Slots : Settled(d, s)
  BY <1>1, <1>3 DEF Settled, Unsettled
<1>5. Idling(d)'
  BY <1>2 DEF Idling
<1> QED
  BY <1>1, <1>2, <1>4, <1>5, QuietOwn

LEMMA CloseOwn ==
  ASSUME IInv, NEW d \in Dbs, Own(d), Close(d)
  PROVE  Acts(d) /\ Own(d)'
<1>1. pc[d] \in {"playing", "adding"} /\ due[d] = NoStamp
  BY DEF Close, At
<1>2. /\ pc'[d] = "closing" /\ UNCHANGED <<timeline, custody, file, due, exempted>>
      /\ \A s \in Slots : plan'[d][s] = IF s \in Linked(d) THEN "release" ELSE "done"
      /\ \A e \in Dbs \ {d} : pc'[e] = pc[e] /\ plan'[e] = plan[e]
  BY DEF Close, Goto, IInv, TypeOK
<1>3. Idling(d)' /\ \A s \in Slots : ~ Settled(d, s)'
  BY <1>2 DEF Idling, Settled
<1>4. Idling(d) /\ Fresh(d) /\ Locked(d)
  BY DEF Own
<1>5. ASSUME NEW s \in Linked(d)
      PROVE  custody[file[d][s].char] = Holder(d, s) \/ HandedBack(d, s)
  <2>1. s \in Slots
    BY DEF Linked
  <2>2. CASE plan[d][s] = "import"
    BY <1>4, <2>2 DEF Fresh
  <2>3. CASE plan[d][s] # "import"
    <3>1. plan[d][s] \in {"done", "release"}
      BY <1>1, <1>4, <2>1, <2>3 DEF Idling
    <3>2. plan[d][s] \notin Unsettled
      BY <3>1, TasksAssumption DEF Unsettled, Resolutions, TaskNames
    <3> QED
      BY <1>1, <1>4, <3>2 DEF Locked, Settled
  <2> QED
    BY <2>2, <2>3
<1>6. \A s \in Linked(d) : plan'[d][s] = "release"
  BY <1>2 DEF Linked
<1> QED
  BY <1>1, <1>2, <1>3, <1>5, <1>6, QuietOwn

-----------------------------------------------------------------------------
\* The head of g, which nobody else holds, is attached to slot s of d; the slot
\* holds no other character but after a failed write.
Attaches(d, s, g) ==
  /\ due[d] = NoStamp /\ Registered(g) /\ custody[g] \in {Idle, Holder(d, s)}
  /\ file' = Attached(d, s, g) /\ UNCHANGED <<timeline, exempted>>
  /\ \A h \in Chars \ {g} : custody[h] = Holder(d, s) => d \in Failing
  /\ \A t \in Slots \ {s} : file[d][t].char # g /\ plan[d][t] # g

\* What it does to the slots.
LEMMA AttachedFacts ==
  ASSUME IInv, NEW d \in Dbs, NEW s \in Slots, NEW g \in Chars, Attaches(d, s, g)
  PROVE  /\ \A e \in Dbs \ {d} : file'[e] = file[e]
         /\ \A t \in Slots \ {s} : file'[d][t] = file[d][t]
         /\ file'[d][s].char = g /\ file'[d][s].sheet = HeadSheet(g)
         /\ file'[d][s].stamped = file[d][s].stamped
         /\ HeadSheet(g)' = HeadSheet(g) /\ HeadRevision(g)' = HeadRevision(g)
         /\ Linked(d)' = Linked(d) \cup {s}
<1> DEFINE row == [file[d][s] EXCEPT !.char = g, !.sheet = HeadSheet(g)]
<1>1. file \in [Dbs -> [Slots -> SlotRows]] /\ file[d][s] \in SlotRows
  BY DEF IInv, TypeOK
<1>2. row.char = g /\ row.sheet = HeadSheet(g) /\ row.stamped = file[d][s].stamped
  BY <1>1 DEF SlotRows
<1>3. file' = [file EXCEPT ![d] = [file[d] EXCEPT ![s] = row]]
  BY <1>1 DEF Attaches, Attached
<1> HIDE DEF row
<1>4. /\ file'[d][s] = row /\ \A t \in Slots \ {s} : file'[d][t] = file[d][t]
      /\ \A e \in Dbs \ {d} : file'[e] = file[e]
  BY <1>1, <1>3
<1>5. HeadSheet(g)' = HeadSheet(g) /\ HeadRevision(g)' = HeadRevision(g)
  BY DEF Attaches, HeadSheet, HeadRevision
<1>6. Linked(d)' = Linked(d) \cup {s}
  BY <1>2, <1>4, NoneAssumption DEF Linked
<1> QED
  BY <1>2, <1>4, <1>5, <1>6

\* It is in no other slot, and what the slots hold is kept.
LEMMA AttachedKept ==
  ASSUME IInv, NEW d \in Dbs, NEW s \in Slots, NEW g \in Chars, Own(d),
         Attaches(d, s, g)
  PROVE  /\ Alone(d)'
         /\ \A h \in Chars, t \in Slots : custody[h] = Holder(d, t) =>
              Registered(h)' /\ (Orphan(d, t, h)' \/ Kept(d, t, h)')
         /\ Registered(g)' /\ Kept(d, s, g)'
<1>1. /\ \A t \in Slots \ {s} : file'[d][t] = file[d][t]
      /\ file'[d][s].char = g /\ file'[d][s].sheet = HeadSheet(g)
      /\ HeadSheet(g)' = HeadSheet(g)
      /\ Linked(d)' = Linked(d) \cup {s}
  BY AttachedFacts
<1>2. Alone(d)'
  <2> SUFFICES ASSUME NEW t \in Linked(d) \cup {s}, NEW u \in Linked(d) \cup {s},
                      file'[d][t].char = file'[d][u].char
               PROVE  t = u
    BY <1>1 DEF Alone
  <2>1. t \in Slots /\ u \in Slots
    BY DEF Linked
  <2>2. CASE t # s /\ u # s
    BY <1>1, <2>1, <2>2 DEF Own, Alone
  <2>3. CASE t = s \/ u = s
    BY <1>1, <2>1, <2>3 DEF Attaches
  <2> QED
    BY <2>2, <2>3
<1>3. Registered(g)' /\ Kept(d, s, g)'
  BY <1>1 DEF Attaches, Registered, Kept
<1>4. ASSUME NEW h \in Chars, NEW t \in Slots, custody[h] = Holder(d, t)
      PROVE  Registered(h)' /\ (Orphan(d, t, h)' \/ Kept(d, t, h)')
  <2>1. /\ Registered(h)' /\ timeline' = timeline
        /\ Orphan(d, t, h) \/ Kept(d, t, h)
    BY <1>4 DEF Own, KeptAll, Attaches, Registered
  <2>2. CASE t # s
    <3>1. file'[d][t] = file[d][t]
      BY <1>1, <2>2
    <3> QED
      BY <2>1, <3>1 DEF Orphan, Kept, HeadSheet, HeadRevision, Synced
  <2>3. CASE t = s /\ h = g
    BY <1>3, <2>3
  <2>4. CASE t = s /\ h # g
    BY <1>1, <1>4, <2>1, <2>4 DEF Attaches, Orphan
  <2> QED
    BY <2>2, <2>3, <2>4
<1> QED
  BY <1>2, <1>3, <1>4

\* The attach whose process ends before its registry unit commits.
LEMMA TornOwn ==
  ASSUME IInv, NEW d \in Dbs, NEW s \in Slots, NEW g \in Chars, Own(d),
         Attaches(d, s, g), Ended(d), UNCHANGED custody
  PROVE  Acts(d) /\ Own(d)'
<1>1. \A e \in Dbs \ {d} : pc'[e] = pc[e] /\ plan'[e] = plan[e] /\ due'[e] = due[e]
  BY DEF Ended, Goto, IInv, TypeOK
<1>2. Acts(d)
  BY <1>1, AttachedFacts, QuietActs DEF Attaches
<1>3. /\ Alone(d)'
      /\ \A h \in Chars, t \in Slots : custody'[h] = Holder(d, t) =>
           Registered(h)' /\ (Orphan(d, t, h)' \/ Kept(d, t, h)')
  BY AttachedKept
<1> QED
  BY <1>2, <1>3, ClosedOwn

\* The attach of a process that goes on: with the lock, in an activation or at a
\* set-up, or at a set-up where the registry's write failed.
LEMMA AttachOwn ==
  ASSUME IInv, NEW d \in Dbs, NEW s \in Slots, NEW g \in Chars, Own(d),
         Attaches(d, s, g), UNCHANGED pc,
         \A e \in Dbs \ {d} : plan'[e] = plan[e] /\ due'[e] = due[e],
         \A t \in Slots \ {s} : plan'[d][t] = plan[d][t],
         \A h \in Chars \ {g} : custody'[h] = custody[h],
         \/ pc[d] = "applying" /\ plan'[d][s] = "caught"
         \/ plan[d][s] = "import" /\ plan'[d][s] = "import",
         \/ custody'[g] = Holder(d, s) /\ due'[d] = HeadStamp(s, g)
         \/ custody'[g] = custody[g] /\ due'[d] = NoStamp /\ d \in Failing
  PROVE  Acts(d) /\ Own(d)'
<1>1. /\ \A e \in Dbs \ {d} : file'[e] = file[e]
      /\ \A t \in Slots \ {s} : file'[d][t] = file[d][t]
      /\ file'[d][s].char = g /\ file'[d][s].sheet = HeadSheet(g)
      /\ file'[d][s].stamped = file[d][s].stamped
      /\ HeadSheet(g)' = HeadSheet(g) /\ HeadRevision(g)' = HeadRevision(g)
      /\ Linked(d)' = Linked(d) \cup {s}
  BY AttachedFacts
<1>2. /\ due[d] = NoStamp /\ custody[g] \in {Idle, Holder(d, s)} /\ UNCHANGED timeline
      /\ \A t \in Slots \ {s} : file[d][t].char # g /\ plan[d][t] # g
  BY DEF Attaches
<1>3. Acts(d)
  <2>1. Grows
    BY SameGrows DEF Attaches, IInv
  <2> QED
    BY <1>1, <1>2, <2>1 DEF Acts
<1>4. /\ KeptAll(d) /\ Alone(d) /\ Reserved(d) /\ Idling(d) /\ Fresh(d)
      /\ Locked(d) /\ Returned(d)
  BY DEF Own
<1>5. pc[d] \in {"applying", "setup", "adding"} /\ (pc[d] = "applying" => plan'[d][s] = "caught")
  BY <1>4 DEF Idling
<1>6. /\ \A t \in Slots \ {s} : Settled(d, t)' => Settled(d, t)
      /\ ~ Settled(d, s)'
  BY <1>5 DEF Settled, Unsettled
<1>7. KeptAll(d)'
  <2> SUFFICES ASSUME NEW h \in Chars, NEW t \in Slots, custody'[h] = Holder(d, t)
               PROVE  /\ Registered(h)'
                      /\ Orphan(d, t, h)' \/ (Kept(d, t, h)' /\ Stamped(d, t, h)')
    BY DEF KeptAll, Holder
  <2>1. CASE h = g
    <3>1. t = s
      BY <1>2, <2>1, HolderFacts
    <3> QED
      BY <1>6, <2>1, <3>1, AttachedKept DEF Stamped
  <2>2. CASE h # g /\ t = s
    <3>1. custody[h] = Holder(d, t)
      BY <2>2
    <3> QED
      BY <1>6, <2>2, <3>1, AttachedKept DEF Stamped
  <2>3. CASE h # g /\ t # s
    <3>1. custody[h] = Holder(d, t)
      BY <2>3
    <3>2. Registered(h)' /\ (Orphan(d, t, h)' \/ Kept(d, t, h)')
      BY <3>1, AttachedKept
    <3>3. ASSUME Kept(d, t, h)', Settled(d, t)'
          PROVE  Synced(file[d][t])' = HeadRevision(h)'
      <4>1. file[d][t].char = h /\ Settled(d, t)
        BY <1>1, <1>6, <2>3, <3>3 DEF Kept
      <4>2. Synced(file[d][t]) = HeadRevision(h)
        BY <1>2, <1>4, <3>1, <4>1, SettledFacts
      <4> QED
        BY <1>1, <1>2, <2>3, <4>2 DEF Synced, HeadRevision
    <3> QED
      BY <3>2, <3>3 DEF Stamped
  <2> QED
    BY <2>1, <2>2, <2>3
<1>8. DueHead(d)'
  <2>1. CASE due'[d] = HeadStamp(s, g)
    BY <1>1, <2>1 DEF DueHead, HeadStamp
  <2>2. CASE due'[d] = NoStamp
    BY <2>2 DEF DueHead
  <2> QED
    BY <2>1, <2>2
<1>9. Owed(d)'
  <2>1. CASE custody'[g] = Holder(d, s) /\ due'[d] = HeadStamp(s, g)
    BY <1>5, <2>1 DEF Owed, HeadStamp, Holder
  <2>2. CASE due'[d] = NoStamp
    BY <2>2 DEF Owed
  <2> QED
    BY <2>1, <2>2
<1>10. Alone(d)'
  BY AttachedKept
<1>11. {"done", "caught", "release", "import"} \cap (Chars \cup Resolutions) = {}
  BY TasksAssumption DEF TaskNames, Resolutions
<1>12. Reserved(d)'
  <2> SUFFICES ASSUME NEW t \in Slots, plan'[d][t] \in Chars
               PROVE  /\ Registered(plan'[d][t])
                      /\ \A u \in Slots : file'[d][u].char # plan'[d][t]
                      /\ \A u \in Slots : plan'[d][u] = plan'[d][t] => t = u
    BY <1>2 DEF Reserved, Registered
  <2>1. t # s /\ plan'[d][t] = plan[d][t] /\ plan'[d][s] \notin Chars
    BY <1>11
  <2> QED
    BY <1>1, <1>2, <1>4, <2>1 DEF Reserved
<1>13. Idling(d)'
  <2>1. pc[d] # "applying" => \A t \in Slots : plan'[d][t] = plan[d][t]
    BY <1>5
  <2>2. \A t \in Slots : plan'[d][t] = "import" => plan[d][t] = "import"
    BY <1>5
  <2>3. pc[d] = "setup" => plan'[d][s] = "import"
    BY <1>5
  <2>4. Linked(d) \subseteq Slots
    BY DEF Linked
  <2> QED
    BY <1>1, <1>4, <2>1, <2>2, <2>3, <2>4 DEF Idling
<1>14. Returned(d)'
  BY <1>5 DEF Returned
<1>15. Fresh(d)'
  <2> SUFFICES ASSUME NEW t \in Linked(d) \cup {s}, plan'[d][t] = "import"
               PROVE  /\ d \in Failing \/ due'[d] # NoStamp
                      /\ \/ custody'[file'[d][t].char] = Holder(d, t)
                         \/ HandedBack(d, t)'
    BY <1>1 DEF Fresh, Holder
  <2>1. t = s
    BY <1>4, <1>5 DEF Idling, Linked
  <2>2. due'[d] # NoStamp \/ d \in Failing
    BY StampFacts
  <2>3. HeadRevision(g) \in Nat /\ 1 <= HeadRevision(g)
    BY HeadFacts DEF Attaches, IInv
  <2>4. timeline'[g][HeadRevision(g)] = file'[d][s].sheet
    BY <1>1, <1>2 DEF HeadSheet
  <2>5. \E i \in 1 .. HeadRevision(g)' : timeline'[g][i] = file'[d][s].sheet
    BY <1>1, <2>3, <2>4
  <2> QED
    BY <1>1, <2>1, <2>2, <2>5 DEF HandedBack, Holder, HeadRevision
<1>16. Locked(d)'
  <2> SUFFICES ASSUME NEW t \in Linked(d) \cup {s}
               PROVE  /\ Settled(d, t)' => custody'[file'[d][t].char] = Holder(d, t)
                      /\ plan'[d][t] \in Resolutions =>
                           custody'[file'[d][t].char] # Holder(d, t)
    BY <1>1, <1>5 DEF Locked, Holder
  <2>1. CASE t = s
    BY <1>6, <1>11, <2>1
  <2>2. CASE t # s
    <3>1. t \in Slots /\ t \in Linked(d)
      BY <2>2 DEF Linked
    <3>2. file'[d][t].char = file[d][t].char /\ plan'[d][t] = plan[d][t]
          /\ file[d][t].char \in Chars \ {g}
      BY <1>1, <1>2, <2>2, <3>1, CharFacts
    <3>3. custody'[file[d][t].char] = custody[file[d][t].char]
      BY <3>2
    <3> QED
      BY <1>4, <1>6, <2>2, <3>1, <3>2, <3>3 DEF Locked
  <2> QED
    BY <2>1, <2>2
<1> QED
  BY <1>3, <1>7, <1>8, <1>9, <1>10, <1>12, <1>13, <1>14, <1>15, <1>16 DEF Own

LEMMA ImportOwn ==
  ASSUME IInv, NEW d \in Dbs, NEW s \in Slots, NEW g \in Chars, Own(d),
         Import(d, s, g)
  PROVE  Acts(d) /\ Own(d)'
<1>1. /\ pc[d] \in {"setup", "adding"} /\ due[d] = NoStamp /\ plan[d][s] = "import"
      /\ Registered(g) /\ custody[g] \in {Idle, Holder(d, s)}
      /\ file' = Attached(d, s, g) /\ UNCHANGED <<timeline, exempted>>
  BY DEF Import, At, MayCheckout, Torn
<1>2. KeptAll(d) /\ Idling(d) /\ Fresh(d) /\ Locked(d)
  BY DEF Own
<1>3. ASSUME NEW h \in Chars, custody[h] = Holder(d, s) PROVE d \in Failing
  BY <1>1, <1>2, <1>3, HeldFacts DEF Fresh
<1>4. \A t \in Slots : plan[d][t] \in {"done", "release", "import"}
      /\ plan[d][t] \notin Chars \cup Resolutions
  BY <1>1, <1>2, TasksAssumption DEF Idling, TaskNames, Resolutions
<1>5. \A t \in Slots \ {s} : file[d][t].char # g
  <2> SUFFICES ASSUME NEW t \in Slots \ {s}, file[d][t].char = g PROVE FALSE
    OBVIOUS
  <2>1. t \in Linked(d)
    BY CharFacts
  <2>2. plan[d][t] \in {"done", "release"}
    BY <1>1, <1>2, <1>4 DEF Idling
  <2>3. pc[d] = "adding"
    BY <1>1, <1>2, <2>1, <2>2 DEF Idling
  <2>4. custody[g] = Holder(d, t)
    BY <1>2, <1>4, <2>1, <2>2, <2>3 DEF Locked, Settled, Unsettled
  <2> QED
    BY <1>1, <2>4, HolderFacts
<1>6. Attaches(d, s, g)
  BY <1>1, <1>3, <1>4, <1>5 DEF Attaches
<1>7. CASE Ended(d) /\ UNCHANGED custody
  BY <1>6, <1>7, TornOwn
<1>8. CASE d \in Failing /\ UNCHANGED <<custody, pc, plan, due>>
  BY <1>1, <1>6, <1>8, AttachOwn
<1>9. CASE Take(d, s, g) /\ UNCHANGED <<pc, plan>>
  <2>1. /\ custody'[g] = Holder(d, s) /\ \A h \in Chars \ {g} : custody'[h] = custody[h]
        /\ due'[d] = HeadStamp(s, g) /\ \A e \in Dbs \ {d} : due'[e] = due[e]
    BY <1>9 DEF Take, HeadStamp, IInv, TypeOK
  <2> QED
    BY <1>1, <1>6, <1>9, <2>1, AttachOwn
<1> QED
  BY <1>7, <1>8, <1>9 DEF Import, Torn

\* The attach of a resolution.
LEMMA AdoptOwn ==
  ASSUME IInv, NEW d \in Dbs, NEW s \in Slots, NEW g \in Chars, Own(d),
         pc[d] = "applying", plan[d][s] # "import", Adopt(d, s, g), Registered(g),
         custody[g] \in {Idle, Holder(d, s)},
         due[d] = NoStamp, UNCHANGED <<timeline, exempted>>,
         \A h \in Chars : custody[h] = Holder(d, s) => d \in Failing,
         \A t \in Slots \ {s} : file[d][t].char # g /\ plan[d][t] # g
  PROVE  Acts(d) /\ Own(d)'
<1>1. Attaches(d, s, g)
  BY DEF Attaches, Adopt, Torn
<1>2. CASE Torn(d, s, g)
  BY <1>1, <1>2, TornOwn DEF Torn
<1>3. CASE Take(d, s, g) /\ Did(d, s, "caught") /\ UNCHANGED pc
  <2>1. /\ \A e \in Dbs \ {d} : plan'[e] = plan[e]
        /\ \A t \in Slots \ {s} : plan'[d][t] = plan[d][t]
        /\ plan'[d][s] = "caught"
    BY <1>3 DEF Did, IInv, TypeOK
  <2>2. /\ custody'[g] = Holder(d, s) /\ \A h \in Chars \ {g} : custody'[h] = custody[h]
        /\ due'[d] = HeadStamp(s, g) /\ \A e \in Dbs \ {d} : due'[e] = due[e]
    BY <1>3 DEF Take, HeadStamp, IInv, TypeOK
  <2> QED
    BY <1>1, <1>3, <2>1, <2>2, AttachOwn
<1> QED
  BY <1>2, <1>3 DEF Adopt

\* A slot with a resolution to apply does not hold its character, and none at all
\* but after a failed write.
LEMMA ResolvingHolds ==
  ASSUME IInv, NEW d \in Dbs, Own(d), NEW s \in Slots, plan[d][s] \in Resolutions
  PROVE  /\ s \in Linked(d) /\ file[d][s].char \in Chars /\ Registered(file[d][s].char)
         /\ plan[d][s] # "import"
         /\ \A h \in Chars : custody[h] = Holder(d, s) => d \in Failing
<1>1. plan[d][s] \notin {"done", "import"}
  BY TasksAssumption DEF Resolutions, TaskNames
<1>2. s \in Linked(d) /\ file[d][s].char \in Chars /\ Registered(file[d][s].char)
  BY <1>1, LinkedFacts, CharFacts
<1>3. custody[file[d][s].char] # Holder(d, s)
  BY <1>2 DEF Own, Locked
<1>4. \A h \in Chars : custody[h] = Holder(d, s) => d \in Failing
  BY <1>3, HeldFacts DEF Own
<1> QED
  BY <1>1, <1>2, <1>4

LEMMA CatchUpOwn ==
  ASSUME IInv, NEW d \in Dbs, NEW s \in Slots, Own(d), CatchUp(d, s)
  PROVE  Acts(d) /\ Own(d)'
<1> DEFINE g == file[d][s].char
<1>1. /\ pc[d] = "applying" /\ due[d] = NoStamp /\ plan[d][s] = "catchup"
      /\ UNCHANGED <<timeline, exempted>>
  BY DEF CatchUp, Resolving, At
<1>2. /\ s \in Linked(d) /\ g \in Chars /\ Registered(g)
      /\ \A h \in Chars : custody[h] = Holder(d, s) => d \in Failing
  BY <1>1, ResolvingHolds DEF Resolutions
<1>3. CASE Ended(d) /\ UNCHANGED <<custody, file>>
  BY <1>1, <1>3, EndedOwn
<1>4. CASE custody[g] \in {Idle, Holder(d, s)} /\ Adopt(d, s, g)
  <2>1. \A t \in Slots \ {s} : file[d][t].char # g /\ plan[d][t] # g
    <3>1. Alone(d) /\ Reserved(d)
      BY DEF Own
    <3> QED
      BY <1>2, <3>1, CharFacts DEF Alone, Reserved
  <2> QED
    BY <1>1, <1>2, <1>4, <2>1, AdoptOwn
<1> QED
  BY <1>3, <1>4 DEF CatchUp

LEMMA AttachForkOwn ==
  ASSUME IInv, NEW d \in Dbs, NEW s \in Slots, Own(d), AttachFork(d, s)
  PROVE  Acts(d) /\ Own(d)'
<1> DEFINE new == plan[d][s]
<1>1. /\ pc[d] = "applying" /\ due[d] = NoStamp /\ new \in Chars
      /\ UNCHANGED <<timeline, exempted>>
  BY DEF AttachFork, Resolving, At
<1>2. new # "import" /\ \A h \in Chars : custody[h] = Holder(d, s) => d \in Failing
  BY <1>1, ResolvingHolds DEF Resolutions
<1>3. CASE Ended(d) /\ UNCHANGED <<custody, file>>
  BY <1>1, <1>3, EndedOwn
<1>4. CASE MayCheckout(d, s, new) /\ Adopt(d, s, new)
  <2>1. custody[new] \in {Idle, Holder(d, s)} /\ Registered(new)
    BY <1>4 DEF MayCheckout
  <2>2. \A t \in Slots \ {s} : file[d][t].char # new /\ plan[d][t] # new
    BY <1>1 DEF Own, Reserved
  <2> QED
    BY <1>1, <1>2, <1>4, <2>1, <2>2, AdoptOwn
<1> QED
  BY <1>3, <1>4 DEF AttachFork

\* A character that is founded is in no slot.
LEMMA FoundedFacts ==
  ASSUME IInv, NEW new \in Chars, ~ Registered(new), NEW sheet \in Sheets,
         timeline' = [timeline EXCEPT ![new] = <<sheet>>], UNCHANGED exempted
  PROVE  /\ Grows /\ timeline'[new] # <<>>
         /\ \A g \in Chars \ {new} : timeline'[g] = timeline[g]
         /\ \A g \in Chars : Registered(g) => g # new /\ timeline'[g] # <<>>
         /\ \A d \in Dbs, s \in Slots : file[d][s].char # new
<1>1. Grows
  BY Founded DEF IInv
<1>2. timeline'[new] = <<sheet>> /\ \A g \in Chars \ {new} : timeline'[g] = timeline[g]
  BY DEF IInv, TypeOK
<1>3. \A d \in Dbs, s \in Slots : file[d][s].char # new
  BY CharFacts
<1>4. <<sheet>> # <<>>
  OBVIOUS
<1> QED
  BY <1>1, <1>2, <1>3, <1>4 DEF Registered

LEMMA ForkConflictedOwn ==
  ASSUME IInv, NEW d \in Dbs, NEW s \in Slots, NEW new \in Chars, Own(d),
         ForkConflicted(d, s, new)
  PROVE  Acts(d) /\ Own(d)'
<1>1. /\ pc[d] = "applying" /\ due[d] = NoStamp /\ plan[d][s] = "fork"
      /\ ~ Registered(new) /\ UNCHANGED <<custody, file, pc, due, exempted>>
      /\ timeline' = [timeline EXCEPT ![new] = <<file[d][s].sheet>>]
  BY DEF ForkConflicted, Resolving, At
<1>2. /\ plan'[d][s] = new /\ \A t \in Slots \ {s} : plan'[d][t] = plan[d][t]
      /\ \A e \in Dbs \ {d} : plan'[e] = plan[e]
  BY DEF ForkConflicted, Did, IInv, TypeOK
<1>3. file[d][s].sheet \in Sheets
  BY CharFacts DEF SlotRows
<1>4. /\ Grows /\ timeline'[new] # <<>>
      /\ \A g \in Chars \ {new} : timeline'[g] = timeline[g]
      /\ \A g \in Chars : Registered(g) => g # new /\ timeline'[g] # <<>>
      /\ \A e \in Dbs, t \in Slots : file[e][t].char # new
  BY <1>1, <1>3, FoundedFacts
<1>5. Acts(d)
  BY <1>1, <1>2, <1>4 DEF Acts
<1>6. KeptAll(d) /\ Alone(d) /\ Reserved(d) /\ Idling(d) /\ Fresh(d) /\ Locked(d)
  BY DEF Own
<1>7. \A t \in Slots : Settled(d, t)' => Settled(d, t)
  BY <1>1, <1>2 DEF Settled, Unsettled, Resolutions
<1>8. \A g \in Chars, t \in Slots : custody[g] = Holder(d, t) => timeline'[g] = timeline[g]
  BY <1>4, <1>6, HeldFacts
<1>9. KeptAll(d)'
  BY <1>1, <1>6, <1>7, <1>8, SettledFacts, KeptStays
<1>10. DueHead(d)' /\ Owed(d)' /\ Alone(d)' /\ Returned(d)'
  BY <1>1, <1>6 DEF DueHead, Owed, Alone, Linked, Returned
<1>11. Idling(d)' /\ Fresh(d)'
  <2>1. new # "import"
    BY TasksAssumption DEF TaskNames
  <2>2. \A t \in Slots : plan'[d][t] # "import"
    BY <1>1, <1>2, <1>6, <2>1 DEF Idling
  <2> QED
    BY <1>1, <1>6, <2>2 DEF Idling, Fresh, Linked
<1>12. Reserved(d)'
  <2> SUFFICES ASSUME NEW t \in Slots, plan'[d][t] \in Chars
               PROVE  /\ timeline'[plan'[d][t]] # <<>>
                      /\ \A u \in Slots : file'[d][u].char # plan'[d][t]
                      /\ \A u \in Slots : plan'[d][u] = plan'[d][t] => t = u
    BY DEF Reserved, Registered
  <2>1. \A u \in Slots \ {s} : plan[d][u] \in Chars =>
          plan[d][u] # new /\ timeline'[plan[d][u]] # <<>>
    BY <1>4, <1>6 DEF Reserved
  <2>2. CASE t = s
    BY <1>1, <1>2, <1>4, <2>1, <2>2
  <2>3. CASE t # s
    BY <1>1, <1>2, <1>6, <2>1, <2>3 DEF Reserved
  <2> QED
    BY <2>2, <2>3
<1>13. Locked(d)'
  <2>1. s \in Linked(d) => custody[file[d][s].char] # Holder(d, s)
    BY <1>1, <1>6 DEF Locked, Resolutions
  <2>2. ~ Settled(d, s)'
    BY <1>1, <1>2 DEF Settled, Unsettled, Resolutions
  <2> SUFFICES ASSUME NEW t \in Linked(d)
               PROVE  /\ Settled(d, t)' => custody[file[d][t].char] = Holder(d, t)
                      /\ plan'[d][t] \in Resolutions =>
                           custody[file[d][t].char] # Holder(d, t)
    BY <1>1 DEF Locked, Linked, Holder
  <2>3. t \in Slots
    BY DEF Linked
  <2> QED
    BY <1>1, <1>2, <1>6, <1>7, <2>1, <2>2, <2>3 DEF Locked
<1> QED
  BY <1>5, <1>9, <1>10, <1>12, <1>13, <1>11 DEF Own

-----------------------------------------------------------------------------
\* The lock that the resumption of a slot takes, or finds taken.
LEMMA AcquireOwn ==
  ASSUME IInv, NEW d \in Dbs, NEW s \in Slots, Own(d), Acquire(d, s)
  PROVE  Acts(d) /\ Own(d)'
<1> DEFINE f == file[d][s]
           c == file[d][s].char
<1>1. /\ pc[d] = "applying" /\ due[d] = NoStamp /\ plan[d][s] \notin {"done", "import"}
      /\ UNCHANGED <<timeline, file>>
  BY DEF Acquire, At, IsNext
<1>2. c \in Chars /\ s \in Linked(d) /\ Registered(c) /\ HeadRevision(c) \in Nat
      /\ Synced(f) \in Nat /\ Synced(f) <= HeadRevision(c)
  BY <1>1, LinkedFacts, CharFacts
<1>3. KeptAll(d) /\ Alone(d) /\ Reserved(d) /\ Idling(d) /\ Fresh(d) /\ Locked(d)
  BY DEF Own
<1>4. CASE Ended(d) /\ UNCHANGED <<custody, exempted>>
  BY <1>1, <1>4, EndedOwn
<1>5. ASSUME UNCHANGED pc, NEW task \in {"taken", "done"}, Did(d, s, task),
             exempted \subseteq exempted',
             custody'[c] = Holder(d, s), custody[c] \in {Idle, Holder(d, s)},
             \A h \in Chars \ {c} : custody'[h] = custody[h],
             \A e \in Dbs \ {d} : due'[e] = due[e],
             Kept(d, s, c),
             \/ due'[d] = HeadStamp(s, c)
             \/ due'[d] = NoStamp /\ Synced(f) = HeadRevision(c)
      PROVE  Acts(d) /\ Own(d)'
  <2>1. /\ plan'[d][s] = task /\ \A t \in Slots \ {s} : plan'[d][t] = plan[d][t]
        /\ \A e \in Dbs \ {d} : plan'[e] = plan[e]
    BY <1>5 DEF Did, IInv, TypeOK
  <2>2. Acts(d)
    <3>1. Grows
      BY <1>1, <1>5, SameGrows DEF IInv
    <3>2. \A g \in Chars :
            \/ custody'[g] = custody[g]
            \/ custody[g] = Idle /\ custody'[g] = Holder(d, s)
      BY <1>5
    <3> QED
      BY <1>1, <1>5, <2>1, <3>1, <3>2 DEF Acts
  <2>3. \A t \in Slots \ {s} : Settled(d, t)' <=> Settled(d, t)
    BY <1>5, <2>1 DEF Settled
  <2>4. {"taken", "done"} \cap (Chars \cup Resolutions) = {}
    BY TasksAssumption DEF TaskNames, Resolutions
  <2>5. \A t \in Linked(d) \ {s} : t \in Slots /\ file[d][t].char \in Chars \ {c}
    BY <1>2, <1>3, CharFacts DEF Alone, Linked
  <2>6. KeptAll(d)'
    <3> SUFFICES ASSUME NEW h \in Chars, NEW t \in Slots, custody'[h] = Holder(d, t)
                 PROVE  /\ Registered(h)'
                        /\ Orphan(d, t, h)' \/ (Kept(d, t, h)' /\ Stamped(d, t, h)')
      BY DEF KeptAll, Holder
    <3>1. /\ \A g \in Chars : HeadRevision(g)' = HeadRevision(g) /\ HeadSheet(g)' = HeadSheet(g)
          /\ HeadStamp(t, h)' = HeadStamp(t, h) /\ Synced(file[d][t])' = Synced(file[d][t])
      BY <1>1 DEF HeadRevision, HeadSheet, HeadStamp, Synced
    <3>2. CASE h = c
      <4>1. t = s
        BY <1>5, <3>2, HolderFacts
      <4> QED
        BY <1>1, <1>2, <1>5, <3>1, <3>2, <4>1 DEF Kept, Stamped, Registered
    <3>3. CASE h # c
      <4>1. custody[h] = Holder(d, t)
        BY <1>5, <3>3
      <4>2. Registered(h)' /\ (Orphan(d, t, h) \/ (Kept(d, t, h) /\ Stamped(d, t, h)))
        BY <1>1, <1>3, <4>1 DEF KeptAll, Registered
      <4>3. CASE Orphan(d, t, h)
        BY <1>1, <4>2, <4>3 DEF Orphan
      <4>4. CASE Kept(d, t, h) /\ Stamped(d, t, h)
        <5>1. t # s /\ file[d][t].char = h
          BY <3>3, <4>4 DEF Kept
        <5>2. Settled(d, t)' => Synced(file[d][t]) = HeadRevision(h)
          BY <1>1, <1>3, <2>3, <4>1, <5>1, SettledFacts
        <5> QED
          BY <1>1, <3>1, <4>2, <4>4, <5>2 DEF Kept, Stamped
      <4> QED
        BY <4>2, <4>3, <4>4
    <3> QED
      BY <3>2, <3>3
  <2>7. DueHead(d)'
    <3>1. CASE due'[d] = HeadStamp(s, c)
      BY <1>1, <3>1 DEF DueHead, HeadStamp, HeadRevision
    <3>2. CASE due'[d] = NoStamp
      BY <3>2 DEF DueHead
    <3> QED
      BY <1>5, <3>1, <3>2
  <2>8. Alone(d)' /\ Returned(d)'
    BY <1>1, <1>3, <1>5 DEF Alone, Linked, Returned
  <2>9. Owed(d)'
    <3>1. CASE due'[d] = HeadStamp(s, c)
      BY <1>1, <1>5, <3>1 DEF Owed, HeadStamp, Holder
    <3>2. CASE due'[d] = NoStamp
      BY <3>2 DEF Owed
    <3> QED
      BY <1>5, <3>1, <3>2
  <2>10. Idling(d)' /\ Fresh(d)'
    <3>1. \A t \in Slots : plan'[d][t] # "import"
      BY <1>1, <1>3, <2>1 DEF Idling
    <3> QED
      BY <1>1, <1>3, <1>5, <3>1 DEF Idling, Fresh, Linked
  <2>11. Reserved(d)'
    <3> SUFFICES ASSUME NEW t \in Slots, plan'[d][t] \in Chars
                 PROVE  /\ Registered(plan'[d][t])
                        /\ \A u \in Slots : file[d][u].char # plan'[d][t]
                        /\ \A u \in Slots : plan'[d][u] = plan'[d][t] => t = u
      BY <1>1 DEF Reserved, Registered
    <3>1. t # s /\ plan'[d][t] = plan[d][t] /\ plan'[d][s] \notin Chars
      BY <2>1, <2>4
    <3> QED
      BY <1>3, <2>1, <3>1 DEF Reserved
  <2>12. Locked(d)'
    <3> SUFFICES ASSUME NEW t \in Linked(d)
                 PROVE  /\ Settled(d, t)' => custody'[file[d][t].char] = Holder(d, t)
                        /\ plan'[d][t] \in Resolutions =>
                             custody'[file[d][t].char] # Holder(d, t)
      BY <1>1, <1>5 DEF Locked, Linked, Holder
    <3>1. CASE t = s
      BY <1>5, <2>1, <2>4, <3>1
    <3>2. CASE t # s
      <4>1. t \in Slots /\ file[d][t].char \in Chars \ {c}
        BY <2>5, <3>2
      <4> QED
        BY <1>1, <1>3, <1>5, <2>1, <2>3, <3>2, <4>1 DEF Locked
    <3> QED
      BY <3>1, <3>2
  <2> QED
    BY <2>2, <2>6, <2>7, <2>8, <2>11, <2>12, <2>9, <2>10 DEF Own
<1>6. CASE /\ Classification(d, s) = "resumable" /\ UNCHANGED pc
           /\ Take(d, s, c) /\ Did(d, s, "taken") /\ UNCHANGED exempted
  <2>1. /\ custody'[c] = Holder(d, s) /\ \A h \in Chars \ {c} : custody'[h] = custody[h]
        /\ due'[d] = HeadStamp(s, c) /\ \A e \in Dbs \ {d} : due'[e] = due[e]
    BY <1>2, <1>6 DEF Take, HeadStamp, IInv, TypeOK
  <2>2. custody[c] = Idle /\ Kept(d, s, c)
    BY <1>2, <1>6, HeldClass, ClassFacts DEF Kept
  <2> QED
    BY <1>5, <1>6, <2>1, <2>2
<1>7. CASE /\ Classification(d, s) = "already-held" /\ UNCHANGED <<pc, custody>>
           /\ due' = IF Synced(f) < HeadRevision(c)
                     THEN [due EXCEPT ![d] = [slot |-> s, char |-> c,
                                              rev |-> HeadRevision(c)]]
                     ELSE due
           /\ Did(d, s, IF plan[d][s] = "caught" THEN "taken" ELSE "done")
           /\ TakenForCurrent(f)
  <2>1. custody[c] = Holder(d, s) /\ Kept(d, s, c)
    BY <1>2, <1>3, <1>7, HeldClass, HeldFacts
  <2>2. /\ \A e \in Dbs \ {d} : due'[e] = due[e]
        /\ \/ due'[d] = HeadStamp(s, c)
           \/ due'[d] = NoStamp /\ Synced(f) = HeadRevision(c)
    <3>1. CASE Synced(f) < HeadRevision(c)
      BY <1>7, <3>1 DEF HeadStamp, IInv, TypeOK
    <3>2. CASE ~ (Synced(f) < HeadRevision(c))
      <4>1. Synced(f) = HeadRevision(c)
        BY <1>2, <3>2
      <4> QED
        BY <1>1, <1>7, <3>2, <4>1
    <3> QED
      BY <3>1, <3>2
  <2>3. exempted \subseteq exempted'
    BY <1>7 DEF TakenForCurrent
  <2>4. (IF plan[d][s] = "caught" THEN "taken" ELSE "done") \in {"taken", "done"}
    OBVIOUS
  <2> QED
    BY <1>5, <1>7, <2>1, <2>2, <2>3, <2>4
<1> QED
  BY <1>4, <1>6, <1>7 DEF Acquire, Acquired

LEMMA EditOwn ==
  ASSUME IInv, NEW d \in Dbs, NEW s \in Slots, Own(d), Edit(d, s)
  PROVE  Acts(d) /\ Own(d)'
<1> DEFINE row == [file[d][s] EXCEPT !.sheet = @ \cup {edits + 1}]
<1>1. /\ pc[d] = "playing" /\ due[d] = NoStamp /\ s \in Linked(d)
      /\ UNCHANGED <<timeline, custody, pc, plan, due, exempted>>
  BY DEF Edit, At
<1>2. file \in [Dbs -> [Slots -> SlotRows]] /\ file[d][s] \in SlotRows
  BY DEF IInv, TypeOK
<1>3. /\ row.char = file[d][s].char /\ file[d][s].sheet \subseteq row.sheet
      /\ row.stamped = file[d][s].stamped /\ row.synced = file[d][s].synced
  BY <1>2 DEF SlotRows
<1>4. file' = [file EXCEPT ![d] = [file[d] EXCEPT ![s] = row]]
  BY <1>2 DEF Edit
<1> HIDE DEF row
<1>5. /\ file'[d][s] = row /\ \A t \in Slots \ {s} : file'[d][t] = file[d][t]
      /\ \A e \in Dbs \ {d} : file'[e] = file[e]
  BY <1>2, <1>4
<1>6. Acts(d)
  BY <1>1, <1>5, QuietActs
<1>7. KeptAll(d) /\ Alone(d) /\ Reserved(d) /\ Idling(d) /\ Fresh(d) /\ Locked(d)
  BY DEF Own
<1>8. \A t \in Slots : /\ file'[d][t].char = file[d][t].char
                       /\ file[d][t].sheet \subseteq file'[d][t].sheet
                       /\ file'[d][t].stamped = file[d][t].stamped
                       /\ Synced(file[d][t])' = Synced(file[d][t])
  BY <1>3, <1>5 DEF Synced
<1>9. Linked(d)' = Linked(d) /\ \A t \in Slots : Settled(d, t)
  BY <1>1, <1>8 DEF Linked, Settled
<1>10. KeptAll(d)'
  <2> SUFFICES ASSUME NEW g \in Chars, NEW t \in Slots, custody[g] = Holder(d, t)
               PROVE  /\ Registered(g)'
                      /\ Orphan(d, t, g)' \/ (Kept(d, t, g)' /\ Stamped(d, t, g)')
    BY <1>1 DEF KeptAll, Holder
  <2>1. Registered(g)' /\ (Orphan(d, t, g) \/ Kept(d, t, g))
    BY <1>1, <1>7 DEF KeptAll, Registered
  <2>2. HeadRevision(g)' = HeadRevision(g) /\ HeadSheet(g)' = HeadSheet(g)
    BY <1>1 DEF HeadRevision, HeadSheet
  <2>3. CASE Orphan(d, t, g)
    BY <1>8, <2>1, <2>3 DEF Orphan
  <2>4. CASE Kept(d, t, g)
    <3>1. Synced(file[d][t]) = HeadRevision(g)
      BY <1>1, <1>7, <1>9, <2>4, SettledFacts DEF Kept
    <3> QED
      BY <1>8, <2>1, <2>2, <2>4, <3>1 DEF Kept, Stamped
  <2> QED
    BY <2>1, <2>3, <2>4
<1>11. DueHead(d)' /\ Owed(d)' /\ Alone(d)' /\ Returned(d)'
  BY <1>1, <1>7, <1>8, <1>9 DEF DueHead, Owed, Alone, Returned, Linked
<1>12. Idling(d)' /\ Fresh(d)'
  <2>1. \A t \in Slots : plan[d][t] # "import"
    BY <1>1, <1>7 DEF Idling
  <2>2. Fresh(d)'
    BY <1>1, <2>1 DEF Fresh, Linked
  <2> QED
    BY <1>1, <1>7, <1>9, <2>2 DEF Idling
<1>13. Reserved(d)'
  BY <1>1, <1>7, <1>8 DEF Reserved, Registered
<1>14. Locked(d)'
  <2> SUFFICES ASSUME NEW t \in Linked(d)
               PROVE  /\ custody[file'[d][t].char] = Holder(d, t)
                      /\ plan[d][t] \notin Resolutions
    BY <1>1, <1>9 DEF Locked, Holder
  <2>1. t \in Slots /\ custody[file[d][t].char] = Holder(d, t)
    BY <1>1, <1>7, <1>9 DEF Locked, Linked
  <2> QED
    BY <1>1, <1>7, <1>8, <2>1 DEF Locked
<1> QED
  BY <1>6, <1>10, <1>11, <1>13, <1>14, <1>12 DEF Own

\* A stamp is written; with it a set-up is over, and its slot is settled.
LEMMA StampOwn ==
  ASSUME IInv, IInv', NEW d \in Dbs, Own(d), Stamp(d)
  PROVE  Acts(d) /\ Own(d)'
<1> DEFINE s == due[d].slot
           c == due[d].char
           row == [file[d][s] EXCEPT !.stamped = c, !.synced = due[d].rev]
<1>1. /\ s \in Slots /\ c \in Chars /\ file[d][s].char = c /\ due[d] # NoStamp
      /\ UNCHANGED <<timeline, custody, exempted>>
      /\ due'[d] = NoStamp /\ \A e \in Dbs \ {d} : due'[e] = due[e]
  BY DEF Stamp, IInv, TypeOK, Dues, Due
<1>2. file \in [Dbs -> [Slots -> SlotRows]] /\ file[d][s] \in SlotRows
  BY <1>1 DEF IInv, TypeOK
<1>3. /\ row.char = c /\ row.sheet = file[d][s].sheet
      /\ row.stamped = c /\ row.synced = due[d].rev
  BY <1>1, <1>2 DEF SlotRows
<1>4. file' = [file EXCEPT ![d] = [file[d] EXCEPT ![s] = row]]
  BY <1>2 DEF Stamp
<1> HIDE DEF row
<1>5. /\ file'[d][s] = row /\ \A t \in Slots \ {s} : file'[d][t] = file[d][t]
      /\ \A e \in Dbs \ {d} : file'[e] = file[e]
  BY <1>1, <1>2, <1>4
<1>6. /\ \A e \in Dbs \ {d} : pc'[e] = pc[e] /\ plan'[e] = plan[e]
      /\ \/ pc[d] \notin {"setup", "adding"} /\ UNCHANGED <<pc, plan>>
         \/ /\ pc[d] = "setup" /\ pc'[d] = "resume"
            /\ \A t \in Slots : plan'[d][t] = "done"
         \/ /\ pc[d] = "adding" /\ pc'[d] = "playing"
            /\ \A t \in Slots : plan'[d][t] = "done"
  <2>1. CASE pc[d] \in {"setup", "adding"}
    BY <2>1 DEF Stamp, Goto, NoPlan, IInv, TypeOK
  <2>2. CASE pc[d] \notin {"setup", "adding"}
    BY <2>2 DEF Stamp
  <2> QED
    BY <2>1, <2>2
<1>7. Acts(d)
  BY <1>1, <1>5, <1>6, QuietActs
<1>8. /\ KeptAll(d) /\ DueHead(d) /\ Owed(d) /\ Alone(d) /\ Reserved(d)
      /\ Idling(d) /\ Fresh(d) /\ Locked(d) /\ Returned(d)
  BY DEF Own
<1>9. \A t \in Slots : /\ file'[d][t].char = file[d][t].char
                       /\ file'[d][t].sheet = file[d][t].sheet
  BY <1>1, <1>3, <1>5
<1>10. Linked(d)' = Linked(d) /\ Linked(d) \subseteq Slots
  BY <1>9 DEF Linked
<1>11. {"done", "release", "import"} \cap (Chars \cup Resolutions) = {}
  BY TasksAssumption DEF TaskNames, Resolutions
<1>12. \A t \in Slots \ {s} : Settled(d, t)' => Settled(d, t)
  <2> SUFFICES ASSUME NEW t \in Slots \ {s}, Settled(d, t)' PROVE Settled(d, t)
    OBVIOUS
  <2>1. CASE UNCHANGED <<pc, plan>>
    BY <2>1 DEF Settled
  <2>2. CASE pc[d] = "adding" /\ pc'[d] = "playing"
    <3>1. plan[d][s] = "import"
      BY <1>1, <1>8, <2>2 DEF Owed
    <3>2. plan[d][t] \in {"done", "release"}
      BY <1>1, <1>8, <2>2, <3>1 DEF Idling
    <3>3. plan[d][t] \notin Unsettled
      BY <1>11, <3>2 DEF Unsettled
    <3> QED
      BY <2>2, <3>3 DEF Settled
  <2>3. CASE pc'[d] = "resume"
    BY <2>3 DEF Settled
  <2> QED
    BY <1>6, <2>1, <2>2, <2>3
<1>13. KeptAll(d)'
  <2> SUFFICES ASSUME NEW g \in Chars, NEW t \in Slots, custody[g] = Holder(d, t)
               PROVE  /\ Registered(g)'
                      /\ Orphan(d, t, g)' \/ (Kept(d, t, g)' /\ Stamped(d, t, g)')
    BY <1>1 DEF KeptAll, Holder
  <2>1. /\ Registered(g)'
        /\ Orphan(d, t, g) \/ (Kept(d, t, g) /\ Stamped(d, t, g))
    BY <1>1, <1>8 DEF KeptAll, Registered
  <2>2. HeadRevision(g)' = HeadRevision(g) /\ HeadSheet(g)' = HeadSheet(g)
    BY <1>1 DEF HeadRevision, HeadSheet
  <2>3. CASE Orphan(d, t, g)
    BY <1>9, <2>1, <2>3 DEF Orphan
  <2>4. CASE Kept(d, t, g) /\ Stamped(d, t, g) /\ t = s
    <3>1. g = c /\ due[d].rev = HeadRevision(g)
      BY <1>1, <1>8, <2>4 DEF Kept, DueHead
    <3>2. Synced(file[d][t])' = HeadRevision(g)
      BY <1>3, <1>5, <2>4, <3>1 DEF Synced
    <3> QED
      BY <1>9, <2>1, <2>2, <2>4, <3>2 DEF Kept, Stamped
  <2>5. CASE Kept(d, t, g) /\ Stamped(d, t, g) /\ t # s
    <3>1. file'[d][t] = file[d][t] /\ Synced(file[d][t])' = Synced(file[d][t])
      BY <1>5, <2>5 DEF Synced
    <3>2. due[d] # HeadStamp(t, g)
      BY <2>5 DEF HeadStamp
    <3> QED
      BY <1>12, <2>1, <2>2, <2>5, <3>1, <3>2 DEF Kept, Stamped
  <2> QED
    BY <2>1, <2>3, <2>4, <2>5
<1>14. DueHead(d)' /\ Owed(d)' /\ Alone(d)'
  BY <1>1, <1>8, <1>9, <1>10 DEF DueHead, Owed, Alone
<1>15. Reserved(d)'
  <2>1. \A t \in Slots : plan'[d][t] \in Chars => UNCHANGED plan
    BY <1>6, <1>11
  <2> QED
    BY <1>1, <1>8, <1>9, <2>1 DEF Reserved, Registered
<1>16. Idling(d)' /\ \A t \in Slots : plan'[d][t] # "import"
  BY <1>6, <1>8, <1>10 DEF Idling
<1>17. Fresh(d)'
  BY <1>10, <1>16 DEF Fresh
<1>18. \A t \in Slots : HandedBack(d, t)' = HandedBack(d, t)
  BY <1>1, <1>9 DEF HandedBack, Holder, HeadRevision
<1>19. Locked(d)'
  <2> SUFFICES ASSUME NEW t \in Linked(d)
               PROVE  /\ Settled(d, t)' => custody[file[d][t].char] = Holder(d, t)
                      /\ pc'[d] = "closing" /\ plan'[d][t] = "release" =>
                           custody[file[d][t].char] = Holder(d, t) \/ HandedBack(d, t)'
                      /\ plan'[d][t] \in Resolutions =>
                           custody[file[d][t].char] # Holder(d, t)
    BY <1>1, <1>9, <1>10 DEF Locked, Holder
  <2>1. Settled(d, t)' => custody[file[d][t].char] = Holder(d, t)
    <3>1. CASE t = s
      <4>1. Settled(d, t)' => pc[d] # "closing"
        BY <1>6 DEF Settled
      <4>2. pc[d] # "closing" => custody[due[d].char] = Holder(d, due[d].slot)
        BY <1>1, <1>8 DEF Owed
      <4>3. pc[d] # "closing" => custody[c] = Holder(d, t)
        BY <3>1, <4>2 DEF Holder
      <4>4. file[d][t].char = c
        BY <1>1, <3>1
      <4> QED
        BY <4>1, <4>3, <4>4
    <3>2. CASE t # s
      BY <1>8, <1>10, <1>12, <3>2 DEF Locked
    <3> QED
      BY <3>1, <3>2
  <2>2. ASSUME pc'[d] = "closing", plan'[d][t] = "release"
        PROVE  custody[file[d][t].char] = Holder(d, t) \/ HandedBack(d, t)'
    <3>1. pc[d] = "closing" /\ plan[d][t] = "release"
      BY <1>6, <2>2
    <3>2. t # s
      BY <1>1, <1>8, <3>1 DEF Owed
    <3> QED
      BY <1>8, <1>10, <1>18, <3>1, <3>2 DEF Locked
  <2>3. plan'[d][t] \in Resolutions => plan[d][t] \in Resolutions
    BY <1>6, <1>10, <1>11
  <2> QED
    BY <1>8, <2>1, <2>2, <2>3 DEF Locked
<1>20. Returned(d)'
  <2> SUFFICES ASSUME pc'[d] = "closing", NEW t \in Linked(d), plan'[d][t] # "release"
               PROVE  \/ HandedBack(d, t)'
                      \/ d \in Failing /\ custody[file[d][t].char] = Holder(d, t)
    BY <1>1, <1>9, <1>10 DEF Returned, Holder
  <2>1. pc[d] = "closing" /\ plan[d][t] # "release"
    BY <1>6
  <2>2. HandedBack(d, t)' = HandedBack(d, t)
    BY <1>10, <1>18
  <2>3. CASE t = s
    BY <1>1, <1>8, <2>1, <2>2, <2>3 DEF Owed
  <2>4. CASE t # s
    BY <1>8, <1>10, <1>18, <2>1, <2>2, <2>4 DEF Returned
  <2> QED
    BY <2>3, <2>4
<1> QED
  BY <1>7, <1>13, <1>14, <1>15, <1>16, <1>17, <1>19, <1>20 DEF Own

\* A stamp is not written, and the process goes on: the set-up asks again.
LEMMA StampFailsOwn ==
  ASSUME IInv, NEW d \in Dbs, Own(d), StampFails(d)
  PROVE  Acts(d) /\ Own(d)'
<1>1. /\ d \in Failing /\ due[d] # NoStamp
      /\ UNCHANGED <<timeline, custody, file, exempted>>
  BY DEF StampFails
<1>2. CASE Ended(d)
  BY <1>1, <1>2, EndedOwn
<1>3. CASE pc[d] # "applying" /\ due' = [due EXCEPT ![d] = NoStamp] /\ UNCHANGED <<pc, plan>>
  <2>1. due'[d] = NoStamp /\ \A e \in Dbs \ {d} : due'[e] = due[e]
    BY <1>3 DEF IInv, TypeOK
  <2>2. Acts(d)
    BY <1>1, <1>3, <2>1, QuietActs
  <2>3. /\ KeptAll(d) /\ Owed(d) /\ Alone(d) /\ Reserved(d)
        /\ Idling(d) /\ Fresh(d) /\ Locked(d) /\ Returned(d)
    BY DEF Own
  <2>4. ASSUME NEW g \in Chars, NEW s \in Slots, custody[g] = Holder(d, s),
               file[d][s].char = g, Settled(d, s)
        PROVE  Synced(file[d][s]) = HeadRevision(g)
    <3>1. Synced(file[d][s]) = HeadRevision(g) \/ due[d] = HeadStamp(s, g)
      BY <2>3, <2>4, HeldFacts DEF Stamped
    <3>2. pc[d] = "adding" /\ plan[d][s] # "import"
      BY <1>1, <1>3, <2>3, <2>4 DEF Owed, Settled, Unsettled
    <3>3. due[d].slot # s
      BY <1>1, <2>3, <3>2 DEF Owed
    <3> QED
      BY <3>1, <3>3 DEF HeadStamp
  <2>5. \A s \in Slots : Settled(d, s)' = Settled(d, s)
    BY <1>3 DEF Settled
  <2>6. KeptAll(d)'
    BY <1>1, <2>3, <2>4, <2>5, KeptStays
  <2>7. DueHead(d)' /\ Owed(d)' /\ Alone(d)' /\ Fresh(d)'
    BY <1>1, <1>3, <2>1, <2>3
    DEF DueHead, Owed, Alone, Fresh, Linked, Holder, HandedBack, HeadRevision
  <2>8. Reserved(d)' /\ Idling(d)'
    BY <1>1, <1>3, <2>3 DEF Reserved, Idling, Registered, Linked
  <2>9. Locked(d)' /\ Returned(d)'
    BY <1>1, <1>3, <2>3, <2>5
    DEF Locked, Returned, Linked, Holder, HandedBack, HeadRevision
  <2> QED
    BY <2>2, <2>6, <2>7, <2>8, <2>9 DEF Own
<1> QED
  BY <1>2, <1>3 DEF StampFails

\* The campaign whose turn it is to release a slot syncs back what it holds there;
\* it passes over what it does not hold.
LEMMA ReleaseOwn ==
  ASSUME IInv, IInv', NEW d \in Dbs, NEW s \in Slots, Own(d), Release(d, s)
  PROVE  Acts(d) /\ Own(d)'
<1> DEFINE f == file[d][s]
           c == file[d][s].char
<1>1. /\ pc[d] = "closing" /\ due[d] = NoStamp /\ plan[d][s] = "release"
      /\ Did(d, s, "done") /\ UNCHANGED <<file, pc>>
  BY DEF Release, At, IsNext
<1>2. /\ KeptAll(d) /\ Alone(d) /\ Reserved(d) /\ Idling(d) /\ Fresh(d)
      /\ Locked(d) /\ Returned(d)
  BY DEF Own
<1>3. /\ s \in Linked(d) /\ c \in Chars /\ Registered(c) /\ f \in SlotRows /\ Row(f)
  BY <1>1, LinkedFacts, CharFacts DEF IInv, Rows
<1>4. /\ plan'[d][s] = "done" /\ \A t \in Slots \ {s} : plan'[d][t] = plan[d][t]
      /\ \A e \in Dbs \ {d} : plan'[e] = plan[e]
  BY <1>1 DEF Did, IInv, TypeOK
<1>5. /\ Linked(d)' = Linked(d) /\ Linked(d) \subseteq Slots
      /\ \A t \in Slots : ~ Settled(d, t)'
  BY <1>1 DEF Linked, Settled
<1>6. \A t \in Slots : plan'[d][t] \in {"done", "release"}
  BY <1>1, <1>2, <1>4 DEF Idling
<1>7. \A t \in Slots : plan'[d][t] \notin Chars \cup Resolutions
  BY <1>6, TasksAssumption DEF TaskNames, Resolutions
<1>8. Alone(d)' /\ Reserved(d)' /\ Idling(d)' /\ Fresh(d)'
  BY <1>1, <1>2, <1>5, <1>6, <1>7 DEF Alone, Reserved, Idling, Fresh
<1>9. \A t \in Slots : Holder(d, t) # Idle
  BY HolderFacts
<1>10. CASE /\ custody[c] = Holder(d, s) /\ ~ BehindHead(f)
            /\ timeline' = SyncedBack(d, s)
            /\ custody' = [custody EXCEPT ![c] = Idle]
            /\ due' = [due EXCEPT ![d] =
                         [slot |-> s, char |-> c, rev |-> Len(timeline'[c])]]
            /\ TakenForCurrent(f)
  <2>1. /\ custody'[c] = Idle /\ \A h \in Chars \ {c} : custody'[h] = custody[h]
        /\ due'[d].char = c /\ due'[d].slot = s
        /\ \A e \in Dbs \ {d} : due'[e] = due[e]
    BY <1>3, <1>10 DEF IInv, TypeOK
  <2>2. /\ Grows /\ \A h \in Chars \ {c} : timeline'[h] = timeline[h]
        /\ HeadRevision(c)' \in Nat /\ 1 <= HeadRevision(c)'
        /\ timeline'[c][HeadRevision(c)'] = f.sheet
    <3>1. CASE f.sheet = HeadSheet(c)
      <4>1. UNCHANGED timeline
        BY <1>10, <3>1 DEF SyncedBack
      <4>2. Grows
        BY <1>10, <4>1, SameGrows DEF IInv, TakenForCurrent
      <4>3. HeadRevision(c)' = HeadRevision(c)
        BY <1>1, <4>1 DEF HeadRevision
      <4>4. HeadRevision(c) \in Nat /\ 1 <= HeadRevision(c)
        BY <1>3, HeadFacts DEF IInv
      <4> QED
        BY <3>1, <4>1, <4>2, <4>3, <4>4 DEF HeadSheet
    <3>2. CASE f.sheet # HeadSheet(c)
      <4>1. timeline' = [timeline EXCEPT ![c] = Append(@, f.sheet)]
        BY <1>10, <3>2 DEF SyncedBack
      <4>2. \A h \in Chars \ {c} : timeline'[h] = timeline[h]
        BY <1>3, <4>1 DEF IInv, TypeOK
      <4>3. /\ Grows
            /\ Len(timeline'[c]) \in Nat /\ 1 <= Len(timeline'[c])
            /\ timeline'[c][Len(timeline'[c])] = f.sheet
        BY <1>3, <1>10, <3>2, <4>1, Appended
      <4>4. HeadRevision(c)' = Len(timeline'[c])
        BY <1>1 DEF HeadRevision
      <4> QED
        BY <4>2, <4>3, <4>4
    <3> QED
      BY <3>1, <3>2
  <2>3. Acts(d)
    <3>1. \A g \in Chars :
            \/ custody'[g] = custody[g]
            \/ custody[g] = Holder(d, s) /\ custody'[g] = Idle
      BY <1>10, <2>1
    <3>2. \A g \in Chars : timeline'[g] = timeline[g] \/ custody[g] = Holder(d, s)
      BY <1>10, <2>2
    <3> QED
      BY <1>1, <1>4, <2>1, <2>2, <3>1, <3>2 DEF Acts
  <2>4. KeptAll(d)'
    <3>1. \A g \in Chars, t \in Slots : custody'[g] = Holder(d, t) =>
            custody[g] = Holder(d, t) /\ timeline'[g] = timeline[g]
      BY <1>9, <2>1, <2>2
    <3> QED
      BY <1>1, <1>2, <1>5, <3>1, KeptStays
  <2>5. DueHead(d)'
    BY <1>3, <1>9, <2>1 DEF DueHead, Holder
  <2>6. HandedBack(d, s)'
    <3>1. HeadRevision(c)' = Len(timeline'[c])
      BY <1>1 DEF HeadRevision
    <3>2. Len(timeline'[c]) \in 1 .. Len(timeline'[c])
      BY <2>2, <3>1
    <3>3. custody'[file'[d][s].char] # Holder(d, s)
      BY <1>1, <1>9, <2>1
    <3>4. \E i \in 1 .. Len(timeline'[c]) : timeline'[c][i] = f.sheet
      BY <2>2, <3>1, <3>2
    <3> QED
      BY <1>1, <3>3, <3>4 DEF HandedBack, Holder, HeadRevision
  <2>7. Owed(d)'
    <3>1. /\ pc'[d] = "closing" /\ due'[d].slot = s /\ plan'[d][s] # "release"
      BY <1>1, <1>4, <2>1
    <3> QED
      BY <2>6, <3>1 DEF Owed, HandedBack, Holder, HeadRevision
  <2>8. \A t \in Linked(d) \ {s} :
           /\ t \in Slots /\ file[d][t].char \in Chars \ {c}
           /\ custody'[file[d][t].char] = custody[file[d][t].char]
    BY <1>2, <1>3, <1>5, <2>1, CharFacts DEF Alone
  <2>9. \A t \in Linked(d) \ {s} : HandedBack(d, t) => HandedBack(d, t)'
    <3> TAKE t \in Linked(d) \ {s}
    <3> HAVE HandedBack(d, t)
    <3>1. custody'[file[d][t].char] # Holder(d, t)
      BY <2>8 DEF HandedBack
    <3>2. file[d][t].char \in Chars /\ t \in Slots
      BY <2>8
    <3>3. file'[d][t] = file[d][t]
      BY <1>1
    <3> QED
      BY <2>2, <3>1, <3>2, <3>3, HandedBackStays
  <2>10. Locked(d)'
    <3> SUFFICES ASSUME NEW t \in Linked(d)
                 PROVE  /\ plan'[d][t] = "release" =>
                             \/ custody'[file[d][t].char] = Holder(d, t)
                             \/ HandedBack(d, t)'
                        /\ plan'[d][t] \notin Resolutions
      BY <1>1, <1>5 DEF Locked, Holder
    <3>1. plan'[d][t] = "release" => t # s
      BY <1>4
    <3> QED
      BY <1>1, <1>2, <1>4, <1>5, <1>7, <2>8, <2>9, <3>1 DEF Locked
  <2>11. Returned(d)'
    <3> SUFFICES ASSUME NEW t \in Linked(d), plan'[d][t] # "release"
                 PROVE  \/ HandedBack(d, t)'
                        \/ d \in Failing /\ custody'[file[d][t].char] = Holder(d, t)
      BY <1>1, <1>5 DEF Returned, Holder
    <3>1. CASE t = s
      BY <2>6, <3>1
    <3>2. CASE t # s
      BY <1>1, <1>2, <1>4, <1>5, <2>8, <2>9, <3>2 DEF Returned
    <3> QED
      BY <3>1, <3>2
  <2> QED
    BY <1>8, <2>3, <2>4, <2>5, <2>7, <2>10, <2>11 DEF Own
<1>11. CASE /\ ~ (custody[c] = Holder(d, s) /\ ~ BehindHead(f)) \/ d \in Failing
            /\ UNCHANGED <<timeline, custody, due, exempted>>
  <2>1. Acts(d)
    BY <1>1, <1>4, <1>11, QuietActs
  <2>2. KeptAll(d)'
    BY <1>1, <1>2, <1>5, <1>11, KeptStays
  <2>3. DueHead(d)' /\ Owed(d)'
    BY <1>1, <1>11 DEF DueHead, Owed
  <2>4. Locked(d)'
    <3> SUFFICES ASSUME NEW t \in Linked(d)
                 PROVE  /\ plan'[d][t] = "release" =>
                             custody[file[d][t].char] = Holder(d, t) \/ HandedBack(d, t)
                        /\ plan'[d][t] \notin Resolutions
      BY <1>1, <1>5, <1>11 DEF Locked, Holder, HandedBack, HeadRevision
    <3>1. plan'[d][t] = "release" => t # s
      BY <1>4
    <3> QED
      BY <1>1, <1>2, <1>4, <1>5, <1>7, <3>1 DEF Locked
  <2>5. Returned(d)'
    <3> SUFFICES ASSUME NEW t \in Linked(d), plan'[d][t] # "release"
                 PROVE  \/ HandedBack(d, t)
                        \/ d \in Failing /\ custody[file[d][t].char] = Holder(d, t)
      BY <1>1, <1>5, <1>11 DEF Returned, Holder, HandedBack, HeadRevision
    <3>1. CASE t = s
      <4>1. custody[c] = Holder(d, s) => d \in Failing
        BY <1>2, <1>3, <1>11, HeldFacts
      <4> QED
        BY <1>1, <1>2, <1>3, <3>1, <4>1 DEF Locked
    <3>2. CASE t # s
      BY <1>1, <1>2, <1>4, <1>5, <3>2 DEF Returned
    <3> QED
      BY <3>1, <3>2
  <2> QED
    BY <1>8, <2>1, <2>2, <2>3, <2>4, <2>5 DEF Own
<1> QED
  BY <1>10, <1>11 DEF Release

-----------------------------------------------------------------------------
LEMMA OwnInit == Init => OwnInv
<1> SUFFICES ASSUME Init PROVE OwnInv
  OBVIOUS
<1>1. \A g \in Chars : custody[g] = Idle
  BY DEF Init
<1>2. ASSUME NEW d \in Dbs PROVE Own(d)
  <2>1. /\ pc[d] \in {"absent", "closed"} /\ due[d] = NoStamp
        /\ \A s \in Slots : plan[d][s] = "done" /\ file[d][s].char = NoChar
    BY DEF Init, NoPlan, EmptySlot
  <2>2. KeptAll(d)
    BY <1>1, HolderFacts DEF KeptAll
  <2>3. "done" \notin Chars
    BY TasksAssumption DEF TaskNames
  <2>4. Linked(d) = {}
    BY <2>1 DEF Linked
  <2> QED
    BY <2>1, <2>2, <2>3, <2>4
    DEF Own, DueHead, Owed, Alone, Reserved, Idling, Fresh, Locked, Returned
<1> QED
  BY <1>1, <1>2, InitInv DEF OwnInv, HeldBySome

\* What the step of one process shows of all.
LEMMA ActsOwn ==
  ASSUME OneFileEach, OwnInv, IInv', NEW d \in Dbs, Acts(d) /\ Own(d)'
  PROVE  OwnInv'
<1>1. \A e \in Dbs : Own(e)'
  BY OthersOwn DEF OwnInv
<1>2. HeldBySome'
  <2> SUFFICES ASSUME NEW g \in Chars, custody'[g] # Idle
               PROVE  \E e \in Dbs, s \in Slots : custody'[g] = Holder(e, s)
    BY DEF HeldBySome, Holder
  <2> QED
    BY DEF Acts, OwnInv, HeldBySome
<1> QED
  BY <1>1, <1>2 DEF OwnInv

\* A step of the registry alone founds a character, which nobody holds.
LEMMA FoundingOwn ==
  ASSUME OneFileEach, OwnInv, IInv', NEW g \in Chars, ~ Registered(g),
         NEW sheet \in Sheets, timeline' = [timeline EXCEPT ![g] = <<sheet>>],
         UNCHANGED <<custody, file, backup, pc, plan, due, edits, exempted>>
  PROVE  OwnInv'
<1>1. Grows /\ \A h \in Chars \ {g} : timeline'[h] = timeline[h]
  BY FoundedFacts DEF OwnInv
<1>2. \A h \in Chars : Registered(h) => timeline'[h] = timeline[h]
  BY <1>1
<1>3. ASSUME NEW d \in Dbs PROVE Own(d)'
  <2>1. Spares(d)
    BY <1>1, <1>2 DEF Spares
  <2> QED
    BY <2>1, SparedOwn DEF OwnInv
<1> QED
  BY <1>3 DEF OwnInv, HeldBySome, Holder

\* Every step keeps custody in order.
LEMMA OwnNext ==
  ASSUME OneFileEach
  PROVE  OwnInv /\ [Next]_vars => OwnInv'
<1> SUFFICES ASSUME OwnInv, [Next]_vars PROVE OwnInv'
  OBVIOUS
<1>1. IInv /\ IInv' /\ \A d \in Dbs : Own(d)
  BY NextInv DEF OwnInv
<1>2. CASE UNCHANGED vars
  <2>1. ASSUME NEW d \in Dbs PROVE Own(d)'
    <3>1. Grows
      BY <1>1, <1>2, SameGrows DEF IInv, vars
    <3>2. Spares(d)
      BY <1>2, <3>1 DEF Spares, vars
    <3> QED
      BY <1>1, <3>2, SparedOwn
  <2> QED
    BY <1>1, <1>2, <2>1 DEF OwnInv, HeldBySome, Holder, vars
<1>3. ASSUME NEW g \in Chars, Register(g) PROVE OwnInv'
  <2>1. {} \in Sheets
    BY DEF Sheets
  <2> QED
    BY <1>1, <1>3, <2>1, FoundingOwn DEF Register
<1>4. ASSUME NEW g \in Chars, NEW new \in Chars, NEW i \in 1 .. MaxEdits + 1,
             Fork(g, i, new)
      PROVE  OwnInv'
  <2>1. timeline[g] \in Seq(Sheets) /\ i \in 1 .. Len(timeline[g])
    BY <1>1, <1>4 DEF Fork, HeadRevision, IInv, TypeOK
  <2>2. timeline[g][i] \in Sheets
    BY <2>1
  <2> QED
    BY <1>1, <1>4, <2>2, FoundingOwn DEF Fork
<1>5. ASSUME NEW d \in Dbs, Leave(d) \/ Crash(d) PROVE OwnInv'
  <2>1. Ended(d) /\ UNCHANGED <<timeline, custody, file, exempted>>
    BY <1>5 DEF Leave, Crash
  <2> QED
    BY <1>1, <2>1, EndedOwn, ActsOwn
<1>6. ASSUME NEW d \in Dbs,
             \/ Open(d) \/ Defer(d) \/ Activate(d) \/ Begin(d) \/ Close(d)
             \/ Stamp(d) \/ StampFails(d)
      PROVE  OwnInv'
  BY <1>1, <1>6, OpenOwn, DeferOwn, ActivateOwn, BeginOwn, CloseOwn, StampOwn,
     StampFailsOwn, ActsOwn
<1>7. ASSUME NEW d \in Dbs, NEW s \in Slots,
             \/ AddCharacter(d, s)
             \/ CatchUp(d, s) \/ AttachFork(d, s) \/ Acquire(d, s)
             \/ Edit(d, s) \/ Release(d, s)
      PROVE  OwnInv'
  BY <1>1, <1>7, AddCharacterOwn, CatchUpOwn, AttachForkOwn, AcquireOwn, EditOwn, ReleaseOwn, ActsOwn
<1>8. ASSUME NEW d \in Dbs, NEW s \in Slots, NEW g \in Chars,
             Import(d, s, g) \/ ForkConflicted(d, s, g)
      PROVE  OwnInv'
  BY <1>1, <1>8, ImportOwn, ForkConflictedOwn, ActsOwn
<1>9. ASSUME NEW d \in Dbs, NEW e \in Copies, Restore(d, e) PROVE OwnInv'
  <2>1. d = e /\ pc[d] = "closed" /\ pc[e] = "absent"
    BY <1>9, FilesAssumption DEF Restore, OneFileEach
  <2> QED
    BY <2>1
<1> QED
  BY <1>2, <1>3, <1>4, <1>5, <1>6, <1>7, <1>8, <1>9 DEF Next

LEMMA OwnSole == OwnInv => SoleWriter
<1> SUFFICES ASSUME OwnInv, NEW d \in Dbs, pc[d] = "playing", NEW s \in Linked(d)
             PROVE  /\ custody[file[d][s].char] = Holder(d, s)
                    /\ HeadSheet(file[d][s].char) \subseteq file[d][s].sheet
  BY DEF SoleWriter
<1>1. IInv /\ Own(d) /\ s \in Slots /\ file[d][s].char \in Chars
  BY CharFacts DEF OwnInv, Linked
<1>2. custody[file[d][s].char] = Holder(d, s)
  BY <1>1 DEF Own, Locked, Settled
<1>3. Kept(d, s, file[d][s].char)
  BY <1>1, <1>2, HeldFacts DEF Own
<1> QED
  BY <1>2, <1>3 DEF Kept

\* What a slot holds it can release, if the character is still in it.
LEMMA HeldReleasable ==
  ASSUME OwnInv, NEW d \in Dbs, NEW s \in Slots, NEW g \in Chars,
         custody[g] = Holder(d, s), file[d][s].char = g
  PROVE  Releasable(d, s, g)
<1>1. Kept(d, s, g) /\ ~ BehindHead(file[d][s])
  BY HeldFacts DEF OwnInv, Own
<1> QED
  BY <1>1 DEF Kept, Releasable

LEMMA OwnRelease == OwnInv => HolderCanRelease
<1> SUFFICES ASSUME OwnInv, NEW g \in Chars, custody[g] # Idle
             PROVE  \E d \in Dbs, s \in Slots :
                      /\ custody[g] = Holder(d, s)
                      /\ \/ Releasable(d, s, g)
                         \/ d \in Failing /\ file[d][s].char \notin {g, NoChar}
  BY DEF HolderCanRelease
<1>1. PICK d \in Dbs, s \in Slots : custody[g] = Holder(d, s)
  BY DEF OwnInv, HeldBySome
<1>2. CASE file[d][s].char = g
  BY <1>1, <1>2, HeldReleasable
<1>3. CASE file[d][s].char # g
  <2>1. d \in Failing /\ s \in Linked(d)
    BY <1>1, <1>3, HeldFacts DEF OwnInv, Own
  <2> QED
    BY <1>1, <1>3, <2>1 DEF Linked
<1> QED
  BY <1>2, <1>3

\* Where each campaign has one file, what a campaign plays it has the lock of,
\* and its sheet has all that the registry knows of the character: whatever
\* writes failed in it or in other campaigns.
THEOREM OneWriter ==
  ASSUME OneFileEach
  PROVE  Spec => []SoleWriter
<1>1. OwnInv /\ [Next]_vars => OwnInv'
  BY OwnNext
<1> QED
  BY <1>1, OwnInit, OwnSole, PTL DEF Spec

\* There, no character is in two slots of a party, whatever a crash or a failed
\* write left attached.
THEOREM NeverTwice ==
  ASSUME OneFileEach
  PROVE  Spec => []NoTwins
<1>1. OwnInv /\ [Next]_vars => OwnInv'
  BY OwnNext
<1>2. OwnInv => NoTwins
  BY DEF OwnInv, Own, Alone, NoTwins
<1> QED
  BY <1>1, <1>2, OwnInit, PTL DEF Spec

\* There, whoever is refused a character can have it released: the campaign
\* that holds it has it where the registry says, up to date, unless a write
\* failed there and the slot was given another character.
THEOREM HoldersCanRelease ==
  ASSUME OneFileEach
  PROVE  Spec => []HolderCanRelease
<1>1. OwnInv /\ [Next]_vars => OwnInv'
  BY OwnNext
<1> QED
  BY <1>1, OwnInit, OwnRelease, PTL DEF Spec

\* There, a campaign that is left in order has handed all of its party back, but
\* where a write failed: there it still holds each character it has not handed
\* back, with all its progress.
THEOREM ProgressReturns ==
  ASSUME OneFileEach
  PROVE  Spec => CarriedForward
<1>1. OwnInv /\ [Next]_vars => OwnInv'
  BY OwnNext
<1>2. OwnInv /\ [Next]_vars =>
        [\A d \in Dbs : Leave(d) =>
           \A s \in Linked(d) :
             \/ HandedBack(d, s)
             \/ d \in Failing /\ Releasable(d, s, file[d][s].char)]_vars
  <2> SUFFICES ASSUME OwnInv, NEW d \in Dbs, Leave(d), NEW s \in Linked(d)
               PROVE  \/ HandedBack(d, s)
                      \/ d \in Failing /\ Releasable(d, s, file[d][s].char)
    OBVIOUS
  <2>1. pc[d] = "closing" /\ plan[d][s] # "release"
    BY DEF Leave, At, Pending, Linked
  <2>2. \/ HandedBack(d, s)
        \/ d \in Failing /\ custody[file[d][s].char] = Holder(d, s)
    BY <2>1 DEF OwnInv, Own, Returned
  <2>3. s \in Slots /\ file[d][s].char \in Chars
    BY CharFacts DEF OwnInv, Linked
  <2> QED
    BY <2>2, <2>3, HeldReleasable
<1> QED
  BY <1>1, <1>2, OwnInit, PTL DEF Spec, CarriedForward
=============================================================================
