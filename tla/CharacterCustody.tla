-------------------------- MODULE CharacterCustody --------------------------
(***************************************************************************)
(* One registry of continuing characters and several campaign databases.   *)
(* A campaign plays a copy of a character's head sheet under a custody     *)
(* lock kept in the registry, and syncs it back as the next revision when  *)
(* it closes.  Registry and campaign are two databases: every custody      *)
(* operation commits in one, then in the other, and the process may die    *)
(* between.  A sheet is the set of the edits that play has made to it.     *)
(***************************************************************************)
EXTENDS Naturals, Sequences, FiniteSets

CONSTANTS
  Dbs,         \* campaign database files
  Copies,      \* those that do not exist until a checkpoint is restored
  Campaigns,
  CampaignOf,  \* the campaign id stored in each file; a copy shares it
  Chars,       \* global character ids
  Slots,       \* campaign-local ids, pc-1, pc-2, ...
  NoChar,      \* an empty slot, or a sync row that was never written
  Idle,        \* no custody record
  MaxEdits,    \* bound on the changes to any sheet
  Failing      \* files where a write may fail in a process that goes on

ASSUME FilesAssumption ==
  Copies \subseteq Dbs /\ CampaignOf \in [Dbs -> Campaigns]
ASSUME SlotsAssumption == Slots \subseteq Nat \ {0} /\ IsFiniteSet(Slots)
ASSUME NoneAssumption ==
  NoChar \notin Chars /\ Idle \notin Campaigns \X Slots
ASSUME BoundAssumption == MaxEdits \in Nat /\ Failing \subseteq Dbs

VARIABLES
  timeline, \* the revisions of each character, oldest first; <<>> unregistered
  custody,  \* the campaign and slot that hold each character
  file,     \* the character slots of each campaign database
  backup,   \* of the checkpoints kept of a file, the one that may be restored
            \* (a set of at most one)
  pc,       \* where the process on each file is
  plan,     \* what it still has to do with each slot
  due,      \* the stamp it writes next: its registry unit has committed
  edits,    \* how many changes were made to sheets
  exempted  \* characters an unstamped copy of which, not the head, was taken
            \* for current (read by properties only)

vars == <<timeline, custody, file, backup, pc, plan, due, edits, exempted>>

Sheets == SUBSET (1 .. MaxEdits)
Holders == Campaigns \X Slots

\* One party slot: the attached sheet (link and content) and the row of
\* character_registry_sync (which character, and its synced revision).
SlotRows == [char : Chars \cup {NoChar}, sheet : Sheets,
             stamped : Chars \cup {NoChar}, synced : Nat]
EmptySlot == [char |-> NoChar, sheet |-> {}, stamped |-> NoChar, synced |-> 0]

\* The tasks of a slot: a character to import, a stale copy's resolution, the
\* fork to attach, a copy just caught up, a lock to take, one this activation
\* took, a release.
TaskNames ==
  {"done", "import", "catchup", "fork", "caught", "take", "taken", "release"}
Tasks == TaskNames \cup Chars
ASSUME TasksAssumption == TaskNames \cap Chars = {}
NoPlan == [s \in Slots |-> "done"]

NoStamp == [slot |-> 0, char |-> NoChar, rev |-> 0]

Holder(d, s) == <<CampaignOf[d], s>>
HeadRevision(g) == Len(timeline[g])
HeadSheet(g) == timeline[g][HeadRevision(g)]
Registered(g) == timeline[g] # <<>>
Linked(d) == {s \in Slots : file[d][s].char # NoChar}

Init ==
  /\ timeline = [g \in Chars |-> <<>>]
  /\ custody = [g \in Chars |-> Idle]
  /\ file = [d \in Dbs |-> [s \in Slots |-> EmptySlot]]
  /\ backup = [d \in Dbs |-> {}]
  /\ pc = [d \in Dbs |-> IF d \in Copies THEN "absent" ELSE "closed"]
  /\ plan = [d \in Dbs |-> NoPlan]
  /\ due = [d \in Dbs |-> NoStamp]
  /\ edits = 0 /\ exempted = {}

-----------------------------------------------------------------------------
\* What a copy is, next to the registry

\* readSyncedRevision; 0 for undefined
Synced(f) == IF f.stamped = f.char THEN f.synced ELSE 0

\* Mutant: a held copy is always taken for the campaign's own.
NeverBehind(f) == FALSE

\* isRestoredBehindHead
BehindHead(f) ==
  /\ Synced(f) # 0 /\ Synced(f) < HeadRevision(f.char)
  /\ f.sheet # HeadSheet(f.char)

\* The copies isRestoredBehindHead lets pass for want of a stamp, remembered.
Exempt(f) == Synced(f) = 0 /\ f.sheet # HeadSheet(f.char)
TakenForCurrent(f) ==
  exempted' = IF Exempt(f) THEN exempted \cup {f.char} ELSE exempted

\* classifyResumeConflict
Classification(d, s) ==
  LET f == file[d][s] IN
  IF f.char = NoChar THEN "not-linked"
  ELSE CASE custody[f.char] = Holder(d, s) ->
              IF BehindHead(f) THEN "stale-copy" ELSE "already-held"
         [] custody[f.char] \notin {Holder(d, s), Idle} -> "held-elsewhere"
         [] custody[f.char] = Idle ->
              IF f.sheet # HeadSheet(f.char) THEN "stale-copy" ELSE "resumable"

-----------------------------------------------------------------------------
\* Steps shared by the operations

\* The process on d, between two operations, is at p.
At(d, p) == pc[d] = p /\ due[d] = NoStamp

Goto(d, p) == pc' = [pc EXCEPT ![d] = p]

\* s is the first of the slots that have a task in T, in the order of the party.
IsNext(d, s, T) ==
  /\ plan[d][s] \in T
  /\ \A t \in Slots : plan[d][t] \in T => s <= t
Pending(d, T) == \E s \in Slots : plan[d][s] \in T

Did(d, s, task) == plan' = [plan EXCEPT ![d][s] = task]

\* attachCharacterSheetToCampaign with the head sheet of g
Attached(d, s, g) ==
  [file EXCEPT ![d][s] = [@ EXCEPT !.char = g, !.sheet = HeadSheet(g)]]

\* Mutant: the record names the campaign alone.
TakeForCampaign(d, s, g) ==
  /\ custody' = [custody EXCEPT ![g] = CampaignOf[d]]
  /\ due' = [due EXCEPT ![d] = [slot |-> s, char |-> g, rev |-> HeadRevision(g)]]

\* setCustody, and the stamp that follows the registry's commit
Take(d, s, g) ==
  /\ custody' = [custody EXCEPT ![g] = Holder(d, s)]
  /\ due' = [due EXCEPT ![d] = [slot |-> s, char |-> g, rev |-> HeadRevision(g)]]

\* The process ends: it crashed, was refused, or is done.
Ended(d) ==
  /\ Goto(d, "closed")
  /\ plan' = [plan EXCEPT ![d] = NoPlan]
  /\ due' = [due EXCEPT ![d] = NoStamp]

\* The campaign attached g and the registry unit around it did not commit: the
\* process died, was refused, or asks once more for a character for the slot.
Torn(d, s, g) ==
  /\ file' = Attached(d, s, g)
  /\ \/ Ended(d)
     \/ d \in Failing /\ plan[d][s] = "import" /\ UNCHANGED <<pc, plan, due>>
  /\ UNCHANGED custody

-----------------------------------------------------------------------------
\* The registry's own commands

\* registerNewCharacter
Register(g) ==
  /\ ~ Registered(g)
  /\ timeline' = [timeline EXCEPT ![g] = <<{}>>]
  /\ UNCHANGED <<custody, file, backup, pc, plan, due, edits, exempted>>

\* forkCharacterTimeline of a recorded revision, outside of any campaign
Fork(g, i, new) ==
  /\ ~ Registered(new) /\ i \in 1 .. HeadRevision(g)
  /\ timeline' = [timeline EXCEPT ![new] = <<timeline[g][i]>>]
  /\ UNCHANGED <<custody, file, backup, pc, plan, due, edits, exempted>>

-----------------------------------------------------------------------------
\* Checkout

\* Mutant: the other party slots of the campaign are not looked at.
AnySlot(d, s, g) ==
  /\ Registered(g)
  /\ custody[g] # Idle => custody[g][1] = CampaignOf[d]

\* checkoutLocked, its refusals.  A slot that holds g already is checked out
\* again only when nothing of it would change: never an empty one, whose live
\* row would appear.
MayCheckout(d, s, g) ==
  /\ Registered(g)
  /\ custody[g] \in {Idle, Holder(d, s)}
  /\ custody[g] = Holder(d, s) =>
       file[d][s].char # NoChar /\ file[d][s].sheet = HeadSheet(g)

\* A character is imported, or was created just now, for the slot that the
\* set-up is about.  It asks for that slot until a checkout has succeeded.
Import(d, s, g) ==
  /\ At(d, "setup") \/ At(d, "adding")
  /\ plan[d][s] = "import"
  /\ MayCheckout(d, s, g)
  /\ \/ file' = Attached(d, s, g) /\ Take(d, s, g) /\ UNCHANGED <<pc, plan>>
     \/ Torn(d, s, g)
  /\ UNCHANGED <<timeline, backup, edits, exempted>>

\* /addpc sets up the next free slot.
AddCharacter(d, s) ==
  /\ At(d, "playing")
  /\ s \notin Linked(d) /\ \A t \in Slots \ Linked(d) : s <= t
  /\ Goto(d, "adding") /\ Did(d, s, "import")
  /\ UNCHANGED <<timeline, custody, file, backup, due, edits, exempted>>

\* The first character may be deferred.
Defer(d) ==
  /\ At(d, "setup")
  /\ Goto(d, "resume") /\ plan' = [plan EXCEPT ![d] = NoPlan]
  /\ UNCHANGED <<timeline, custody, file, backup, due, edits, exempted>>

-----------------------------------------------------------------------------
\* Opening a campaign

\* The campaign's lock is taken; a campaign without a character sets up its
\* first slot.  One that has a character of its own goes on without.
Open(d) ==
  /\ pc[d] = "closed"
  /\ \/ /\ Linked(d) = {} /\ Goto(d, "setup")
        /\ \E s \in Slots : (\A t \in Slots : s <= t) /\ Did(d, s, "import")
     \/ Goto(d, "resume") /\ UNCHANGED plan
  /\ UNCHANGED <<timeline, custody, file, backup, due, edits, exempted>>

\* activateCampaignCustody, steps 1 and 2: every slot is classified, then the
\* player decides each stale copy or cancels.  Nothing is written.
Activate(d) ==
  LET Are(kind) == {s \in Slots : Classification(d, s) = kind}
  IN /\ At(d, "resume")
     /\ \/ Ended(d)
        \/ /\ Are("held-elsewhere") = {}
           /\ \E chosen \in [Are("stale-copy") -> {"catchup", "fork"}] :
                plan' = [plan EXCEPT ![d] =
                  [s \in Slots |->
                     IF s \in Are("stale-copy") THEN chosen[s]
                     ELSE IF s \in Are("not-linked") THEN "done" ELSE "take"]]
           /\ Goto(d, "applying") /\ UNCHANGED due
     /\ UNCHANGED <<timeline, custody, file, backup, edits, exempted>>

Resolutions == {"catchup", "fork"} \cup Chars

\* The next stale copy has the resolution t, applied to slot s.
Resolving(d, s, T) ==
  /\ At(d, "applying")
  /\ IsNext(d, s, Resolutions) /\ plan[d][s] \in T

\* Mutant: the custody set before the sheet is attached.
LockFirst(d, s, g) ==
  \/ /\ file' = Attached(d, s, g) /\ Take(d, s, g)
     /\ Did(d, s, "caught") /\ UNCHANGED pc
  \/ /\ custody' = [custody EXCEPT ![g] = Holder(d, s)]
     /\ Ended(d) /\ UNCHANGED file

\* The attach and the lock of a resolution, and its crash between the two.
Adopt(d, s, g) ==
  \/ /\ file' = Attached(d, s, g) /\ Take(d, s, g)
     /\ Did(d, s, "caught") /\ UNCHANGED pc
  \/ Torn(d, s, g)

\* catchUpCharacterToHead
CatchUp(d, s) ==
  LET g == file[d][s].char
  IN /\ Resolving(d, s, {"catchup"})
     /\ IF custody[g] \in {Idle, Holder(d, s)}
        THEN Adopt(d, s, g)
        ELSE Ended(d) /\ UNCHANGED <<custody, file>>
     /\ UNCHANGED <<timeline, backup, edits, exempted>>

\* forkConflictedCharacterIntoCampaign, its first unit: the campaign's sheet
\* is registered as a new character.
ForkConflicted(d, s, new) ==
  /\ Resolving(d, s, {"fork"})
  /\ ~ Registered(new)
  /\ timeline' = [timeline EXCEPT ![new] = <<file[d][s].sheet>>]
  /\ Did(d, s, new)
  /\ UNCHANGED <<custody, file, backup, pc, due, edits, exempted>>

\* Its second: that character is checked out into the slot, unless another
\* campaign came first.
AttachFork(d, s) ==
  LET new == plan[d][s]
  IN /\ Resolving(d, s, Chars)
     /\ IF MayCheckout(d, s, new)
        THEN Adopt(d, s, new)
        ELSE Ended(d) /\ UNCHANGED <<custody, file>>
     /\ UNCHANGED <<timeline, backup, edits, exempted>>

\* Mutant: the lock is taken on the strength of the first classification.
AcquireUnchecked(d, s) ==
  Take(d, s, file[d][s].char) /\ Did(d, s, "taken") /\ UNCHANGED exempted

\* checkCustodyResumable and setCustody in one registry unit; a copy already
\* held is only stamped, when its stamp is missing or behind.
Acquired(d, s) ==
  LET f == file[d][s]
  IN \/ /\ Classification(d, s) = "resumable"
        /\ Take(d, s, f.char) /\ Did(d, s, "taken") /\ UNCHANGED exempted
     \/ /\ Classification(d, s) = "already-held"
        /\ due' = IF Synced(f) < HeadRevision(f.char)
                  THEN [due EXCEPT ![d] = [slot |-> s, char |-> f.char,
                                           rev |-> HeadRevision(f.char)]]
                  ELSE due
        /\ Did(d, s, IF plan[d][s] = "caught" THEN "taken" ELSE "done")
        /\ TakenForCurrent(f) /\ UNCHANGED custody

\* acquireCustodyOnResume, of the next slot; its conflict ends the process.
Acquire(d, s) ==
  /\ At(d, "applying") /\ ~ Pending(d, Resolutions)
  /\ IsNext(d, s, {"caught", "take"})
  /\ \/ Acquired(d, s) /\ UNCHANGED pc
     \/ /\ Classification(d, s) \in {"held-elsewhere", "stale-copy"}
        /\ Ended(d) /\ UNCHANGED <<custody, exempted>>
  /\ UNCHANGED <<timeline, file, backup, edits>>

Begin(d) ==
  /\ At(d, "applying") /\ ~ Pending(d, Resolutions \cup {"caught", "take"})
  /\ Goto(d, "playing") /\ plan' = [plan EXCEPT ![d] = NoPlan]
  /\ UNCHANGED <<timeline, custody, file, backup, due, edits, exempted>>

-----------------------------------------------------------------------------
\* Play and close

\* Level ups and the like change a sheet of the party.
Edit(d, s) ==
  /\ At(d, "playing") /\ s \in Linked(d) /\ edits < MaxEdits
  /\ edits' = edits + 1
  /\ file' = [file EXCEPT ![d][s].sheet = @ \cup {edits + 1}]
  /\ UNCHANGED <<timeline, custody, backup, pc, plan, due, exempted>>

\* gracefulClose up to the releases: the session is closed and the checkpoint
\* taken while the characters are still held.  The input may end at any prompt.
Close(d) ==
  /\ At(d, "playing") \/ At(d, "adding")
  /\ Goto(d, "closing")
  /\ plan' = [plan EXCEPT ![d] =
       [s \in Slots |-> IF s \in Linked(d) THEN "release" ELSE "done"]]
  /\ \/ backup' = [backup EXCEPT ![d] = {file[d]}]
     \/ UNCHANGED backup
  /\ UNCHANGED <<timeline, custody, file, due, edits, exempted>>

\* Mutant: custody is cleared, and nothing synced.
ClearedOnly(d, s) == timeline

\* The append of syncBackLocked, skipped for an unchanged sheet.
SyncedBack(d, s) ==
  LET f == file[d][s]
  IN IF f.sheet = HeadSheet(f.char) THEN timeline
     ELSE [timeline EXCEPT ![f.char] = Append(@, f.sheet)]

\* releaseCharacterFromCampaign, of the next slot: sync-back and the end of
\* custody in one registry unit, nothing when the copy is not the holder's or
\* is behind, and nothing but a message when the registry fails.
Release(d, s) ==
  LET f == file[d][s]
      syncs == custody[f.char] = Holder(d, s) /\ ~ BehindHead(f)
  IN /\ At(d, "closing") /\ IsNext(d, s, {"release"})
     /\ Did(d, s, "done")
     /\ \/ /\ syncs
           /\ timeline' = SyncedBack(d, s)
           /\ custody' = [custody EXCEPT ![f.char] = Idle]
           /\ due' = [due EXCEPT ![d] =
                        [slot |-> s, char |-> f.char,
                         rev |-> Len(timeline'[f.char])]]
           /\ TakenForCurrent(f)
        \/ /\ ~ syncs \/ d \in Failing
           /\ UNCHANGED <<timeline, custody, due, exempted>>
     /\ UNCHANGED <<file, backup, pc, edits>>

Leave(d) ==
  /\ At(d, "closing") /\ ~ Pending(d, {"release"})
  /\ Ended(d)
  /\ UNCHANGED <<timeline, custody, file, backup, edits, exempted>>

-----------------------------------------------------------------------------
\* stampSyncedRevision, in the campaign database, after the registry's commit;
\* with it a checkout has succeeded, and its set-up is over.
Stamp(d) ==
  /\ due[d] # NoStamp
  /\ file' = [file EXCEPT ![d][due[d].slot] =
                 [@ EXCEPT !.stamped = due[d].char, !.synced = due[d].rev]]
  /\ due' = [due EXCEPT ![d] = NoStamp]
  /\ IF pc[d] \in {"setup", "adding"}
     THEN /\ Goto(d, IF pc[d] = "setup" THEN "resume" ELSE "playing")
          /\ plan' = [plan EXCEPT ![d] = NoPlan]
     ELSE UNCHANGED <<pc, plan>>
  /\ UNCHANGED <<timeline, custody, backup, edits, exempted>>

\* The stamp fails: an activation is refused, a set-up asks again, a close goes on.
StampFails(d) ==
  /\ d \in Failing /\ due[d] # NoStamp
  /\ IF pc[d] = "applying" THEN Ended(d)
     ELSE due' = [due EXCEPT ![d] = NoStamp] /\ UNCHANGED <<pc, plan>>
  /\ UNCHANGED <<timeline, custody, file, backup, edits, exempted>>

\* The process goes away without a release: it dies, its input ends before play,
\* the launch fails, or the player quits with a replay pending.
Crash(d) ==
  /\ pc[d] \notin {"absent", "closed"}
  /\ Ended(d)
  /\ UNCHANGED <<timeline, custody, file, backup, edits, exempted>>

\* `checkpoint restore' and `checkpoint fork': a checkpoint of d becomes a new
\* working copy, with the campaign's id.
Restore(d, e) ==
  /\ pc[d] = "closed" /\ pc[e] = "absent"   \* under the writer lock of d
  /\ CampaignOf[e] = CampaignOf[d]
  /\ \E saved \in backup[d] : file' = [file EXCEPT ![e] = saved]
  /\ Goto(e, "closed")
  /\ UNCHANGED <<timeline, custody, backup, plan, due, edits, exempted>>

-----------------------------------------------------------------------------
Next ==
  \/ \E g \in Chars : Register(g)
  \/ \E g, new \in Chars, i \in 1 .. MaxEdits + 1 : Fork(g, i, new)
  \/ \E d \in Dbs :
       \/ Open(d) \/ Defer(d) \/ Activate(d) \/ Begin(d) \/ Close(d) \/ Leave(d)
       \/ Stamp(d) \/ StampFails(d) \/ Crash(d)
       \/ \E s \in Slots :
            \/ AddCharacter(d, s)
            \/ CatchUp(d, s) \/ AttachFork(d, s) \/ Acquire(d, s)
            \/ Edit(d, s) \/ Release(d, s)
            \/ \E g \in Chars : Import(d, s, g) \/ ForkConflicted(d, s, g)
       \/ \E e \in Copies : Restore(d, e)

Spec == Init /\ [][Next]_vars

-----------------------------------------------------------------------------
\* Properties

\* Every variable is a value of its kind.
TypeOK ==
  /\ timeline \in [Chars -> Seq(Sheets)]
  /\ custody \in [Chars -> Holders \cup {Idle}]
  /\ file \in [Dbs -> [Slots -> SlotRows]]
  /\ backup \in [Dbs -> SUBSET [Slots -> SlotRows]]
  /\ pc \in [Dbs -> {"absent", "closed", "setup", "resume", "applying",
                     "playing", "adding", "closing"}]
  /\ plan \in [Dbs -> [Slots -> Tasks]]
  /\ due \in [Dbs -> [slot : Slots, char : Chars, rev : Nat] \cup {NoStamp}]
  /\ edits \in 0 .. MaxEdits /\ exempted \subseteq Chars

\* Each revision of g keeps the progress of all earlier ones.
Continues(g) ==
  \A j \in 1 .. HeadRevision(g) : \A i \in 1 .. j :
    timeline[g][i] \subseteq timeline[g][j]

\* ADR 0012, "a stale copy can never revert the timeline", for a character whose
\* copies were stamped whenever they were taken for current: whatever copies of
\* a campaign were restored, played, crashed and released in between.
StampedNeverRevert == \A g \in Chars \ exempted : Continues(g)

\* The same, of every character.
NoRevert == \A g \in Chars : Continues(g)

\* While a campaign plays a character it has the lock, and the progress the
\* character brought is in its sheet (each campaign having one file).
SoleWriter ==
  \A d \in Dbs : pc[d] = "playing" =>
    \A s \in Linked(d) :
      /\ custody[file[d][s].char] = Holder(d, s)
      /\ HeadSheet(file[d][s].char) \subseteq file[d][s].sheet

\* "One continuing character cannot occupy two party slots in the same
\* campaign": checkout's guard, whatever a crash or a failed write left attached.
NoTwins ==
  \A d \in Dbs : \A s, t \in Linked(d) :
    file[d][s].char = file[d][t].char => s = t

\* Slot s of d can release g: it has all the progress of g, and is not refused.
Releasable(d, s, g) ==
  /\ custody[g] = Holder(d, s) /\ file[d][s].char = g
  /\ HeadSheet(g) \subseteq file[d][s].sheet /\ ~ BehindHead(file[d][s])

\* checkoutLocked, "exit that campaign to release it -- its progress carries
\* forward": the campaign can (each having one file), but for a slot that, after
\* a write failed, was given another character.
HolderCanRelease ==
  \A g \in Chars : custody[g] # Idle =>
    \E d \in Dbs, s \in Slots :
      /\ custody[g] = Holder(d, s)
      /\ \/ Releasable(d, s, g)
         \/ d \in Failing /\ file[d][s].char \notin {g, NoChar}

\* The registry has the sheet of slot s of d, which does not hold it any more.
HandedBack(d, s) ==
  LET g == file[d][s].char
  IN /\ custody[g] # Holder(d, s)
     /\ \E i \in 1 .. HeadRevision(g) : timeline[g][i] = file[d][s].sheet

\* A clean exit carries the party's progress forward (each campaign having one
\* file).  Where a write failed, which the exit survives, a character that is not
\* handed back is still held, so that the next exit can release it.
CarriedForward ==
  [][\A d \in Dbs : Leave(d) =>
       \A s \in Linked(d) :
         \/ HandedBack(d, s)
         \/ d \in Failing /\ Releasable(d, s, file[d][s].char)]_vars

\* playFork.ts, "the source character stays idle and unchanged": a campaign
\* that has forked a character, and is open nowhere else, does not hold it.
ForkLeavesSourceIdle ==
  [][\A d \in Dbs, s \in Slots :
       /\ AttachFork(d, s) /\ pc'[d] # "closed"
       /\ \A e \in Dbs \ {d} : CampaignOf[e] = CampaignOf[d] =>
                                 pc[e] \in {"absent", "closed"}
       => custody'[file[d][s].char] # Holder(d, s)]_vars

\* activateCampaignCustody: "a failed activation never leaves partial state
\* behind": when a conflict ends it, it took no lock and caught nothing up.
ActivationIsAllOrNothing ==
  [][\A d \in Dbs, s \in Slots :
       Acquire(d, s) /\ pc'[d] = "closed" =>
         \A t \in Slots : plan[d][t] \notin {"caught", "taken"}]_vars

=============================================================================
