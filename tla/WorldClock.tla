----------------------------- MODULE WorldClock -----------------------------
(***************************************************************************)
(* What every part of play reads: the campaign's clock, in hours, and the  *)
(* combat, if one is active.  A campaign has at most one active combat.    *)
(***************************************************************************)
EXTENDS Naturals

CONSTANTS MaxClock, \* bound: the clock stops here
          MaxFights \* bound: combats of the campaign

ASSUME ClockBounds == MaxClock \in Nat /\ MaxFights \in Nat

VARIABLES clock,
          fights,   \* the combats started so far
          fighting  \* the newest of them is active

clockVars == <<clock, fights, fighting>>

ClockTypeOK ==
  clock \in 0 .. MaxClock /\ fights \in 0 .. MaxFights /\ fighting \in BOOLEAN

ClockInit == clock = 0 /\ fights = 0 /\ fighting = FALSE

TimePasses(hours) ==
  clock + hours <= MaxClock /\ clock' = clock + hours
    /\ UNCHANGED <<fights, fighting>>

FightStarts ==
  /\ ~ fighting /\ fights < MaxFights
  /\ fights' = fights + 1 /\ fighting' = TRUE
  /\ UNCHANGED clock

FightEnds == fighting /\ fighting' = FALSE /\ UNCHANGED <<clock, fights>>
=============================================================================
