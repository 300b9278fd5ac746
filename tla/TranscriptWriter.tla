-------------------------- MODULE TranscriptWriter --------------------------
(***************************************************************************)
(* The writer thread that puts a session's two halves on disk              *)
(* (TranscriptWorker, crates/dch/src/tui.rs) and the session files         *)
(* themselves (crates/dch/src/session.rs): the display half is the         *)
(* transcript on the screen, the machine half the history of the engine.   *)
(*                                                                         *)
(* The writer is a thread of its own.  The session hands it a snapshot of  *)
(* a half through a mailbox of one slot per half, under a mutex the writer *)
(* holds from its look into the slot to its sleep on the condvar.          *)
(*                                                                         *)
(* A turn is one answer of the model, 1 .. MaxTurns in the order given.    *)
(***************************************************************************)
EXTENDS Naturals, Sequences, FiniteSets

CONSTANTS
  MaxTurns,     \* bound: turns the model answers
  MaxSessions,  \* bound: session ids minted
  MaxFaults     \* bound: writes that fail

ASSUME BoundAssumption == /\ MaxTurns \in Nat /\ MaxSessions \in Nat
                          /\ MaxFaults \in Nat

Turns == 1 .. MaxTurns
Sessions == 1 .. MaxSessions
Halves == {"display", "machine"}

\* TranscriptSnapshot and MachineSnapshot: the turns the half carries, those of
\* them that had ended, the session it was published under and its saved_at.
Snapshot == [turns : SUBSET Turns, ended : SUBSET Turns, session : Sessions, at : Nat \ {0}]
None == [turns |-> {}, ended |-> {}, session |-> 0, at |-> 0]
NoPair == [h \in Halves |-> None]
Pair == [Halves -> Snapshot \cup {None}]

VARIABLES
  slot,     \* PendingSaves: the newest snapshot of each half not yet taken
  hand,     \* what the writer took and has not yet written
  wpc,      \* where the writer stands
  stop,     \* the writer's shutdown flag
  cell,     \* the session the next snapshot is pinned to (the saver cell)
  clock,    \* the last saved_at given
  files,    \* session.json and machine.json of each session
  faults    \* writes that failed

writerVars == <<slot, hand, wpc, stop, cell, clock, files, faults>>

WriterTypeOK ==
  /\ slot \in Pair /\ hand \in Pair
  /\ wpc \in {"looking", "waiting", "asleep", "display", "machine", "ended"}
  /\ stop \in BOOLEAN
  /\ cell \in 0 .. MaxSessions
  /\ clock \in Nat
  /\ files \in [Sessions -> Pair]
  /\ faults \in 0 .. MaxFaults

WriterInit ==
  /\ slot = NoPair /\ hand = NoPair
  /\ wpc = "ended" /\ stop = FALSE
  /\ cell = 0 /\ clock = 0
  /\ files = [s \in Sessions |-> NoPair]
  /\ faults = 0

-----------------------------------------------------------------------------
(* The mailbox, from the session's side.                                   *)

\* The writer holds the slot's mutex between its look and its sleep.
LockFree == wpc # "waiting"
Woken == IF wpc = "asleep" THEN "looking" ELSE wpc

\* TranscriptHandle::send and send_machine: the newest snapshot of a half takes
\* the place of the one that waits, pinned to the session the cell names.
Publish(half, turns, ended) ==
  /\ LockFree
  /\ clock' = clock + 1
  /\ slot' = [slot EXCEPT ![half] =
                [turns |-> turns, ended |-> ended, session |-> cell, at |-> clock + 1]]
  /\ wpc' = Woken
  /\ UNCHANGED <<hand, stop, cell, files, faults>>

\* Mutant of SignalStop: the flag goes up without the mutex.
SignalStopUnlocked ==
  /\ stop' = TRUE
  /\ wpc' = Woken
  /\ UNCHANGED <<slot, hand, cell, clock, files, faults>>

\* signal_shutdown: the flag goes up under the mutex, then the writer is woken.
SignalStop ==
  /\ LockFree
  /\ stop' = TRUE
  /\ wpc' = Woken
  /\ UNCHANGED <<slot, hand, cell, clock, files, faults>>

-----------------------------------------------------------------------------
(* The thread (spawn_inner).                                               *)

\* What the writer does next with the halves it holds: display first.
NextHalf(pair) ==
  IF pair["display"] # None THEN "display"
  ELSE IF pair["machine"] # None THEN "machine" ELSE "looking"

\* Mutant of WriterLooks: a stop leaves what the slot still holds.
WriterLeavesAtOnce ==
  /\ wpc = "looking"
  /\ IF slot = NoPair \/ stop
     THEN wpc' = (IF stop THEN "ended" ELSE "waiting") /\ UNCHANGED <<slot, hand>>
     ELSE wpc' = NextHalf(slot) /\ hand' = slot /\ slot' = NoPair
  /\ UNCHANGED <<stop, cell, clock, files, faults>>

\* One look under the mutex: sleep, leave, or take both halves.
WriterLooks ==
  /\ wpc = "looking"
  /\ IF slot = NoPair
     THEN wpc' = (IF stop THEN "ended" ELSE "waiting") /\ UNCHANGED <<slot, hand>>
     ELSE wpc' = NextHalf(slot) /\ hand' = slot /\ slot' = NoPair
  /\ UNCHANGED <<stop, cell, clock, files, faults>>

WriterSleeps ==
  /\ wpc = "waiting"
  /\ wpc' = "asleep"
  /\ UNCHANGED <<slot, hand, stop, cell, clock, files, faults>>

\* save_at and save_machine: the half in hand replaces its file, by a rename; a
\* write that fails leaves the file it found and is only logged.
Saves(half) ==
  /\ wpc = half
  /\ hand' = [hand EXCEPT ![half] = None]
  /\ wpc' = NextHalf(hand')
  /\ \/ /\ files' = [files EXCEPT ![hand[half].session][half] = hand[half]]
        /\ UNCHANGED faults
     \/ /\ faults < MaxFaults
        /\ faults' = faults + 1
        /\ UNCHANGED files
  /\ UNCHANGED <<slot, stop, cell, clock>>

WriterSaves == \E half \in Halves : Saves(half)

WriterStep == WriterLooks \/ WriterSleeps \/ WriterSaves

-----------------------------------------------------------------------------
(* Reading a session back.                                                 *)

\* Mutant of MachineCounts: the machine half counts whatever its age.
MachineExists(pair) == pair["machine"] # None

\* The pair rule (load_machine_in): the machine half counts when it is at least
\* as new as the display half beside it.
MachineCounts(pair) == pair["machine"] # None /\ pair["machine"].at >= pair["display"].at

\* The history a resume gives the engine: the machine half, or else what the
\* transcript can be turned back into (history_for_resume).
ResumedHistory(pair) ==
  IF MachineCounts(pair) THEN pair["machine"].turns ELSE pair["display"].turns

Saved(s) == files[s]["display"] # None
=============================================================================
