-------------------------- MODULE PersistenceDocs --------------------------
(***************************************************************************)
(* What the repository's docs say of the saved sessions and the code does  *)
(* not keep.  Each property is checked by a run that expects TLC to refute *)
(* it; README.md tells the stories.                                        *)
(***************************************************************************)
EXTENDS SessionPersistence

\* "a snapshot older than the display file beside it is stale - the display half
\* recorded turns the engine half never saw, so seeding from it would silently drop
\* them" (session.rs, load_machine_in): while a turn is under way, a resume of what
\* is on the disk keeps the turn's answer if the saved transcript shows it.
MidTurnPairReadsStale ==
  driver = "answered" =>
    \A s \in Sessions :
      turns \in files[s]["display"].turns => turns \in ResumedHistory(files[s])

\* "resume derives from the display transcript instead, which is lossy but
\* complete" (session.rs, load_machine_in): a live resume of another session gives
\* the engine every turn that the transcript it loads had saved as ended.
ResumeIsComplete ==
  [][ResumeAdopts /\ loaded.session # cell =>
       loaded.pair["display"].ended \subseteq committed']_vars

\* "The content is always a coherent committed set, so a re-stamp never claims
\* more truth than the history has" (observer.rs, machine_history), and "the fresh
\* identity sends every later save to a new file" (rotate): a session's machine
\* half holds that session's turns.
HistoryIsItsSessions ==
  \A s \in Sessions : \A t \in files[s]["machine"].turns : home[t] = s
=============================================================================
