---------------------------- MODULE MCTaskStore ----------------------------
(* A small instance of TaskStore for TLC.                                   *)
EXTENDS TaskStore

\* Two writers of different columns, the dispatch of a phase and the advance
\* of a lane, next to the edits a user makes.
MCClosures == {[kind |-> "dispatch", to |-> NoPhase],
               [kind |-> "advance", to |-> "todo"]}
=============================================================================
