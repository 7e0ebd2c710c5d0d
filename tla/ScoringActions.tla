----------------------------- MODULE ScoringActions -----------------------------
(***************************************************************************)
(* The user actions of the g4occt application: what a thread's event,       *)
(* tracking and stepping actions add up, and the rows the run's ntuples     *)
(* receive.                                                                 *)
(*                                                                          *)
(* Geant4's event loop is external: it begins a run, then the events one    *)
(* after another, then the tracks of each, the primary first, then their    *)
(* steps, and calls the actions in between.  An energy deposit stands for   *)
(* the deposit and for the step length, which the code treats alike.  The   *)
(* columns that only copy a fact of the step or the track are left out.     *)
(***************************************************************************)
EXTENDS Integers, FiniteSets, SequencesExt

CONSTANTS
  Deposits,   \* the energies a step may deposit
  MaxTracks,  \* bound: tracks of an event
  MaxSteps    \* bound: steps of a track

ASSUME DepositsAssumption == Deposits \subseteq Nat

VARIABLES
  config,     \* fConfig: the ntuples that are to be recorded
  ntuples,    \* the ntuples of this run, those whose id is not negative
  beam,       \* the event loop: what it is in, events left, steps of the track
  event,      \* the event action: id and totals
  trackEdep,  \* fCurrentTrackEdep, and whether the track is a primary
  rows        \* the rows written to the files of the run

scoringVars == <<config, ntuples, beam, event, trackEdep, rows>>

Ntuples == {"steps", "tracks", "events"}

NoRows == [n \in Ntuples |-> <<>>]

NewEvent(id) == [id |-> id, edep |-> 0, tracks |-> 0, steps |-> 0, primaries |-> 0]

ScoringInit ==
  /\ config = Ntuples
  /\ ntuples = {}
  /\ beam = [in |-> "nothing", left |-> 0, steps |-> 0]
  /\ event = NewEvent(0)
  /\ trackEdep = [edep |-> 0, primary |-> FALSE]
  /\ rows = NoRows

AddRow(n, row) ==
  rows' = IF n \in ntuples THEN [rows EXCEPT ![n] = Append(@, row)] ELSE rows

(* The messenger of the output configuration: between runs only. *)
Record(n, on) ==
  /\ beam.in = "nothing"
  /\ config' = IF on THEN config \cup {n} ELSE config \ {n}
  /\ UNCHANGED <<ntuples, beam, event, trackEdep, rows>>

(* The ids of the last run are forgotten; OpenFile() begins empty files. *)
BeginOfRunAction(events) ==
  /\ beam.in = "nothing"
  /\ ntuples' = config
  /\ rows' = NoRows
  /\ beam' = [in |-> "run", left |-> events, steps |-> 0]
  /\ UNCHANGED <<config, event, trackEdep>>

(* Mutation: the deposits of the last event are carried over. *)
BeginOfEventKeepsEdep ==
  /\ beam.in = "run" /\ beam.left > 0
  /\ beam' = [beam EXCEPT !.in = "event", !.left = @ - 1]
  /\ event' = [NewEvent(beam.left) EXCEPT !.edep = event.edep]
  /\ UNCHANGED <<config, ntuples, trackEdep, rows>>

(* Events are numbered by how many are left, which tells them apart. *)
BeginOfEventAction ==
  /\ beam.in = "run" /\ beam.left > 0
  /\ beam' = [beam EXCEPT !.in = "event", !.left = @ - 1]
  /\ event' = NewEvent(beam.left)
  /\ UNCHANGED <<config, ntuples, trackEdep, rows>>

(* The generator shoots one primary; every other track is a secondary. *)
PreUserTrackingAction ==
  /\ beam.in = "event" /\ event.tracks < MaxTracks
  /\ beam' = [beam EXCEPT !.in = "track", !.steps = 0]
  /\ trackEdep' = [edep |-> 0, primary |-> event.tracks = 0]
  /\ event' = IF event.tracks = 0 THEN [event EXCEPT !.primaries = @ + 1] ELSE event
  /\ UNCHANGED <<config, ntuples, rows>>

UserSteppingAction(edep) ==
  /\ beam.in = "track" /\ beam.steps < MaxSteps
  /\ beam' = [beam EXCEPT !.steps = @ + 1]
  /\ event' = [event EXCEPT !.edep = @ + edep, !.steps = @ + 1]
  /\ trackEdep' = [trackEdep EXCEPT !.edep = @ + edep]
  /\ AddRow("steps", [event |-> event.id, edep |-> edep])
  /\ UNCHANGED <<config, ntuples>>

PostUserTrackingAction ==
  /\ beam.in = "track"
  /\ beam' = [beam EXCEPT !.in = "event"]
  /\ event' = [event EXCEPT !.tracks = @ + 1]
  /\ AddRow("tracks", [event |-> event.id, edep |-> trackEdep.edep, primary |-> trackEdep.primary])
  /\ UNCHANGED <<config, ntuples, trackEdep>>

EndOfEventAction ==
  /\ beam.in = "event" /\ event.primaries > 0
  /\ beam' = [beam EXCEPT !.in = "run"]
  /\ AddRow("events", event)
  /\ UNCHANGED <<config, ntuples, event, trackEdep>>

(* Write() and CloseFile() *)
EndOfRunAction ==
  /\ beam.in = "run" /\ beam.left = 0
  /\ beam' = [beam EXCEPT !.in = "nothing"]
  /\ UNCHANGED <<config, ntuples, event, trackEdep, rows>>

EventLoop ==
  \/ BeginOfEventAction \/ PreUserTrackingAction
  \/ \E edep \in Deposits : UserSteppingAction(edep)
  \/ PostUserTrackingAction \/ EndOfEventAction \/ EndOfRunAction

-----------------------------------------------------------------------------
(* The rows of a file that are about an event, and the energy in them. *)
RowsOf(rs, id) == {i \in DOMAIN rs : rs[i].event = id}

TotalEdep(rs, id) ==
  LET sum[i \in 0 .. Len(rs)] ==
        IF i = 0 THEN 0
        ELSE IF rs[i].event = id THEN sum[i - 1] + rs[i].edep ELSE sum[i - 1]
  IN  sum[Len(rs)]

(* The three files of a run tell the same story: what the events file says  *)
(* of an event is what its rows in the steps file and in the tracks file    *)
(* add up to, whichever of the files are recorded and whatever earlier      *)
(* events and runs have left in the actions' counters.                      *)
LedgerBalances ==
  \A i \in DOMAIN rows["events"] :
    LET e      == rows["events"][i]
        tracks == RowsOf(rows["tracks"], e.id)
    IN  /\ "steps" \in ntuples =>
             /\ TotalEdep(rows["steps"], e.id) = e.edep
             /\ Cardinality(RowsOf(rows["steps"], e.id)) = e.steps
        /\ "tracks" \in ntuples =>
             /\ TotalEdep(rows["tracks"], e.id) = e.edep
             /\ Cardinality(tracks) = e.tracks
             /\ Cardinality({t \in tracks : rows["tracks"][t].primary}) = e.primaries
=============================================================================
