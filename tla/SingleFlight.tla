------------------------------ MODULE SingleFlight ------------------------------
(***************************************************************************)
(* What GetOrBuildSurfaceCache() promises to its callers: a table derived   *)
(* from the current version of an object, built by one caller at a time, at *)
(* most once per version unless a build is abandoned, and handed out only   *)
(* while it is the table of that version.  The version changes only when    *)
(* nobody is inside a call.                                                 *)
(***************************************************************************)
EXTENDS Integers

CONSTANTS Threads, None

VARIABLES
  version,  \* of the object the table is derived from
  table,    \* None, or the version the table was built from
  builder,  \* None, or the caller that is building
  call      \* per caller: idle, asked, answered (holding the table)

vars == <<version, table, builder, call>>

Init ==
  /\ version = 0
  /\ table = None
  /\ builder = None
  /\ call = [t \in Threads |-> "idle"]

Replace ==
  /\ \A t \in Threads : call[t] = "idle"
  /\ version' = version + 1
  /\ table' = None
  /\ UNCHANGED <<builder, call>>

Ask(t) ==
  /\ call[t] = "idle"
  /\ call' = [call EXCEPT ![t] = "asked"]
  /\ UNCHANGED <<version, table, builder>>

Begin(t) ==
  /\ call[t] = "asked"
  /\ builder = None
  /\ table = None
  /\ builder' = t
  /\ UNCHANGED <<version, table, call>>

Complete(t) ==
  /\ builder = t
  /\ table' = version
  /\ builder' = None
  /\ UNCHANGED <<version, call>>

Abandon(t) ==
  /\ builder = t
  /\ builder' = None
  /\ call' = [call EXCEPT ![t] = "idle"]
  /\ UNCHANGED <<version, table>>

Answer(t) ==
  /\ call[t] = "asked"
  /\ builder # t
  /\ table = version
  /\ call' = [call EXCEPT ![t] = "answered"]
  /\ UNCHANGED <<version, table, builder>>

Release(t) ==
  /\ call[t] = "answered"
  /\ call' = [call EXCEPT ![t] = "idle"]
  /\ UNCHANGED <<version, table, builder>>

Next ==
  \/ Replace
  \/ \E t \in Threads : \/ Ask(t) \/ Begin(t) \/ Complete(t)
                        \/ Abandon(t) \/ Answer(t) \/ Release(t)

Spec == Init /\ [][Next]_vars
=============================================================================
