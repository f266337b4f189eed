------------------------------ MODULE BusUsers ------------------------------
(***************************************************************************)
(* Who uses a message bus: topics, listeners, and what they listen to.     *)
(***************************************************************************)
EXTENDS Naturals, Sequences, FiniteSets, SequencesExt

CONSTANTS
    Subjects,        \* the topics
    Ears,            \* the listeners
    SubjectOf,       \* SubjectOf[l]: the topic that l listens to
    MaxSent          \* bound: messages published on a topic

ASSUME BusUsersAssumption == SubjectOf \in [Ears -> Subjects] /\ MaxSent \in Nat
=============================================================================
