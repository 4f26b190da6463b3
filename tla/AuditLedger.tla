----------------------------- MODULE AuditLedger -----------------------------
(***************************************************************************)
(* The hash-chained audit ledger (src/app/audit.py) and its sink, the      *)
(* audit_events table of PostgresRepository.                               *)
(*                                                                         *)
(* An event is known by its id, which also stands for its hash: SHA-256    *)
(* over the event and a fresh uuid does not repeat.  append() holds a lock *)
(* from the reading of the last event to the end of the sink's INSERT.     *)
(***************************************************************************)
EXTENDS Naturals, Sequences, SequencesExt

CONSTANTS
    Appenders,  \* the threads that append
    Subjects,   \* the entities the events are about
    Actions     \* what happened to them

Genesis == 0

Event == [id : Nat, previous : Nat, about : Subjects, action : Actions]

VARIABLES
    events,         \* AuditLedger._events
    stored,         \* audit_events, in the order of its sequence
    startupValid,   \* AuditLedger._startup_chain_valid
    writer,         \* who holds AuditLedger._lock
    minted,         \* how many ids there are
    lost            \* TRUE if an event was not stored since the process started

ledgerVars == <<events, stored, startupValid, writer, minted, lost>>

LedgerTypeOK ==
    /\ events \in Seq(Event)
    /\ stored \in Seq(Event)
    /\ startupValid \in BOOLEAN
    /\ writer \in Appenders \cup {"none"}
    /\ minted \in Nat
    /\ lost \in BOOLEAN

LedgerInit ==
    /\ events = <<>>
    /\ stored = <<>>
    /\ startupValid = TRUE
    /\ writer = "none"
    /\ minted = 0
    /\ lost = FALSE

LastId(chain) == IF chain = <<>> THEN Genesis ELSE Last(chain).id

Verifies(chain) ==
    \A n \in 1 .. Len(chain) :
        chain[n].previous = IF n = 1 THEN Genesis ELSE chain[n - 1].id

\* Mutant: the lock is not taken.
AppendUnlocked(r, m, action) ==
    /\ minted' = minted + 1
    /\ events' = Append(events, [id |-> minted + 1, previous |-> LastId(events),
                                 about |-> m, action |-> action])
    /\ UNCHANGED <<stored, startupValid, writer, lost>>

\* append(), up to the sink: the event is in memory first.
AppendEvent(r, m, action) ==
    /\ writer = "none"
    /\ writer' = r
    /\ minted' = minted + 1
    /\ events' = Append(events, [id |-> minted + 1, previous |-> LastId(events),
                                 about |-> m, action |-> action])
    /\ UNCHANGED <<stored, startupValid, lost>>

\* persist_audit(event), then the lock is released.
StoreEvent(event) ==
    /\ stored' = Append(stored, event)
    /\ writer' = "none"
    /\ UNCHANGED <<events, startupValid, minted, lost>>

\* The sink raises, with the row written (the acknowledgement is lost) or not.
StoreEventFails(event, written) ==
    /\ stored' = IF written THEN Append(stored, event) ELSE stored
    /\ lost' = (lost \/ ~written)
    /\ writer' = "none"
    /\ UNCHANGED <<events, startupValid, minted>>

\* AuditLedger(repo.persist_audit, repo.load_audit_events()) of a new process.
LoadEvents ==
    /\ events' = stored
    /\ startupValid' = Verifies(stored)
    /\ writer' = "none"
    /\ lost' = FALSE
    /\ UNCHANGED <<stored, minted>>
=============================================================================
