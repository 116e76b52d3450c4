---------------------------- MODULE AuditLedger ----------------------------
(***************************************************************************)
(* What the audit log promises its readers, independently of how it is     *)
(* written: one book per calendar day; a book only grows at its end, by    *)
(* one event at a time; an event is entered at most once in the whole      *)
(* ledger; the only way a book shrinks is that an operator empties it.     *)
(* A book whose file was damaged by a torn write is frozen until then.     *)
(***************************************************************************)
EXTENDS Naturals, Sequences

CONSTANTS
  Event,   \* the records handed to the logger
  MaxDay   \* the calendar days 1..MaxDay

VARIABLES
  book,    \* book[d]: the events certified by the hash chain of day d
  damaged  \* the days whose file holds a line that is not a record

ledgerVars == <<book, damaged>>

Day == 1..MaxDay

LedgerInit ==
  /\ book = [d \in Day |-> <<>>]
  /\ damaged = {}

Record(d, e) ==
  /\ d \notin damaged
  /\ \A c \in Day : \A i \in DOMAIN book[c] : book[c][i] # e
  /\ book' = [book EXCEPT ![d] = Append(@, e)]
  /\ UNCHANGED damaged

Damage(d) ==
  /\ damaged' = damaged \cup {d}
  /\ UNCHANGED book

Reset(d) ==
  /\ book' = [book EXCEPT ![d] = <<>>]
  /\ damaged' = damaged \ {d}

LedgerNext ==
  \E d \in Day :
    \/ \E e \in Event : Record(d, e)
    \/ Damage(d)
    \/ Reset(d)

LedgerSpec == LedgerInit /\ [][LedgerNext]_ledgerVars
=============================================================================
