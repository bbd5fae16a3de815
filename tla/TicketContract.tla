--------------------------- MODULE TicketContract ---------------------------
(***************************************************************************)
(* What the capture core promises about tickets, with no registry, no file *)
(* and no recovery in it: a book of records, the set of tickets whose      *)
(* transaction has left the process, and whether dispatch is allowed.      *)
(*                                                                         *)
(* A ticket's page in the book is "unseen" while nothing durable mentions  *)
(* it, "open" once it durably exists, "settled" once its outcome is        *)
(* durable, and "doubtful" when an outcome was written but the caller was  *)
(* told its fsync failed.                                                  *)
(*                                                                         *)
(* The book is smudged once a line in it was not finished.  What is        *)
(* written from then on may never reach a page, though the writer is told  *)
(* it did: an outcome that a smudged book lost leaves its ticket open.     *)
(***************************************************************************)
CONSTANT Ticket

VARIABLES book, exposed, serving, smudged

contractVars == <<book, exposed, serving, smudged>>

Page == {"unseen", "open", "doubtful", "settled"}

Onward == [unseen   |-> Page \ {"doubtful"},
           open     |-> {"open", "doubtful", "settled"},
           doubtful |-> {"doubtful", "settled"},
           settled  |-> {"settled"}]

Init ==
  /\ book = [t \in Ticket |-> "unseen"]
  /\ exposed = {}
  /\ serving = FALSE
  /\ smudged = FALSE

\* A page moves forward: no open ticket is forgotten, no settled one reopened.
\* Only an outcome in doubt can be taken back.
Moves(page, next) ==
  \/ next \in Onward[page]
  \/ page = "doubtful" /\ next = "open"

\* While dispatch goes on an outcome in doubt is taken back by a smudge only, and
\* a smudge stays.
Record ==
  /\ book' \in [Ticket -> Page]
  /\ smudged' \in BOOLEAN
  /\ smudged => smudged'
  /\ \A t \in Ticket :
       IF smudged THEN Moves(book[t], book'[t]) ELSE book'[t] \in Onward[book[t]]
  /\ UNCHANGED <<exposed, serving>>

\* A transaction leaves only while dispatch is allowed and only under a record
\* that is durable and still open; over a smudged book nobody can tell.
Expose(t) ==
  /\ serving
  /\ smudged \/ book[t] = "open"
  /\ exposed' = exposed \cup {t}
  /\ UNCHANGED <<book, serving, smudged>>

\* Dispatch opens only over a book with nothing left open (INV-39), as far as a
\* smudged one shows.
Start ==
  /\ ~serving
  /\ smudged \/ \A t \in Ticket : book[t] # "open"
  /\ serving' = TRUE
  /\ UNCHANGED <<book, exposed, smudged>>

\* Dispatch ends, perhaps with the machine, and the book is what the disk has of
\* it, smudged or not.
Stop ==
  /\ serving' = FALSE
  /\ book' \in [Ticket -> Page]
  /\ smudged' \in BOOLEAN
  /\ \A t \in Ticket : Moves(book[t], book'[t])
  /\ UNCHANGED exposed

Next == Record \/ Start \/ Stop \/ \E t \in Ticket : Expose(t)

Spec == Init /\ [][Next]_contractVars

=============================================================================
