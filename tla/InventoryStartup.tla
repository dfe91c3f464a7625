---------------------------- MODULE InventoryStartup ----------------------------
(***************************************************************************)
(* The start of the Inventory Service, any number of times.  The seeder    *)
(* counts the items and, if there are none, saves its list one by one; an  *)
(* error ends the seeding and not the start.  Requests are taken once that *)
(* is over; the consumer of inventory_queue starts before and handles      *)
(* orders all the time.                                                    *)
(***************************************************************************)
EXTENDS InventoryService, Sequences

CONSTANT Seeds   \* the list: [product, quantity] records

ASSUME SeedsAssumption ==
  /\ Seeds \in Seq([product : Products, quantity : Nat])
  /\ \A i, j \in DOMAIN Seeds : Seeds[i].product = Seeds[j].product => i = j

VARIABLES
  phase,      \* starting (the items are not counted yet), seeding or open
  saved,      \* how much of the list this seeding has saved
  catalogue   \* what became of the seeding of an empty table, if it was empty

startupVars == <<vars, phase, saved, catalogue>>

Missing(p) == ~Exists(stock[p])

StartupInit ==
  /\ Init
  /\ phase = "starting"
  /\ saved = 0
  /\ catalogue = "given"

\* Mutant of CountItems: the list is saved if any item of it is missing.
CountListed ==
  /\ phase = "starting"
  /\ IF \A i \in DOMAIN Seeds : ~Missing(Seeds[i].product)
     THEN phase' = "open" /\ UNCHANGED catalogue
     ELSE phase' = "seeding" /\ catalogue' = "seeded"
  /\ saved' = 0
  /\ UNCHANGED vars

\* count() takes soft-deleted items too.
CountItems ==
  /\ phase = "starting"
  /\ IF \E p \in Products : ~Missing(p)
     THEN phase' = "open" /\ UNCHANGED catalogue
     ELSE phase' = "seeding" /\ catalogue' = "seeded"
  /\ saved' = 0
  /\ UNCHANGED vars

\* save(): the seeds carry all columns but the status.
SeedRow(row, quantity) ==
  WithStock([row EXCEPT !.status = IF Exists(row) THEN @ ELSE "ACTIVE"], quantity, 0)

SeedItem ==
  /\ phase = "seeding" /\ saved < Len(Seeds)
  /\ LET seed == Seeds[saved + 1]
     IN stock' = [stock EXCEPT ![seed.product] = SeedRow(@, seed.quantity)]
  /\ saved' = saved + 1
  /\ UNCHANGED <<txn, edit, alerts, phase, catalogue>>

\* Mutant of SeedingEnds: the last item of the list is left out.
SeedingEndsEarly ==
  /\ phase = "seeding" /\ saved + 1 >= Len(Seeds)
  /\ phase' = "open"
  /\ UNCHANGED <<vars, saved, catalogue>>

SeedingEnds ==
  /\ phase = "seeding" /\ saved = Len(Seeds)
  /\ phase' = "open"
  /\ UNCHANGED <<vars, saved, catalogue>>

\* The error is caught and logged: the service opens with what there is.
SeedingFails ==
  /\ phase = "seeding" /\ saved < Len(Seeds)
  /\ phase' = "open"
  /\ catalogue' = "partial"
  /\ UNCHANGED <<vars, saved>>

Request ==
  /\ phase = "open"
  /\ AdminNext
  /\ UNCHANGED <<phase, saved, catalogue>>

Order ==
  /\ HandlerNext
  /\ UNCHANGED <<phase, saved, catalogue>>

\* The process stops, the database rolls its transaction back, and it starts
\* again on what is committed.
Restart ==
  /\ phase' = "starting"
  /\ saved' = 0
  /\ txn' = NoTxn
  /\ edit' = [a \in Admins |-> NoEdit]
  /\ catalogue' = IF phase = "seeding" /\ saved \in 1..Len(Seeds) - 1 THEN "partial" ELSE catalogue
  /\ UNCHANGED <<stock, alerts>>

StartupNext ==
  CountItems \/ SeedItem \/ SeedingEnds \/ SeedingFails \/ Request \/ Order \/ Restart

StartupSpec == StartupInit /\ [][StartupNext]_startupVars

-------------------------------------------------------------------------------
\* However often the service stops and starts, in the middle of a seeding, of
\* the requests or of an order, no start changes an item that is there:
\* quantities and reservations are not reset, removed items not brought back
\* (inventory-seeder.service.ts:22-36).  A commit of an order ends its
\* transaction.
SeedingSparesItems ==
  [][phase # "open" /\ txn' = txn =>
       \A p \in Products : Exists(stock[p]) => stock'[p] = stock[p]]_startupVars

\* A service that opened after seeding an empty table has every item of the
\* list, unless an error or a stop cut a seeding short; what is missing then is
\* never added by a later start (inventory-seeder.service.ts:24-41).
SeededCatalogueIsWhole ==
  phase = "open" /\ catalogue = "seeded" =>
    \A i \in DOMAIN Seeds : ~Missing(Seeds[i].product)
===============================================================================
