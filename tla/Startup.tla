-------------------------------- MODULE Startup --------------------------------
(***************************************************************************)
(* How the service brings its database up to date before it serves         *)
(* requests (lifespan in main.py, alembic/versions): it creates the tables *)
(* that are missing, ensures the unique index of the tickets, stamps a     *)
(* database without history as the baseline and runs all pending           *)
(* migrations, in one transaction.  Each step commits by itself, and the   *)
(* process may die between two of them or fail and be started again;       *)
(* meanwhile somebody may run `alembic downgrade`.                         *)
(*                                                                         *)
(* A database is a record of what the steps look at.  A step that fails    *)
(* rolls back: it is a set without successors.                             *)
(***************************************************************************)
EXTENDS Integers

CONSTANTS
  Products,                  \* MENU of precios_desde_backend
  MaxFaults, MaxDowngrades   \* bounds of the model

ASSUME StartupConstants == MaxFaults \in Nat /\ MaxDowngrades \in Nat

VARIABLES at, db, faults, downgrades

vars == <<at, db, faults, downgrades>>

\* db52472f73cb = 1, eeb8bf47283c = 2, a1b2c3d4e5f6 = 3, b7c1d2e3f4a5 = 4 and
\* c8d2e3f4a5b6 = 5; 0 is an empty alembic_version, -1 that there is none.
NoHistory == -1
Baseline == 1
Head == 5

Steps == {"down", "index", "history", "upgrade", "ready"}
DB == [version : NoHistory..Head,
       base : {"absent", "original", "aligned"},       \* users, movies, purchases, tickets
       labels : {"none", "lower", "upper"},            \* the values of their enums
       food : BOOLEAN,                                 \* concession_items, purchase_lines
       menu : [Products -> {"absent", "listed", "own"}],     \* price: as in MENU, or not
       index : {"none", "old", "new"},                 \* old: cancelled tickets count
       ticket : {"absent", "wrong", "right"},          \* CINE-8AZAXK7: seat and function
       purchase : {"absent", "wrong", "right"},        \* its purchase: date and function
       neighbour : {"none", "cancelled", "valid"},     \* another ticket for that seat
       seats : {"single", "resold", "double"}]         \* for some other seat there are a
                                 \* cancelled ticket and a valid one, or two valid ones

NoFood == [p \in Products |-> "absent"]
Empty == [version |-> 0, base |-> "absent", labels |-> "none", food |-> FALSE, menu |-> NoFood,
          index |-> "none", ticket |-> "absent", purchase |-> "absent",
          neighbour |-> "none", seats |-> "single"]

\* What has been done in a database of each version.
Earned(d) ==
  /\ d.version >= 1 => d.base # "absent"
  /\ d.version >= 2 => d.base = "aligned"
  /\ d.version >= 3 => d.ticket # "wrong" /\ d.purchase # "wrong"
  /\ d.version >= 4 => d.food /\ \A p \in Products : d.menu[p] # "absent"
  /\ d.version >= 5 => d.index = "new"

\* Databases that an earlier release may have left: PostgreSQL keeps the index and
\* the foreign keys, and the service wrote the enums of its models.
Legal(d) ==
  /\ d.base = "absent" => d = [Empty EXCEPT !.version = d.version]
  /\ d.base # "absent" => d.labels = "upper"
  /\ d.food \/ d.menu = NoFood
  /\ d.index = "old" => d.seats = "single" /\ (d.ticket = "right" => d.neighbour = "none")
  /\ d.index = "new" => d.seats # "double" /\ (d.ticket = "right" => d.neighbour # "valid")
Databases == {d \in DB : Legal(d) /\ Earned(d)}

\* Two valid tickets for one seat: no unique index can be built.
Doubled(d) == d.seats = "double" \/ (d.ticket = "right" /\ d.neighbour = "valid")
\* A cancelled ticket and another one for a seat.
Resold(d) == d.seats = "resold" \/ (d.ticket = "right" /\ d.neighbour = "cancelled")
-------------------------------------------------------------------------------
(* The migrations: the databases each may lead to, none when it raises.    *)

\* initial_schema: only what is missing, with lower-case labels.
InitialSchema(d) ==
  {IF d.base # "absent" THEN d
   ELSE [d EXCEPT !.base = "original", !.labels = IF @ = "none" THEN "lower" ELSE @]}

SchemaAlign(d) == {[d EXCEPT !.base = "aligned"]}

\* fix_historical_general_seats.
SeatOnly(row) == IF row = "wrong" THEN "half" ELSE row      \* mutant: without showtime_id
Corrected(row) == IF row = "wrong" THEN "right" ELSE row
Insistent(d) ==                        \* mutant: raises without the ticket
  IF d.neighbour # "none" \/ d.ticket = "absent" THEN {}
  ELSE {[d EXCEPT !.ticket = Corrected(@), !.purchase = Corrected(@)]}
FixSeats(d) ==
  IF d.neighbour # "none" THEN {}
  ELSE {[d EXCEPT !.ticket = Corrected(@), !.purchase = Corrected(@)]}

\* precios_desde_backend: INSERT ... ON CONFLICT DO NOTHING.
Overwritten(menu) == [p \in Products |-> "listed"]       \* mutant: DO UPDATE
Seeded(menu) == [p \in Products |-> IF menu[p] = "absent" THEN "listed" ELSE menu[p]]
BackendPrices(d) == {[d EXCEPT !.food = TRUE, !.menu = Seeded(@)]}

\* The index is built with the label 'CANCELLED'.
IndexBuilds(d) == d.labels = "upper" /\ ~Doubled(d)

\* sillas_reembolsadas_se_revenden: the index is dropped and built again.
KeptIndex(d) == {[d EXCEPT !.index = IF @ = "none" THEN "new" ELSE @]}   \* mutant
ResellSeats(d) == IF IndexBuilds(d) THEN {[d EXCEPT !.index = "new"]} ELSE {}

Migrate(r, d) ==
  IF d.version >= r THEN {d}
  ELSE {[e EXCEPT !.version = r] :
          e \in CASE r = 1 -> InitialSchema(d)
                  [] r = 2 -> SchemaAlign(d)
                  [] r = 3 -> FixSeats(d)
                  [] r = 4 -> BackendPrices(d)
                  [] r = 5 -> ResellSeats(d)}

\* alembic upgrade head.
Upgraded(d) ==
  LET Then(r, ds) == UNION {Migrate(r, e) : e \in ds}
  IN  Then(5, Then(4, Then(3, Then(2, Then(1, {d})))))

\* The way back, revision by revision.  Resold seats do not fit the old index, films
\* without genre or rating not the original columns (nothing is changed then), and
\* the first tables are not dropped while the lines of purchases refer to them.
Reverted(row) == IF row = "right" THEN "wrong" ELSE row
WithOldIndex(d) == IF Resold(d) THEN {} ELSE {[d EXCEPT !.version = 4, !.index = "old"]}
WithoutFood(d)  == {[d EXCEPT !.version = 3, !.food = FALSE, !.menu = NoFood]}
WithOldSeats(d) == {[d EXCEPT !.version = 2, !.ticket = Reverted(@), !.purchase = Reverted(@)]}
WithOldColumns(d) == {[d EXCEPT !.version = 1, !.base = "original"], d}
Dropped(d) == IF d.food THEN {} ELSE {Empty}

\* alembic downgrade by one: the databases it may lead to.
Downgraded(d) ==
  CASE d.version = 5 -> WithOldIndex(d)
    [] d.version = 4 -> WithoutFood(d)
    [] d.version = 3 -> WithOldSeats(d)
    [] d.version = 2 -> WithOldColumns(d)
    [] d.version = 1 -> Dropped(d)
    [] OTHER -> {}
-------------------------------------------------------------------------------
(* The steps of lifespan.                                                  *)

To(step, ds) == at' = step /\ db' \in ds /\ UNCHANGED <<faults, downgrades>>

\* A step raises: nothing is stored and the process ends.
Fails == at' = "down" /\ UNCHANGED <<db, faults, downgrades>>

\* Base.metadata.create_all: missing tables as the models have them.
CreateAll ==
  /\ at = "down"
  /\ To("index", {IF db.base # "absent" THEN [db EXCEPT !.food = TRUE]
                  ELSE [db EXCEPT !.food = TRUE, !.base = "aligned", !.index = "new",
                                  !.labels = IF @ = "none" THEN "upper" ELSE @]})

\* CREATE UNIQUE INDEX IF NOT EXISTS.
EnsureIndex ==
  /\ at = "index"
  /\ \/ db.index # "none" /\ To("history", {db})
     \/ db.index = "none" /\ IndexBuilds(db) /\ To("history", {[db EXCEPT !.index = "new"]})
     \/ db.index = "none" /\ ~IndexBuilds(db) /\ Fails

\* Mutant: stamped as up to date, as initial_schema advises for such databases.
StampedHead(d) == IF d.version = NoHistory THEN [d EXCEPT !.version = Head] ELSE d
Stamped(d) == IF d.version = NoHistory THEN [d EXCEPT !.version = Baseline] ELSE d

Stamp == at = "history" /\ To("upgrade", {Stamped(db)})

Upgrade ==
  /\ at = "upgrade"
  /\ \/ To("ready", Upgraded(db))
     \/ Upgraded(db) = {} /\ Fails

\* The process dies, or is stopped.
Crash ==
  /\ at # "down" /\ faults < MaxFaults
  /\ at' = "down" /\ faults' = faults + 1 /\ UNCHANGED <<db, downgrades>>

\* alembic downgrade -1, by hand.
Downgrade ==
  /\ at = "down" /\ downgrades < MaxDowngrades
  /\ db' \in Downgraded(db) /\ downgrades' = downgrades + 1 /\ UNCHANGED <<at, faults>>

\* What may become of the rows while requests are served: a refunded seat is sold
\* again, the seat of the historical ticket is sold or given back where that
\* ticket does not exist, and a product gets a price of its own.
Serve ==
  /\ at = "ready"
  /\ To("ready",
        {[db EXCEPT !.seats = "resold"]}
        \cup {[db EXCEPT !.neighbour = s] :
                s \in {x \in {"valid", "cancelled"} : db.ticket = "absent"}}
        \cup {[db EXCEPT !.menu[p] = "own"] : p \in Products})

Init == at = "down" /\ db \in Databases /\ faults = 0 /\ downgrades = 0

Next == CreateAll \/ EnsureIndex \/ Stamp \/ Upgrade \/ Crash \/ Downgrade \/ Serve

Spec == Init /\ [][Next]_vars

\* The platform starts the service again whenever it ends.
FairSpec == Spec /\ WF_vars(CreateAll) /\ WF_vars(EnsureIndex) /\ WF_vars(Stamp) /\ WF_vars(Upgrade)
-------------------------------------------------------------------------------
TypeOK ==
  /\ at \in Steps /\ db \in DB
  /\ faults \in 0..MaxFaults /\ downgrades \in 0..MaxDowngrades

\* alembic_version tells the truth at every moment a start can be cut off, from
\* whatever database it began: what a revision does is there once it is recorded,
\* so that no migration is skipped that is still needed.
VersionIsEarned == Earned(db)

\* Requests are served only by a database that is up to date: all tables as the
\* models have them, the index that lets a refunded seat be sold again and keeps
\* two people from one seat, a menu, and the historical ticket corrected.
ReadyIsSound ==
  at = "ready" => /\ db.version = Head /\ Earned(db) /\ db.labels = "upper"
                  /\ ~Doubled(db)

\* Starting again never resets the price of a product (only a downgrade, which
\* drops the table, does).
OwnPricesKept ==
  [][\A p \in Products : db.menu[p] = "own" /\ db'.food => db'.menu[p] = "own"]_vars

\* The service gets ready in the end however often its start was cut off, except
\* with two valid tickets for a seat, or with any other ticket for the seat of the
\* historical one while that migration is pending.
Obstacle == Doubled(db) \/ (db.version < 3 /\ db.neighbour # "none")
Starts == at = "down" ~> at = "ready" \/ Obstacle
===============================================================================
