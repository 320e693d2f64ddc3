----------------------------- MODULE StartupProofs -----------------------------
(***************************************************************************)
(* Safety of the start of the service for any menu, any number of crashes  *)
(* and of downgrades, from every database an earlier release may have      *)
(* left.                                                                   *)
(***************************************************************************)
EXTENDS Startup, TLAPS

\* A database with tables: its version is earned, its enums have the labels of the
\* models, and a unique index of the new form rules out two valid tickets.
Sound(d) ==
  /\ d \in DB /\ Earned(d)
  /\ d.base # "absent" /\ d.labels = "upper"
  /\ d.index = "new" => ~Doubled(d)

\* One without tables has nothing else either.
Bare(d) ==
  /\ d \in DB /\ d.base = "absent" /\ d.version <= 0
  /\ d.labels = "none" /\ ~d.food /\ d.ticket = "absent" /\ d.seats = "single"

StartInvariant ==
  /\ TypeOK
  /\ Sound(db) \/ (at = "down" /\ Bare(db))
  /\ at \in {"upgrade", "ready"} => db.version >= 0
  /\ at = "ready" => db.version = Head

Kept(d, e) == \A p \in Products : d.menu[p] = "own" => e.menu[p] = "own"

LEMMA EmptyIsTyped == Empty \in DB
BY DEF Empty, DB, NoFood, NoHistory, Head

\* What a revision promises of the database it leaves, before it is recorded.
Promise(r, d) ==
  /\ r = 2 => d.base = "aligned"
  /\ r = 3 => d.ticket # "wrong" /\ d.purchase # "wrong"
  /\ r = 4 => d.food /\ \A p \in Products : d.menu[p] # "absent"
  /\ r = 5 => d.index = "new"

Revision(r, d) ==
  CASE r = 1 -> InitialSchema(d) [] r = 2 -> SchemaAlign(d) [] r = 3 -> FixSeats(d)
    [] r = 4 -> BackendPrices(d) [] r = 5 -> ResellSeats(d)

\* A revision keeps what the earlier ones promised, and the prices.
LEMMA RevisionSound ==
  ASSUME NEW d, Sound(d), NEW r \in 1..5, NEW x \in Revision(r, d)
  PROVE  Sound(x) /\ Promise(r, x) /\ Kept(d, x) /\ x.version = d.version
<1> USE DEF Sound, Earned, Promise, Kept, Revision
<1>1. CASE r = 1
  BY <1>1 DEF InitialSchema
<1>2. CASE r = 2
  <2>1. x = [d EXCEPT !.base = "aligned"]
    BY <1>2 DEF SchemaAlign
  <2> QED BY <1>2, <2>1 DEF DB, Doubled
<1>3. CASE r = 3
  <2>1. x = [d EXCEPT !.ticket = Corrected(@), !.purchase = Corrected(@)] /\ d.neighbour = "none"
    BY <1>3 DEF FixSeats
  <2>2. /\ Corrected(d.ticket) \in {"absent", "right"}
        /\ Corrected(d.purchase) \in {"absent", "right"}
    BY DEF DB, Corrected
  <2>3. x \in DB
    BY <2>1, <2>2 DEF DB
  <2> QED BY <1>3, <2>1, <2>2, <2>3 DEF DB, Doubled
<1>4. CASE r = 4
  <2>1. x = [d EXCEPT !.food = TRUE, !.menu = Seeded(@)]
    BY <1>4 DEF BackendPrices
  <2>2. /\ Seeded(d.menu) \in [Products -> {"absent", "listed", "own"}]
        /\ \A p \in Products : /\ Seeded(d.menu)[p] # "absent"
                               /\ d.menu[p] = "own" => Seeded(d.menu)[p] = "own"
    BY DEF DB, Seeded
  <2>3. x \in DB
    BY <2>1, <2>2 DEF DB
  <2> QED BY <1>4, <2>1, <2>2, <2>3 DEF DB, Doubled
<1>5. CASE r = 5
  <2>1. x = [d EXCEPT !.index = "new"] /\ IndexBuilds(d)
    BY <1>5 DEF ResellSeats
  <2> QED BY <1>5, <2>1 DEF DB, Doubled, IndexBuilds
<1> QED BY <1>1, <1>2, <1>3, <1>4, <1>5

\* One migration, if it does not raise: it is recorded once it is done.
LEMMA MigrationSound ==
  ASSUME NEW r \in 1..5, NEW d, Sound(d), d.version >= r - 1, NEW e \in Migrate(r, d)
  PROVE  Sound(e) /\ e.version >= r /\ Kept(d, e)
<1>1. d \in DB /\ d.version \in Int
  BY DEF Sound, DB, NoHistory, Head
<1>2. CASE d.version >= r
  BY <1>2 DEF Migrate, Kept
<1>3. CASE ~(d.version >= r)
  <2>1. PICK x \in Revision(r, d) : e = [x EXCEPT !.version = r]
    BY <1>3 DEF Migrate, Revision
  <2>2. Sound(x) /\ Promise(r, x) /\ Kept(d, x) /\ x.version = r - 1
    BY <1>1, <1>3, RevisionSound
  <2>3. e \in DB
    BY <2>1, <2>2 DEF Sound, DB, NoHistory, Head
  <2> QED BY <2>1, <2>2, <2>3 DEF Sound, Earned, Promise, Kept, DB, Doubled
<1> QED BY <1>2, <1>3

\* All of them, as long as none raises.
LEMMA UpgradeSound ==
  ASSUME NEW d, Sound(d), d.version >= 0, NEW e \in Upgraded(d)
  PROVE  Sound(e) /\ e.version = Head /\ Kept(d, e)
<1>1. PICK d4 \in UNION {Migrate(4, x) :
                       x \in UNION {Migrate(3, y) :
                         y \in UNION {Migrate(2, z) : z \in UNION {Migrate(1, w) : w \in {d}}}}} :
         e \in Migrate(5, d4)
  BY DEF Upgraded
<1>2. PICK d3 \in UNION {Migrate(3, y) :
                       y \in UNION {Migrate(2, z) : z \in UNION {Migrate(1, w) : w \in {d}}}} :
         d4 \in Migrate(4, d3)
  BY <1>1
<1>3. PICK d2 \in UNION {Migrate(2, z) : z \in UNION {Migrate(1, w) : w \in {d}}} :
         d3 \in Migrate(3, d2)
  BY <1>2
<1>4. PICK d1 \in Migrate(1, d) : d2 \in Migrate(2, d1)
  BY <1>3
<1>5. Sound(d1) /\ d1.version >= 1 /\ Kept(d, d1)
  BY <1>4, MigrationSound
<1>6. Sound(d2) /\ d2.version >= 2 /\ Kept(d1, d2)
  BY <1>4, <1>5, MigrationSound
<1>7. Sound(d3) /\ d3.version >= 3 /\ Kept(d2, d3)
  BY <1>3, <1>6, MigrationSound
<1>8. Sound(d4) /\ d4.version >= 4 /\ Kept(d3, d4)
  BY <1>2, <1>7, MigrationSound
<1>9. Sound(e) /\ e.version >= 5 /\ Kept(d4, e)
  BY <1>1, <1>8, MigrationSound
<1>10. e.version = Head
  BY <1>9 DEF Sound, DB, NoHistory, Head
<1> QED BY <1>5, <1>6, <1>7, <1>8, <1>9, <1>10 DEF Kept

\* A downgrade leaves a sound database or an empty one, and drops the prices only
\* with their table.
LEMMA DowngradeSound ==
  ASSUME NEW d, Sound(d) \/ Bare(d), NEW e \in Downgraded(d)
  PROVE  /\ e \in DB /\ (Sound(e) \/ Bare(e))
         /\ e.food => Kept(d, e)
<1>1. ASSUME Bare(d) PROVE FALSE
  BY <1>1 DEF Bare, Downgraded
<1>2. d \in DB /\ Sound(d)
  BY <1>1 DEF Sound
<1> USE DEF Sound, Earned, Kept, NoHistory, Head
<1>3. ASSUME NEW v \in 0..5 PROVE [d EXCEPT !.version = v] \in DB
  BY <1>2 DEF DB
<1>4. CASE d.version = 5
  <2> DEFINE x == [d EXCEPT !.version = 4]
  <2>1. e = [x EXCEPT !.index = "old"] /\ x \in DB
    BY <1>3, <1>4 DEF Downgraded, WithOldIndex
  <2>2. e \in DB
    BY <2>1 DEF DB
  <2> QED BY <1>2, <1>4, <2>1, <2>2 DEF DB
<1>5. CASE d.version = 4
  <2> DEFINE x == [d EXCEPT !.version = 3]
             y == [x EXCEPT !.food = FALSE]
  <2>1. e = [y EXCEPT !.menu = NoFood] /\ x \in DB
    BY <1>3, <1>5 DEF Downgraded, WithoutFood
  <2>2. y \in DB
    BY <2>1 DEF DB
  <2>3. e \in DB /\ ~e.food
    BY <2>1, <2>2 DEF DB, NoFood
  <2> QED BY <1>2, <1>5, <2>1, <2>2, <2>3 DEF DB, Doubled
<1>6. CASE d.version = 3
  <2> DEFINE x == [d EXCEPT !.version = 2]
             y == [x EXCEPT !.ticket = Reverted(@)]
  <2>1. e = [y EXCEPT !.purchase = Reverted(@)] /\ x \in DB
    BY <1>3, <1>6 DEF Downgraded, WithOldSeats
  <2>2. y \in DB /\ y.ticket # "right"
    BY <2>1 DEF DB, Reverted
  <2>3. Reverted(y.purchase) \in {"absent", "wrong"}
    BY <2>2 DEF DB, Reverted
  <2>4. e \in DB
    <3>1. e = [y EXCEPT !.purchase = Reverted(y.purchase)]
      BY <2>1
    <3>2. \A w \in {"absent", "wrong"} : [y EXCEPT !.purchase = w] \in DB
      <4> HIDE DEF y
      <4> QED BY <2>2 DEF DB
    <3> QED BY <2>3, <3>1, <3>2
  <2>5. e.ticket # "right"
    BY <2>1, <2>2 DEF DB
  <2> HIDE DEF y
  <2> QED BY <1>2, <1>6, <2>1, <2>2, <2>3, <2>4, <2>5 DEF DB, Doubled, y
<1>7. CASE d.version = 2
  <2> DEFINE x == [d EXCEPT !.version = 1]
  <2>1. x \in DB /\ (e = [x EXCEPT !.base = "original"] \/ e = d)
    BY <1>3, <1>7 DEF Downgraded, WithOldColumns
  <2>2. CASE e = d
    BY <1>2, <2>2
  <2>3. CASE e = [x EXCEPT !.base = "original"]
    <3>1. e \in DB
      BY <2>1, <2>3 DEF DB
    <3> QED BY <1>2, <1>7, <2>1, <2>3, <3>1 DEF DB, Doubled
  <2> QED BY <2>1, <2>2, <2>3
<1>8. CASE d.version = 1
  <2>1. e = Empty
    BY <1>8 DEF Downgraded, Dropped
  <2>2. ~Empty.food
    BY Zenon DEF Empty
  <2>3. Bare(Empty)
    BY <2>2, EmptyIsTyped DEF Empty, Bare
  <2> QED BY <2>1, <2>2, <2>3, EmptyIsTyped
<1> QED BY <1>2, <1>3, <1>4, <1>5, <1>6, <1>7, <1>8 DEF Downgraded

\* create_all on an empty database makes a sound one.
LEMMA CreatedSound ==
  ASSUME Sound(db) \/ Bare(db), CreateAll
  PROVE  Sound(db') /\ db'.version = db.version /\ Kept(db, db')
<1>1. CASE db.base # "absent"
  <2>1. db' = [db EXCEPT !.food = TRUE] /\ Sound(db)
    BY <1>1 DEF CreateAll, To, Bare
  <2> QED BY <2>1 DEF Sound, Earned, DB, Doubled, Kept
<1>2. CASE db.base = "absent"
  <2> DEFINE x == [db EXCEPT !.food = TRUE]
             y == [x EXCEPT !.base = "aligned"]
             z == [y EXCEPT !.index = "new"]
  <2>1. Bare(db) /\ db' = [z EXCEPT !.labels = "upper"]
    BY <1>2 DEF CreateAll, To, Sound, Bare
  <2>2. x \in DB
    BY <2>1 DEF Bare, DB
  <2>3. y \in DB
    BY <2>2 DEF DB
  <2>4. z \in DB
    BY <2>3 DEF DB
  <2>5. db' \in DB
    BY <2>1, <2>4 DEF DB
  <2> QED BY <2>1, <2>5 DEF Bare, Sound, Earned, DB, Doubled, Kept, NoHistory, Head
<1> QED BY <1>1, <1>2

\* Requests may be served only from a sound database, and keep it so.
LEMMA ServedSound ==
  ASSUME Sound(db), Serve
  PROVE  Sound(db') /\ db'.version = db.version /\ Kept(db, db')
<1>1. CASE db' = [db EXCEPT !.seats = "resold"]
  BY <1>1 DEF Sound, Earned, DB, Doubled, Kept
<1>2. ASSUME NEW s \in {"valid", "cancelled"}, db.ticket = "absent",
             db' = [db EXCEPT !.neighbour = s]
      PROVE  Sound(db') /\ db'.version = db.version /\ Kept(db, db')
  BY <1>2 DEF Sound, Earned, DB, Doubled, Kept
<1>3. ASSUME NEW p \in Products, db' = [db EXCEPT !.menu[p] = "own"]
      PROVE  Sound(db') /\ db'.version = db.version /\ Kept(db, db')
  <2>1. db' \in DB
    BY <1>3 DEF Sound, DB
  <2>2. \A q \in Products : db'.menu[q] = IF q = p THEN "own" ELSE db.menu[q]
    BY <1>3 DEF Sound, DB
  <2> QED BY <1>3, <2>1, <2>2 DEF Sound, Earned, DB, Doubled, Kept
<1> QED BY <1>1, <1>2, <1>3 DEF Serve, To

\* Every step keeps the invariant, and the prices unless the table is dropped.
LEMMA NextKeeps ==
  ASSUME StartInvariant, [Next]_vars
  PROVE  StartInvariant' /\ (db'.food => Kept(db, db'))
<1> USE DEF StartInvariant, TypeOK, Steps
<1>0. faults \in Nat /\ downgrades \in Nat /\ MaxFaults \in Nat /\ MaxDowngrades \in Nat
  BY StartupConstants
<1>a. ASSUME UNCHANGED db PROVE Kept(db, db')
  BY <1>a DEF Kept
<1>b. ASSUME Fails, at # "down" PROVE StartInvariant' /\ Kept(db, db')
  BY <1>a, <1>b DEF Fails
<1>1. CASE CreateAll
  BY <1>1, CreatedSound DEF CreateAll, To, Sound
<1>2. CASE EnsureIndex
  <2>1. CASE Fails
    BY <1>2, <1>b, <2>1 DEF EnsureIndex
  <2>2. CASE To("history", {db})
    BY <1>2, <1>a, <2>2 DEF EnsureIndex, To
  <2>3. CASE IndexBuilds(db) /\ To("history", {[db EXCEPT !.index = "new"]})
    <3>1. Sound(db) /\ db' = [db EXCEPT !.index = "new"] /\ ~Doubled(db)
      BY <1>2, <2>3 DEF EnsureIndex, To, IndexBuilds
    <3>2. db' \in DB
      BY <3>1 DEF Sound, DB
    <3>3. Sound(db') /\ Kept(db, db')
      BY <3>1, <3>2 DEF Sound, Earned, DB, Doubled, Kept
    <3> QED BY <1>2, <2>3, <3>2, <3>3 DEF EnsureIndex, To
  <2> QED BY <1>2, <2>1, <2>2, <2>3 DEF EnsureIndex
<1>3. CASE Stamp
  <2>1. Sound(db) /\ db' = Stamped(db)
    BY <1>3 DEF Stamp, To
  <2>2. CASE db.version = NoHistory
    <3>1. db' = [db EXCEPT !.version = Baseline]
      BY <2>1, <2>2 DEF Stamped
    <3>2. db' \in DB /\ db'.version = 1
      BY <2>1, <3>1 DEF Sound, DB, NoHistory, Baseline, Head
    <3>3. Sound(db') /\ Kept(db, db')
      BY <2>1, <3>1, <3>2 DEF Sound, Earned, DB, Doubled, Kept
    <3> QED BY <1>3, <3>2, <3>3 DEF Stamp, To
  <2>3. CASE db.version # NoHistory
    <3>1. db' = db /\ db.version >= 0
      BY <2>1, <2>3 DEF Stamped, Sound, DB, NoHistory, Head
    <3> QED BY <1>3, <1>a, <2>1, <3>1 DEF Stamp, To
  <2> QED BY <2>2, <2>3
<1>4. CASE Upgrade
  <2>1. CASE Fails
    BY <1>4, <1>b, <2>1 DEF Upgrade
  <2>2. CASE To("ready", Upgraded(db))
    <3>1. Sound(db) /\ db.version >= 0 /\ db' \in Upgraded(db)
      BY <1>4, <2>2 DEF Upgrade, To
    <3>2. Sound(db') /\ db'.version = Head /\ Kept(db, db')
      BY <3>1, UpgradeSound
    <3> QED BY <2>2, <3>2 DEF To, Sound, Head
  <2> QED BY <1>4, <2>1, <2>2 DEF Upgrade
<1>5. CASE Crash
  BY <1>0, <1>5, <1>a DEF Crash
<1>6. CASE Downgrade
  <2>1. db' \in DB /\ (Sound(db') \/ Bare(db')) /\ (db'.food => Kept(db, db'))
    BY <1>6, DowngradeSound DEF Downgrade
  <2>2. at' = "down" /\ faults' = faults /\ downgrades' \in 0..MaxDowngrades
    BY <1>0, <1>6 DEF Downgrade
  <2> QED BY <2>1, <2>2
<1>7. CASE Serve
  <2>1. Sound(db) /\ at = "ready"
    BY <1>7 DEF Serve
  <2>2. Sound(db') /\ db'.version = Head /\ Kept(db, db')
    BY <1>7, <2>1, ServedSound
  <2> QED BY <1>7, <2>2 DEF Serve, To, Sound, Head
<1>8. CASE UNCHANGED vars
  BY <1>8, <1>a DEF vars
<1> QED BY <1>1, <1>2, <1>3, <1>4, <1>5, <1>6, <1>7, <1>8 DEF Next

LEMMA InitSound == Init => StartInvariant
<1> SUFFICES ASSUME Init PROVE StartInvariant
  OBVIOUS
<1>1. at = "down" /\ db \in DB /\ Legal(db) /\ Earned(db) /\ faults = 0 /\ downgrades = 0
  BY DEF Init, Databases
<1>2. TypeOK
  BY <1>1, StartupConstants DEF TypeOK, Steps
<1>3. CASE db.base # "absent"
  BY <1>1, <1>2, <1>3 DEF StartInvariant, Sound, Legal, Doubled, DB
<1>4. CASE db.base = "absent"
  <2>1. db = [Empty EXCEPT !.version = db.version] /\ ~(db.version >= 1)
    BY <1>1, <1>4 DEF Legal, Earned
  <2>2. db.labels = "none" /\ db.ticket = "absent" /\ db.seats = "single"
    BY <2>1 DEF Empty
  <2>3. ~db.food
    BY <2>1, Zenon DEF Empty
  <2>4. Bare(db)
    BY <1>1, <1>4, <2>1, <2>2, <2>3 DEF Bare, DB, NoHistory, Head
  <2> QED BY <1>1, <1>2, <2>4 DEF StartInvariant
<1> QED BY <1>3, <1>4

LEMMA InvariantHolds == Spec => []StartInvariant
<1>1. StartInvariant /\ [Next]_vars => StartInvariant'
  BY NextKeeps
<1> QED BY InitSound, <1>1, PTL DEF Spec

\* Each value stays in its type, whatever database the start finds.
THEOREM TypeCorrect == Spec => []TypeOK
<1>1. StartInvariant => TypeOK
  BY DEF StartInvariant
<1> QED BY <1>1, InvariantHolds, PTL

\* The recorded revision never promises more than has been done.
THEOREM VersionIsTrue == Spec => []VersionIsEarned
<1>1. ASSUME StartInvariant PROVE VersionIsEarned
  BY <1>1 DEF StartInvariant, VersionIsEarned, Sound, Bare, Earned, DB, NoHistory, Head
<1> QED BY <1>1, InvariantHolds, PTL

\* No request is served by a database that lacks something.
THEOREM ServesSound == Spec => []ReadyIsSound
<1>1. ASSUME StartInvariant PROVE ReadyIsSound
  BY <1>1 DEF StartInvariant, ReadyIsSound, Sound, Earned, Head
<1> QED BY <1>1, InvariantHolds, PTL

\* A product's own price survives every start.
THEOREM KeepsPrices == Spec => OwnPricesKept
<1> DEFINE Keeps == \A p \in Products : db.menu[p] = "own" /\ db'.food => db'.menu[p] = "own"
<1>1. StartInvariant /\ [Next]_vars => Keeps
  BY NextKeeps DEF Kept
<1> QED BY <1>1, InvariantHolds, PTL DEF Spec, OwnPricesKept
===============================================================================
