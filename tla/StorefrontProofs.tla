---------------------------- MODULE StorefrontProofs ----------------------------
(***************************************************************************)
(* The storefront for any users, films, orders, seats, products, prices,   *)
(* events and faults.  The copies of users and films: deactivation is      *)
(* final, and a copy whose events were all read and applied is what its    *)
(* owner has.  The prices: quotes and bills are what a customer works out. *)
(* The reports: they tell the same story.  The tickets of a film: those    *)
(* left and those sold account for all that it began with.                 *)
(***************************************************************************)
EXTENDS Storefront, SumTheorems, TLAPS

\* A film that is being sold has a row.
FilmExists == \A o \in Orders : status[o] # "none" \/ request[o] # NoRequest => Film(o).state # "none"

\* Purchases and requests are those of Orders.
SaleDomains == DOMAIN status = Orders /\ DOMAIN request = Orders

CopyInvariant == ReplicaTypes /\ FilmExists /\ SaleDomains

CopyTypes ==
  /\ users \in [Users -> UserRows \cup {NoUser}]
  /\ movies \in [Movies -> MovieRows \cup {NoMovie}]

\* The films that have rows keep them.
Kept == \A m \in Movies : movies[m].state # "none" => movies'[m].state # "none"

-------------------------------------------------------------------------------
(* The handlers.                                                           *)

LEMMA EventTypes ==
  ASSUME ReplicaTypes, NEW t \in Topics, offset[t] < Len(log[t])
  PROVE  Coming(t) \in EventsOf(t)
<1>1. offset[t] \in Nat /\ Len(log[t]) \in Nat
  BY DEF ReplicaTypes
<1>2. offset[t] + 1 \in 1..Len(log[t])
  BY <1>1
<1> QED BY <1>2 DEF ReplicaTypes, Coming

LEMMA RegisteredTypes ==
  ASSUME CopyTypes, NEW e \in EventsOf("user.registered"), UserRegistered(e)
  PROVE  CopyTypes' /\ UNCHANGED movies
<1>1. e.of \in Users /\ e.data \in Profiles
  BY DEF EventsOf
<1>2. StateAfterRegistered(users[e.of]) \in States
  BY <1>1 DEF CopyTypes, UserRows, NoUser, StateAfterRegistered, States
<1> QED BY <1>1, <1>2 DEF CopyTypes, UserRegistered, UserRows

LEMMA UserDeactivatedTypes ==
  ASSUME CopyTypes, NEW e \in EventsOf("user.deactivated"), UserDeactivated(e)
  PROVE  CopyTypes' /\ UNCHANGED movies
<1>1. e.of \in Users
  BY DEF EventsOf
<1> QED BY <1>1 DEF CopyTypes, UserDeactivated, UserRows, NoUser, States, copyVars

LEMMA CreatedTypes ==
  ASSUME CopyTypes, NEW e \in EventsOf("movie.created"), MovieCreated(e)
  PROVE  CopyTypes' /\ UNCHANGED users /\ Kept
<1>1. e.of \in Movies /\ e.data.price \in Prices /\ e.data.stock \in Nat
  BY ReplicaConstants DEF EventsOf, Fields
<1> QED BY <1>1 DEF CopyTypes, MovieCreated, MovieRows, States, Kept

LEMMA UpdatedTypes ==
  ASSUME CopyTypes, NEW e \in EventsOf("movie.updated"), MovieUpdated(e)
  PROVE  CopyTypes' /\ UNCHANGED users /\ Kept
<1>1. /\ e.of \in Movies
      /\ e.data.price \in Prices \cup {Nothing} /\ e.data.stock \in Nat \cup {Nothing}
  BY ReplicaConstants DEF EventsOf, Fields
<1>2. CASE UNCHANGED copyVars
  BY <1>2 DEF CopyTypes, copyVars, Kept
<1>3. CASE /\ movies[e.of].state # "none" /\ UNCHANGED users
           /\ movies' = [movies EXCEPT ![e.of] = SetFields(movies[e.of], e.data)]
  <2>1. movies[e.of] \in MovieRows
    BY <1>1, <1>3 DEF CopyTypes, NoMovie
  <2>2. /\ SetFields(movies[e.of], e.data) \in MovieRows
        /\ SetFields(movies[e.of], e.data).state = movies[e.of].state
    BY <1>1, <2>1 DEF SetFields, MovieRows
  <2> QED BY <1>1, <1>3, <2>2 DEF CopyTypes, Kept
<1> QED BY <1>2, <1>3 DEF MovieUpdated

LEMMA MovieDeactivatedTypes ==
  ASSUME CopyTypes, NEW e \in EventsOf("movie.deactivated"), MovieDeactivated(e)
  PROVE  CopyTypes' /\ UNCHANGED users /\ Kept
<1>1. e.of \in Movies
  BY DEF EventsOf
<1> QED BY <1>1 DEF CopyTypes, MovieDeactivated, MovieRows, NoMovie, States, copyVars, Kept

\* Whatever event is handled, and whatever it changes.
LEMMA HandleTypes ==
  ASSUME ReplicaTypes, NEW t \in Topics, Handle(t)
  PROVE  CopyTypes' /\ Kept /\ missed' \subseteq Users \cup Movies
<1>1. CopyTypes /\ Coming(t) \in EventsOf(t)
  BY EventTypes DEF Handle, ReplicaTypes, CopyTypes
<1>2. Coming(t).of \in Users \cup Movies
  BY <1>1 DEF EventsOf, Topics
<1>3. missed' \subseteq Users \cup Movies
  BY <1>2 DEF Handle, UserRegistered, UserDeactivated, MovieCreated, MovieUpdated,
     MovieDeactivated, ReplicaTypes
<1>4. ASSUME UNCHANGED movies PROVE Kept
  BY <1>4 DEF Kept
<1>5. CASE t = "user.registered"
  <2>1. UserRegistered(Coming(t)) /\ Coming(t) \in EventsOf("user.registered")
    BY <1>1, <1>5 DEF Handle
  <2> QED BY <1>1, <1>3, <1>4, <2>1, RegisteredTypes
<1>6. CASE t = "user.deactivated"
  <2>1. UserDeactivated(Coming(t)) /\ Coming(t) \in EventsOf("user.deactivated")
    BY <1>1, <1>6 DEF Handle
  <2> QED BY <1>1, <1>3, <1>4, <2>1, UserDeactivatedTypes
<1>7. CASE t = "movie.created"
  <2>1. MovieCreated(Coming(t)) /\ Coming(t) \in EventsOf("movie.created")
    BY <1>1, <1>7 DEF Handle
  <2> QED BY <1>1, <1>3, <2>1, CreatedTypes
<1>8. CASE t = "movie.updated"
  <2>1. MovieUpdated(Coming(t)) /\ Coming(t) \in EventsOf("movie.updated")
    BY <1>1, <1>8 DEF Handle
  <2> QED BY <1>1, <1>3, <2>1, UpdatedTypes
<1>9. CASE t = "movie.deactivated"
  <2>1. MovieDeactivated(Coming(t)) /\ Coming(t) \in EventsOf("movie.deactivated")
    BY <1>1, <1>9 DEF Handle
  <2> QED BY <1>1, <1>3, <2>1, MovieDeactivatedTypes
<1> QED BY <1>5, <1>6, <1>7, <1>8, <1>9 DEF Topics

\* Sending puts a well-formed event at the end of its topic.
LogTypes ==
  /\ log \in [Topics -> Seq(UNION {EventsOf(t) : t \in Topics})]
  /\ \A t \in Topics : \A i \in 1..Len(log[t]) : log[t][i] \in EventsOf(t)

LEMMA SendTypes ==
  ASSUME ReplicaTypes, NEW t \in Topics, NEW of, NEW data, Send(t, of, data),
         [of |-> of, data |-> data] \in EventsOf(t)
  PROVE  LogTypes' /\ (\A s \in Topics : Read(s) <= Len(log[s]))'
<1> DEFINE e == [of |-> of, data |-> data]
           All == UNION {EventsOf(s) : s \in Topics}
<1>1. log' = [log EXCEPT ![t] = Append(log[t], e)] /\ UNCHANGED <<offset, inhand>>
  BY DEF Send, readVars
<1>2. log[t] \in Seq(All) /\ e \in All
  BY DEF ReplicaTypes
<1> HIDE DEF e, All
<1>3. /\ Append(log[t], e) \in Seq(All) /\ Len(Append(log[t], e)) = Len(log[t]) + 1
      /\ \A i \in 1..Len(log[t]) : Append(log[t], e)[i] = log[t][i]
      /\ Append(log[t], e)[Len(log[t]) + 1] = e
  BY <1>2
<1>4. log' \in [Topics -> Seq(All)]
  BY <1>1, <1>3 DEF ReplicaTypes, All
<1>5. ASSUME NEW s \in Topics
      PROVE  /\ \A i \in 1..Len(log'[s]) : log'[s][i] \in EventsOf(s)
             /\ Len(log[s]) <= Len(log'[s])
  <2>1. Len(log[s]) \in Nat /\ \A i \in 1..Len(log[s]) : log[s][i] \in EventsOf(s)
    BY DEF ReplicaTypes
  <2>2. CASE s # t
    BY <1>1, <2>1, <2>2 DEF ReplicaTypes
  <2>3. CASE s = t
    <3>1. log'[s] = Append(log[t], e)
      BY <1>1, <2>3 DEF ReplicaTypes
    <3>2. \A i \in 1..(Len(log[t]) + 1) : i \in 1..Len(log[t]) \/ i = Len(log[t]) + 1
      BY <2>1, <2>3
    <3> QED BY <1>3, <2>1, <2>3, <3>1, <3>2 DEF e
  <2> QED BY <2>2, <2>3
<1>6. \A s \in Topics : Read(s)' = Read(s) /\ Read(s) <= Len(log[s]) /\ Read(s) \in Nat
                        /\ Len(log[s]) \in Nat /\ Len(log'[s]) \in Nat
  BY <1>1, <1>4 DEF ReplicaTypes, Read
<1>7. \A s \in Topics : Read(s)' <= Len(log'[s])
  BY <1>5, <1>6
<1> QED BY <1>4, <1>5, <1>7 DEF LogTypes, All

\* The steps of the owners of the data: one event each, and their own record.
OwnerTypes ==
  account \in [Users -> UserRows \cup {NoUser}] /\ film \in [Movies -> FilmData \cup {NoFilm}]

Owners ==
  \/ \E u \in Users : DeactivateUser(u) \/ \E p \in Profiles : Register(u, p)
  \/ \E m \in Movies :
       \/ DeactivateMovie(m)
       \/ \E price \in Prices, stock \in Figures : CreateMovie(m, price, stock)
       \/ \E price \in Prices \cup {Nothing}, stock \in Figures \cup {Nothing} :
            UpdateMovie(m, price, stock)

LEMMA OwnerSteps ==
  ASSUME ReplicaTypes, Owners
  PROVE  ReplicaTypes' /\ UNCHANGED <<users, movies>>
<1> DEFINE Sends == \E t \in Topics : \E of, data :
                      Send(t, of, data) /\ [of |-> of, data |-> data] \in EventsOf(t)
<1>0. OwnerTypes
  BY DEF OwnerTypes, ReplicaTypes
<1>1. ASSUME NEW u \in Users, DeactivateUser(u) PROVE Sends /\ OwnerTypes'
  <2>1. Sends
    BY <1>1 DEF DeactivateUser, EventsOf, Topics
  <2>2. account[u] \in UserRows
    BY <1>0, <1>1 DEF DeactivateUser, OwnerTypes, NoUser
  <2>3. [account[u] EXCEPT !.state = "inactive"] \in UserRows
    BY <2>2 DEF UserRows, States
  <2>4. account' = [account EXCEPT ![u] = [account[u] EXCEPT !.state = "inactive"]] /\ UNCHANGED film
    BY <1>1 DEF DeactivateUser
  <2> QED BY <1>0, <2>1, <2>3, <2>4 DEF OwnerTypes
<1>2. ASSUME NEW u \in Users, NEW p \in Profiles, Register(u, p) PROVE Sends /\ OwnerTypes'
  BY <1>0, <1>2 DEF Register, EventsOf, Topics, OwnerTypes, UserRows, States
<1>3. ASSUME NEW m \in Movies, DeactivateMovie(m) PROVE Sends /\ OwnerTypes'
  <2>1. Sends
    BY <1>3 DEF DeactivateMovie, EventsOf, Topics
  <2>2. film[m] \in FilmData
    BY <1>0, <1>3 DEF DeactivateMovie, OwnerTypes, NoFilm
  <2>3. [film[m] EXCEPT !.state = "inactive"] \in FilmData
    BY <2>2 DEF FilmData, States
  <2>4. film' = [film EXCEPT ![m] = [film[m] EXCEPT !.state = "inactive"]] /\ UNCHANGED account
    BY <1>3 DEF DeactivateMovie
  <2> QED BY <1>0, <2>1, <2>3, <2>4 DEF OwnerTypes
<1>4. ASSUME NEW m \in Movies, NEW price \in Prices, NEW stock \in Figures,
             CreateMovie(m, price, stock)
      PROVE  Sends /\ OwnerTypes'
  BY <1>0, <1>4 DEF CreateMovie, EventsOf, Topics, Fields, OwnerTypes, FilmData, States
<1>5. ASSUME NEW m \in Movies, NEW price \in Prices \cup {Nothing},
             NEW stock \in Figures \cup {Nothing}, UpdateMovie(m, price, stock)
      PROVE  Sends /\ OwnerTypes'
  <2>1. Sends
    BY <1>5 DEF UpdateMovie, EventsOf, Topics, Fields
  <2>2. film[m] \in FilmData
    BY <1>0, <1>5 DEF UpdateMovie, OwnerTypes, NoFilm
  <2>3. price # Nothing => [film[m] EXCEPT !.price = price] \in FilmData
    BY <2>2 DEF FilmData
  <2>4. /\ UNCHANGED account
        /\ film' = IF price = Nothing THEN film
                   ELSE [film EXCEPT ![m] = [film[m] EXCEPT !.price = price]]
    BY <1>5 DEF UpdateMovie
  <2> QED BY <1>0, <2>1, <2>3, <2>4 DEF OwnerTypes
<1>6. Sends /\ OwnerTypes'
  BY <1>1, <1>2, <1>3, <1>4, <1>5 DEF Owners
<1>7. UNCHANGED <<users, movies, offset, inhand, missed, faults>>
  BY <1>6 DEF Send, readVars, copyVars
<1>8. LogTypes' /\ (\A s \in Topics : Read(s) <= Len(log[s]))'
  BY <1>6, SendTypes
<1> QED BY <1>6, <1>7, <1>8 DEF ReplicaTypes, OwnerTypes, LogTypes

\* A topic is not read beyond its end.
LEMMA HandleReads ==
  ASSUME ReplicaTypes, NEW t \in Topics, inhand = NoTopic, offset[t] < Len(log[t]),
         inhand' = t, UNCHANGED <<log, offset>>
  PROVE  \A s \in Topics : /\ Read(s)' = (IF s = t THEN Read(s) + 1 ELSE Read(s))
                           /\ Read(s)' <= Len(log[s]) /\ Read(s) = offset[s]
BY ReplicaConstants DEF ReplicaTypes, Read

LEMMA FaultType ==
  ASSUME ReplicaTypes, Fault
  PROVE  faults' \in 0..MaxFaults
BY ReplicaConstants DEF ReplicaTypes, Fault

\* The consumer's steps.
Consumer ==
  \/ \E t \in Topics : Handle(t) \/ HandlerFails(t)
  \/ CommitOffset \/ ConsumerRestarts

LEMMA ConsumerSteps ==
  ASSUME ReplicaTypes, Consumer
  PROVE  ReplicaTypes' /\ Kept
<1>1. ASSUME NEW t \in Topics, Handle(t) PROVE ReplicaTypes' /\ Kept
  <2>1. UNCHANGED <<account, film, log, offset, faults>> /\ inhand' = t
    BY <1>1 DEF Handle
  <2>2. (\A s \in Topics : Read(s) <= Len(log[s]))'
    BY <1>1, <2>1, HandleReads DEF Handle
  <2> QED BY <1>1, <2>1, <2>2, HandleTypes DEF ReplicaTypes, CopyTypes
<1>2. ASSUME NEW t \in Topics, HandlerFails(t) PROVE ReplicaTypes' /\ Kept
  <2>1. UNCHANGED <<account, film, log, offset, users, movies>> /\ inhand' = t
    BY <1>2 DEF HandlerFails, copyVars
  <2>2. (\A s \in Topics : Read(s) <= Len(log[s]))'
    BY <1>2, <2>1, HandleReads DEF HandlerFails
  <2>3. Coming(t).of \in Users \cup Movies
    BY <1>2, EventTypes DEF HandlerFails, EventsOf, Topics
  <2>4. faults' \in 0..MaxFaults
    BY <1>2, FaultType DEF HandlerFails
  <2> QED BY <1>2, <2>1, <2>2, <2>3, <2>4 DEF ReplicaTypes, HandlerFails, Kept
<1>3. CASE CommitOffset
  <2>1. /\ UNCHANGED <<account, film, log, users, movies, missed, faults>>
        /\ inhand \in Topics /\ inhand' = NoTopic
        /\ offset' = [offset EXCEPT ![inhand] = @ + 1]
    BY <1>3 DEF CommitOffset, copyVars, ReplicaTypes
  <2>2. offset' \in [Topics -> Nat] /\ \A s \in Topics : Read(s)' = Read(s)
    BY <2>1, ReplicaConstants DEF ReplicaTypes, Read
  <2> QED BY <2>1, <2>2 DEF ReplicaTypes, Kept
<1>4. CASE ConsumerRestarts
  <2>1. UNCHANGED <<account, film, log, users, movies, offset, missed>> /\ inhand' = NoTopic
    BY <1>4 DEF ConsumerRestarts, copyVars
  <2>2. \A s \in Topics : Read(s)' <= Len(log[s])
    BY <2>1, ReplicaConstants DEF ReplicaTypes, Read
  <2>3. faults' \in 0..MaxFaults
    BY <1>4, FaultType DEF ConsumerRestarts
  <2> QED BY <2>1, <2>2, <2>3 DEF ReplicaTypes, Kept
<1> QED BY <1>1, <1>2, <1>3, <1>4 DEF Consumer
-------------------------------------------------------------------------------
(* Purchases write available_tickets, and nothing else of the copies.      *)

StockOnly ==
  /\ UNCHANGED <<account, film, log, users, offset, inhand, missed>>
  /\ \A m \in Movies : movies'[m].state = movies[m].state /\ movies'[m].price = movies[m].price

Requests == \E o \in Orders : Begin(o) \/ FunctionKnown(o) \/ SeatsHeld(o) \/ Refuse(o)
Decisions == \E o \in Orders : Confirm(o) \/ Cancel(o) \/ GiveBack(o)

LEMMA RequestSteps ==
  ASSUME CopyInvariant, Requests
  PROVE  CopyInvariant' /\ UNCHANGED replicaVars
<1>1. PICK o \in Orders : Begin(o) \/ FunctionKnown(o) \/ SeatsHeld(o) \/ Refuse(o)
  BY DEF Requests
<1>2. UNCHANGED replicaVars
  BY <1>1 DEF Begin, FunctionKnown, SeatsHeld, Refuse
<1>3. Film(o).state # "none"
  <2>1. CASE Begin(o)
    BY <2>1 DEF Begin
  <2>2. CASE FunctionKnown(o) \/ SeatsHeld(o) \/ Refuse(o)
    <3>1. request[o] # NoRequest
      BY <2>2 DEF FunctionKnown, SeatsHeld, Refuse, NoRequest
    <3> QED BY <3>1 DEF CopyInvariant, FilmExists
  <2> QED BY <1>1, <2>1, <2>2
<1>4. /\ \A p \in Orders \ {o} : status'[p] = status[p] /\ request'[p] = request[p]
      /\ SaleDomains'
  <2> DEFINE Mine == /\ UNCHANGED status \/ \E x : status' = [status EXCEPT ![o] = x]
                     /\ UNCHANGED request \/ \E x : request' = [request EXCEPT ![o] = x]
  <2>1. ASSUME NEW price, Insert(o, price) PROVE Mine
    BY <2>1 DEF Insert
  <2>2. ASSUME NEW copy, NEW known, Price(o, copy, known) PROVE Mine
    BY <2>1, <2>2 DEF Price
  <2>3. Mine
    BY <1>1, <2>1, <2>2 DEF Begin, FunctionKnown, SeatsHeld, Refuse
  <2> QED BY <2>3 DEF CopyInvariant, SaleDomains
<1>5. ReplicaTypes'
  BY <1>2 DEF CopyInvariant, ReplicaTypes, replicaVars, readVars, copyVars, Read
<1>6. UNCHANGED movies
  BY <1>2 DEF replicaVars, readVars, copyVars
<1>7. FilmExists'
  BY <1>3, <1>4, <1>6 DEF CopyInvariant, FilmExists, Film
<1> QED BY <1>2, <1>4, <1>5, <1>7 DEF CopyInvariant

LEMMA StockKeepsTypes ==
  ASSUME CopyInvariant, NEW m \in Movies, movies[m].state # "none", NEW n \in Nat, Stock(m, n),
         UNCHANGED <<account, film, log, users, offset, inhand, missed, faults>>
  PROVE  ReplicaTypes' /\ StockOnly
<1>1. movies' = [movies EXCEPT ![m] = [movies[m] EXCEPT !.stock = n]] /\ movies[m] \in MovieRows
  BY DEF Stock, CopyInvariant, ReplicaTypes, NoMovie
<1>2. /\ [movies[m] EXCEPT !.stock = n] \in MovieRows
      /\ [movies[m] EXCEPT !.stock = n].state = movies[m].state
      /\ [movies[m] EXCEPT !.stock = n].price = movies[m].price
  BY <1>1 DEF MovieRows
<1>3. movies' \in [Movies -> MovieRows \cup {NoMovie}]
  BY <1>1, <1>2 DEF CopyInvariant, ReplicaTypes
<1>4. StockOnly
  BY <1>1, <1>2 DEF StockOnly, CopyInvariant, ReplicaTypes
<1> QED BY <1>3, <1>4 DEF CopyInvariant, ReplicaTypes, Read

LEMMA DecisionSteps ==
  ASSUME CopyInvariant, Decisions
  PROVE  CopyInvariant' /\ StockOnly
<1>1. PICK o \in Orders : Confirm(o) \/ Cancel(o) \/ GiveBack(o)
  BY DEF Decisions
<1>2. PICK from \in {"pending", "confirmed"} : \E to : Decide(o, from, to)
  BY <1>1 DEF Confirm, Cancel, GiveBack
<1>3. /\ status[o] # "none" /\ UNCHANGED request
      /\ UNCHANGED <<account, film, log, users, offset, inhand, missed, faults>>
      /\ \A p \in Orders \ {o} : status'[p] = status[p]
      /\ SaleDomains'
  BY <1>2 DEF Decide, CopyInvariant, SaleDomains
<1>4. MovieOf[o] \in Movies /\ Film(o).state # "none" /\ QuantityOf[o] \in Nat
  BY <1>3, StorefrontConstants DEF CopyInvariant, FilmExists
<1>5. Film(o).stock \in Nat
  BY <1>4 DEF CopyInvariant, ReplicaTypes, Film, MovieRows, NoMovie
<1>6. UNCHANGED movies \/ \E n \in Nat : Stock(MovieOf[o], n)
  <2>1. MaxZero(Film(o).stock - QuantityOf[o]) \in Nat /\ Film(o).stock + QuantityOf[o] \in Nat
    BY <1>4, <1>5 DEF MaxZero
  <2> QED BY <1>1, <2>1 DEF Confirm, Cancel, GiveBack
<1>7. ReplicaTypes' /\ StockOnly
  <2>1. CASE UNCHANGED movies
    BY <1>3, <2>1 DEF CopyInvariant, ReplicaTypes, StockOnly, Read
  <2>2. CASE \E n \in Nat : Stock(MovieOf[o], n)
    BY <1>3, <1>4, <2>2, StockKeepsTypes DEF Film
  <2> QED BY <1>6, <2>1, <2>2
<1>8. \A p \in Orders : Film(p)'.state = Film(p).state
  BY <1>7, StorefrontConstants DEF StockOnly, Film
<1>9. FilmExists'
  BY <1>3, <1>4, <1>8 DEF CopyInvariant, FilmExists
<1> QED BY <1>3, <1>7, <1>9 DEF CopyInvariant

LEMMA CrashSteps ==
  ASSUME CopyInvariant, Crash
  PROVE  CopyInvariant'
<1>1. /\ UNCHANGED <<status, account, film, log, users, movies, offset, missed>>
      /\ inhand' = NoTopic /\ request' = [o \in Orders |-> NoRequest]
  BY DEF Crash, copyVars
<1>2. \A s \in Topics : Read(s)' <= Len(log[s])
  BY <1>1, ReplicaConstants DEF CopyInvariant, ReplicaTypes, Read
<1>3. faults' \in 0..MaxFaults
  BY FaultType DEF Crash, CopyInvariant
<1> QED BY <1>1, <1>2, <1>3 DEF CopyInvariant, ReplicaTypes, FilmExists, SaleDomains, Film

LEMMA ReplicateSteps ==
  ASSUME CopyInvariant, Replicate
  PROVE  CopyInvariant'
<1>1. UNCHANGED saleVars /\ (Owners \/ Consumer)
  BY DEF Replicate, ReplicaNext, Owners, Consumer
<1>2. ReplicaTypes' /\ Kept
  BY <1>1, OwnerSteps, ConsumerSteps DEF CopyInvariant, Kept
<1>3. FilmExists'
  BY <1>1, <1>2, StorefrontConstants DEF CopyInvariant, FilmExists, Film, Kept, saleVars
<1>4. SaleDomains'
  BY <1>1 DEF CopyInvariant, SaleDomains, saleVars
<1> QED BY <1>2, <1>3, <1>4 DEF CopyInvariant

LEMMA NextTypes == CopyInvariant /\ [Next]_vars => CopyInvariant'
<1> SUFFICES ASSUME CopyInvariant, [Next]_vars PROVE CopyInvariant'
  OBVIOUS
<1>1. CASE UNCHANGED vars
  BY <1>1 DEF vars, replicaVars, saleVars, readVars, copyVars, CopyInvariant, ReplicaTypes, Read,
     FilmExists, SaleDomains, Film
<1> QED BY <1>1, RequestSteps, DecisionSteps, CrashSteps, ReplicateSteps DEF Next, Requests, Decisions

LEMMA InitTypes == Init => CopyInvariant
BY ReplicaConstants DEF Init, ReplicaInit, CopyInvariant, ReplicaTypes, Read, FilmExists, SaleDomains, Topics

LEMMA TypesHold == Spec => []CopyInvariant
BY InitTypes, NextTypes, PTL DEF Spec
-------------------------------------------------------------------------------
(* Deactivation is final.                                                  *)

StayOut ==
  /\ \A u \in Users : users[u].state = "inactive" => users'[u].state = "inactive"
  /\ \A m \in Movies : movies[m].state = "inactive" => movies'[m].state = "inactive"

LEMMA HandleKeepsOut ==
  ASSUME ReplicaTypes, NEW t \in Topics, Handle(t)
  PROVE  StayOut
<1>1. /\ CopyTypes /\ Coming(t) \in EventsOf(t)
      /\ UNCHANGED users => \A u \in Users : users[u].state = users'[u].state
      /\ UNCHANGED movies => \A m \in Movies : movies[m].state = movies'[m].state
  BY EventTypes DEF Handle, ReplicaTypes, CopyTypes
<1>2. CASE t \in {"user.registered", "user.deactivated"}
  <2>1. UNCHANGED movies
    BY <1>2 DEF Handle, UserRegistered, UserDeactivated, copyVars
  <2>2. \A u \in Users : users[u].state = "inactive" => users'[u].state = "inactive"
    BY <1>1, <1>2 DEF Handle, UserRegistered, UserDeactivated, copyVars, StateAfterRegistered,
       CopyTypes, UserRows, NoUser
  <2> QED BY <1>1, <2>1, <2>2 DEF StayOut
<1>3. CASE t \in {"movie.created", "movie.updated", "movie.deactivated"}
  <2>1. UNCHANGED users
    BY <1>3 DEF Handle, MovieCreated, MovieUpdated, MovieDeactivated, copyVars
  <2>2. \A m \in Movies : movies[m].state = "inactive" => movies'[m].state = "inactive"
    <3>1. CASE t = "movie.updated"
      <4>1. \A row, data : row \in MovieRows => SetFields(row, data).state = row.state
        BY DEF SetFields, MovieRows
      <4>2. \/ UNCHANGED movies
            \/ movies' = [movies EXCEPT ![Coming(t).of] = SetFields(@, Coming(t).data)]
        BY <3>1 DEF Handle, MovieUpdated, copyVars
      <4> QED BY <1>1, <4>1, <4>2 DEF CopyTypes, NoMovie
    <3>2. CASE t \in {"movie.created", "movie.deactivated"}
      BY <1>1, <3>2 DEF Handle, MovieCreated, MovieDeactivated, copyVars, CopyTypes, MovieRows, NoMovie
    <3> QED BY <1>3, <3>1, <3>2
  <2> QED BY <1>1, <2>1, <2>2 DEF StayOut
<1> QED BY <1>2, <1>3 DEF Topics

LEMMA NextKeepsOut ==
  ASSUME CopyInvariant, [Next]_vars
  PROVE  StayOut
<1>1. CASE UNCHANGED copyVars
  BY <1>1 DEF StayOut, copyVars
<1>2. CASE Decisions
  BY <1>2, DecisionSteps DEF StockOnly, StayOut
<1>3. CASE \E t \in Topics : Handle(t)
  BY <1>3, HandleKeepsOut DEF CopyInvariant
<1>4. CASE \/ \E t \in Topics : HandlerFails(t)
           \/ CommitOffset \/ ConsumerRestarts \/ Crash \/ UNCHANGED vars
  BY <1>1, <1>4 DEF HandlerFails, CommitOffset, ConsumerRestarts, Crash, vars, replicaVars, readVars
<1>5. CASE Owners
  BY <1>1, <1>5, OwnerSteps DEF CopyInvariant, copyVars
<1>6. CASE Requests
  BY <1>1, <1>6, RequestSteps DEF replicaVars, readVars
<1> QED BY <1>2, <1>3, <1>4, <1>5, <1>6
        DEF Next, Replicate, ReplicaNext, Requests, Decisions, Owners

\* A user or a film that was deactivated here stays so: no event that comes
\* again, late or in another order brings it back, and no purchase does.
THEOREM DeactivationIsFinal == Spec => DeactivatedStaysOut
<1>1. CopyInvariant /\ [Next]_vars => StayOut
  BY NextKeepsOut
<1> QED BY <1>1, TypesHold, PTL DEF Spec, DeactivatedStaysOut, StayOut
-------------------------------------------------------------------------------
(* The copies agree with their owners.  For each user and each film: where *)
(* its events are in the topics, and what those that were read have done.  *)

Events(t, x) == {i \in 1..Len(log[t]) : log[t][i].of = x}
Ahead(t, x) == {i \in Events(t, x) : i > Read(t)}
Priced(m) == {i \in Events("movie.updated", m) : log["movie.updated"][i].data.price # Nothing}

UserHistory(u) ==
  LET R == Events("user.registered", u)
      D == Events("user.deactivated", u)
  IN  /\ account[u].state = "none" <=> R = {}
      /\ account[u].state = "inactive" <=> D # {}
      /\ \A i \in R : (\A j \in R : j <= i) => log["user.registered"][i].data = account[u].profile
      /\ users[u].state # "none" => R # {}

UserCopied(u) ==
  LET R == Events("user.registered", u)
      D == Events("user.deactivated", u)
  IN  /\ users[u].state = "none" =>
           R \subseteq Ahead("user.registered", u) /\ D \subseteq Ahead("user.deactivated", u)
      /\ users[u].state # "none" =>
           /\ Ahead("user.registered", u) = {} => users[u].profile = account[u].profile
           /\ Ahead("user.deactivated", u) = {} => users[u].state = account[u].state

FilmHistory(m) ==
  LET C == Events("movie.created", m)
      X == Events("movie.deactivated", m)
      P == Priced(m)
  IN  /\ film[m].state = "none" <=> C = {}
      /\ film[m].state = "inactive" <=> X # {}
      /\ P # {} => C # {}
      /\ P = {} => \A i \in C : log["movie.created"][i].data.price = film[m].price
      /\ \A i \in P : (\A j \in P : j <= i) => log["movie.updated"][i].data.price = film[m].price
      /\ movies[m].state # "none" => C # {}

FilmCopied(m) ==
  LET C == Events("movie.created", m)
      X == Events("movie.deactivated", m)
      P == Priced(m)
  IN  /\ movies[m].state = "none" =>
           /\ C \subseteq Ahead("movie.created", m) /\ X \subseteq Ahead("movie.deactivated", m)
           /\ P \subseteq Ahead("movie.updated", m)
      /\ movies[m].state # "none" =>
           /\ P \cap Ahead("movie.updated", m) = {} => movies[m].price = film[m].price
           /\ Ahead("movie.deactivated", m) = {} => movies[m].state = film[m].state

Copied ==
  /\ \A u \in Users : UserHistory(u) /\ (u \notin missed => UserCopied(u))
  /\ \A m \in Movies : FilmHistory(m) /\ (m \notin missed => FilmCopied(m))

\* A copy with these facts and no event ahead is what its owner has.
LEMMA CopiedIsInSync ==
  ASSUME CopyInvariant, Copied
  PROVE  InSync
<1>1. \A t \in Topics : \A x : NothingUnread(x, {t}) => Ahead(t, x) = {}
  BY DEF NothingUnread, Ahead, Events, Unread, CopyInvariant, ReplicaTypes, Read
<1>2. ASSUME NEW u \in Users \ missed, NothingUnread(u, {"user.registered", "user.deactivated"})
      PROVE  users[u] = account[u]
  <2>1. Ahead("user.registered", u) = {} /\ Ahead("user.deactivated", u) = {}
    BY <1>1, <1>2 DEF Topics, NothingUnread
  <2>2. UserHistory(u) /\ UserCopied(u)
    BY <1>2 DEF Copied
  <2>3. users[u].state = "none" => account[u].state = "none"
    BY <2>1, <2>2 DEF UserHistory, UserCopied
  <2>4. users[u].state # "none" =>
          account[u].state = users[u].state /\ account[u].profile = users[u].profile
    BY <2>1, <2>2 DEF UserHistory, UserCopied
  <2>5. users[u] \in UserRows \cup {NoUser} /\ account[u] \in UserRows \cup {NoUser}
    BY DEF CopyInvariant, ReplicaTypes
  <2> QED BY <2>3, <2>4, <2>5 DEF UserRows, NoUser, States
<1>3. ASSUME NEW m \in Movies \ missed,
             NothingUnread(m, {"movie.created", "movie.updated", "movie.deactivated"})
      PROVE  movies[m].state = film[m].state /\ movies[m].price = film[m].price
  <2>1. /\ Ahead("movie.created", m) = {} /\ Ahead("movie.updated", m) = {}
        /\ Ahead("movie.deactivated", m) = {}
    BY <1>1, <1>3 DEF Topics, NothingUnread
  <2>2. FilmHistory(m) /\ FilmCopied(m)
    BY <1>3 DEF Copied
  <2>3. movies[m].state = "none" => film[m].state = "none"
    BY <2>1, <2>2 DEF FilmHistory, FilmCopied
  <2>4. movies[m].state # "none" =>
          film[m].state = movies[m].state /\ film[m].price = movies[m].price
    BY <2>1, <2>2 DEF FilmHistory, FilmCopied
  <2>5. movies[m] \in MovieRows \cup {NoMovie} /\ film[m] \in FilmData \cup {NoFilm}
    BY DEF CopyInvariant, ReplicaTypes
  <2> QED BY <2>3, <2>4, <2>5 DEF MovieRows, FilmData, NoMovie, NoFilm, States
<1> QED BY <1>2, <1>3 DEF InSync

\* Nothing happened to x: no event of it was sent or read.
Still(x) ==
  /\ \A t \in Topics : Events(t, x)' = Events(t, x)
                       /\ \A i \in Events(t, x) : log'[t][i] = log[t][i]
  /\ x \notin missed' => x \notin missed /\ \A t \in Topics : Ahead(t, x) \subseteq Ahead(t, x)'

LEMMA StillUser ==
  ASSUME NEW u \in Users, UserHistory(u), u \notin missed => UserCopied(u), Still(u),
         users'[u] = users[u], account'[u] = account[u]
  PROVE  UserHistory(u)' /\ (u \notin missed' => UserCopied(u)')
<1>1. UserHistory(u)'
  BY DEF Still, UserHistory, Topics
<1>2. ASSUME u \notin missed' PROVE UserCopied(u)'
  <2>1. UserCopied(u) /\ \A t \in Topics : Ahead(t, u) \subseteq Ahead(t, u)'
    BY <1>2 DEF Still
  <2> QED BY <2>1 DEF Still, UserCopied, Topics
<1> QED BY <1>1, <1>2

LEMMA StillFilm ==
  ASSUME NEW m \in Movies, FilmHistory(m), m \notin missed => FilmCopied(m), Still(m),
         movies'[m].state = movies[m].state, movies'[m].price = movies[m].price,
         film'[m] = film[m]
  PROVE  FilmHistory(m)' /\ (m \notin missed' => FilmCopied(m)')
<1>0. Priced(m)' = Priced(m) /\ \A i \in Priced(m) : i \in Events("movie.updated", m)
  BY DEF Still, Priced, Topics
<1>1. FilmHistory(m)'
  BY <1>0 DEF Still, FilmHistory, Topics
<1>2. ASSUME m \notin missed' PROVE FilmCopied(m)'
  <2>1. FilmCopied(m) /\ \A t \in Topics : Ahead(t, m) \subseteq Ahead(t, m)'
    BY <1>2 DEF Still
  <2> QED BY <1>0, <2>1 DEF Still, FilmCopied, Topics
<1> QED BY <1>1, <1>2
-------------------------------------------------------------------------------
(* What the steps do to events.                                            *)

\* No event is read: those handled may only come again.
LEMMA UnreadStill ==
  ASSUME ReplicaTypes, UNCHANGED <<log, missed>>, \A t \in Topics : Read(t)' <= Read(t),
         ReplicaTypes'
  PROVE  \A x : Still(x)
<1>1. \A t \in Topics : /\ Read(t) \in Int /\ Read(t)' \in Int /\ Len(log[t]) \in Nat
  BY DEF ReplicaTypes, Read
<1>2. \A t \in Topics : \A x : Events(t, x)' = Events(t, x) /\ Events(t, x) \subseteq Int
  BY <1>1 DEF Events
<1>3. \A t \in Topics : \A x : Ahead(t, x) \subseteq Ahead(t, x)'
  BY <1>1, <1>2 DEF Ahead
<1> QED BY <1>2, <1>3 DEF Still

\* The next event of a topic is read.
LEMMA OneRead ==
  ASSUME ReplicaTypes, NEW t \in Topics, inhand = NoTopic, offset[t] < Len(log[t]),
         inhand' = t, UNCHANGED <<log, offset>>
  PROVE  /\ \A s \in Topics : \A x : /\ Events(s, x)' = Events(s, x)
                                     /\ s # t => Ahead(s, x)' = Ahead(s, x)
         /\ \A x : Ahead(t, x)' = Ahead(t, x) \ {offset[t] + 1}
         /\ offset[t] + 1 \in Ahead(t, Coming(t).of)
         /\ \A x : x # Coming(t).of => offset[t] + 1 \notin Events(t, x)
<1>0. \A s \in Topics : offset[s] \in Nat /\ Len(log[s]) \in Nat
  BY DEF ReplicaTypes
<1>1. \A s \in Topics : /\ Read(s)' = (IF s = t THEN Read(s) + 1 ELSE Read(s))
                        /\ Read(s) = offset[s] /\ offset[s] \in Nat /\ Len(log[s]) \in Nat
  BY <1>0, HandleReads
<1>2. \A s \in Topics : \A x : Events(s, x)' = Events(s, x) /\ Events(s, x) \subseteq Int
  BY <1>1 DEF Events
<1>3. \A s \in Topics : \A x : s # t => Ahead(s, x)' = Ahead(s, x)
  BY <1>1, <1>2 DEF Ahead
<1>4. \A x : Ahead(t, x)' = Ahead(t, x) \ {offset[t] + 1}
  BY <1>1, <1>2 DEF Ahead
<1>5. offset[t] + 1 \in Ahead(t, Coming(t).of)
  BY <1>1 DEF Ahead, Events, Coming
<1>6. \A x : x # Coming(t).of => offset[t] + 1 \notin Events(t, x)
  BY DEF Events, Coming
<1> QED BY <1>2, <1>3, <1>4, <1>5, <1>6

LEMMA OthersStill ==
  ASSUME ReplicaTypes, NEW t \in Topics, inhand = NoTopic, offset[t] < Len(log[t]),
         inhand' = t, UNCHANGED <<log, offset>>, missed \subseteq missed',
         NEW x, x # Coming(t).of \/ x \in missed'
  PROVE  Still(x)
<1>1. \A s \in Topics : Events(s, x)' = Events(s, x)
  BY OneRead
<1>2. CASE x \in missed'
  BY <1>1, <1>2 DEF Still
<1>3. CASE x # Coming(t).of
  <2>1. offset[t] + 1 \notin Ahead(t, x)
    BY <1>3, OneRead DEF Ahead
  <2>2. \A s \in Topics : Ahead(s, x) \subseteq Ahead(s, x)'
    BY <2>1, OneRead
  <2> QED BY <1>1, <2>2 DEF Still
<1> QED BY <1>2, <1>3

\* An event is sent: it is the last of its topic, and ahead.
EventSent(t, of, data) ==
  LET n == Len(log[t]) + 1
  IN  /\ \A s \in Topics : \A x : s # t \/ x # of =>
           Events(s, x)' = Events(s, x) /\ Ahead(s, x)' = Ahead(s, x)
      /\ Events(t, of)' = Events(t, of) \cup {n} /\ Ahead(t, of)' = Ahead(t, of) \cup {n}
      /\ \A s \in Topics : \A x : \A i \in Events(s, x) : log'[s][i] = log[s][i]
      /\ log'[t][n].data = data /\ \A x : \A i \in Events(t, x) : i < n
      /\ Events(t, of) \subseteq Int

LEMMA SendFacts ==
  ASSUME ReplicaTypes, NEW t \in Topics, NEW of, NEW data, Send(t, of, data),
         [of |-> of, data |-> data] \in EventsOf(t)
  PROVE  EventSent(t, of, data) /\ UNCHANGED missed
<1> DEFINE e == [of |-> of, data |-> data]
           n == Len(log[t]) + 1
<1>1. log' = [log EXCEPT ![t] = Append(log[t], e)] /\ UNCHANGED <<offset, inhand, missed>>
  BY DEF Send, readVars
<1>2. log[t] \in Seq(UNION {EventsOf(s) : s \in Topics}) /\ Len(log[t]) \in Nat
  BY DEF ReplicaTypes
<1>3. /\ Len(log'[t]) = n /\ log'[t][n] = e
      /\ \A i \in 1..Len(log[t]) : log'[t][i] = log[t][i]
      /\ \A s \in Topics \ {t} : log'[s] = log[s]
  <2> HIDE DEF e
  <2>1. e \in UNION {EventsOf(s) : s \in Topics}
    BY DEF e
  <2> QED BY <1>1, <1>2, <2>1 DEF ReplicaTypes
<1>4. \A s \in Topics : Read(s)' = Read(s) /\ Read(s) \in Nat /\ Read(s) <= Len(log[s])
                        /\ Len(log[s]) \in Nat
  BY <1>1 DEF ReplicaTypes, Read
<1>5. \A s \in Topics : \A x : Events(s, x) \subseteq 1..Len(log[s])
  BY DEF Events
<1>6. \A x : x # of => Events(t, x)' = Events(t, x)
  BY <1>2, <1>3 DEF Events
<1>7. Events(t, of)' = Events(t, of) \cup {n}
  BY <1>2, <1>3 DEF Events
<1>8. \A s \in Topics \ {t} : \A x : Events(s, x)' = Events(s, x)
  BY <1>3 DEF Events
<1>9. \A s \in Topics : \A x : s # t \/ x # of => Ahead(s, x)' = Ahead(s, x)
  BY <1>4, <1>6, <1>8 DEF Ahead
<1>10. Ahead(t, of)' = Ahead(t, of) \cup {n}
  BY <1>4, <1>7 DEF Ahead
<1>11. \A s \in Topics : \A x : \A i \in Events(s, x) : log'[s][i] = log[s][i]
  BY <1>3, <1>5
<1>12. \A x : \A i \in Events(t, x) : i < n /\ i \in Int
  BY <1>2, <1>5
<1>13. log'[t][n].data = data
  BY <1>3
<1>14. Events(t, of) \subseteq Int
  BY <1>12
<1>15. UNCHANGED missed
  BY <1>1
<1>16. \A s \in Topics : \A x : s # t \/ x # of => Events(s, x)' = Events(s, x)
  BY <1>6, <1>8
<1> HIDE DEF e
<1> QED BY <1>7, <1>9, <1>10, <1>11, <1>12, <1>13, <1>14, <1>15, <1>16 DEF EventSent

LEMMA SentStill ==
  ASSUME NEW t \in Topics, NEW of, NEW data, EventSent(t, of, data), UNCHANGED missed,
         NEW x, x # of
  PROVE  Still(x)
BY DEF EventSent, Still
-------------------------------------------------------------------------------
(* Each step keeps the copies in step.                                     *)

UserFacts(u) == UserHistory(u) /\ (u \notin missed => UserCopied(u))
FilmFacts(m) == FilmHistory(m) /\ (m \notin missed => FilmCopied(m))

LEMMA RegisteredFacts ==
  ASSUME ReplicaTypes, Copied, NEW t \in Topics, t = "user.registered", Handle(t),
         NEW u, u = Coming(t).of
  PROVE  u \in Users /\ UserFacts(u)'
<1> DEFINE n == offset[t] + 1
           R == Events(t, u)
           D == Events("user.deactivated", u)
<1>1. /\ u \in Users /\ UserRegistered(Coming(t))
      /\ UNCHANGED <<account, log, missed, offset>> /\ inhand = NoTopic /\ inhand' = t
      /\ offset[t] < Len(log[t])
  BY EventTypes DEF Handle, EventsOf, UserRegistered
<1>2. /\ R' = R /\ D' = D /\ Ahead(t, u)' = Ahead(t, u) \ {n} /\ n \in Ahead(t, u)
      /\ Ahead("user.deactivated", u)' = Ahead("user.deactivated", u)
  BY <1>1, OneRead DEF Topics
<1>3. UserFacts(u)
  BY <1>1 DEF Copied, UserFacts
<1>4. /\ users' = [users EXCEPT ![u] = [state |-> StateAfterRegistered(users[u]),
                                        profile |-> log[t][n].data]]
      /\ users'[u].state = StateAfterRegistered(users[u]) /\ users'[u].profile = log[t][n].data
  BY <1>1 DEF UserRegistered, Coming, ReplicaTypes
<1>5. R # {} /\ n \in R /\ R \subseteq Int
  BY <1>2 DEF Ahead, Events
<1>6. UserHistory(u)'
  BY <1>1, <1>2, <1>3, <1>5 DEF UserFacts, UserHistory
<1>7. ASSUME u \notin missed PROVE UserCopied(u)'
  <2>1. users'[u].state # "none"
    BY <1>4 DEF StateAfterRegistered
  <2>2. ASSUME Ahead(t, u) \ {n} = {} PROVE users'[u].profile = account[u].profile
    <3>1. \A j \in R : j <= n
      BY <1>1, <1>5, <2>2 DEF Ahead, ReplicaTypes, Read
    <3> QED BY <1>1, <1>3, <1>4, <1>5, <3>1 DEF UserFacts, UserHistory
  <2>3. ASSUME Ahead("user.deactivated", u) = {} PROVE users'[u].state = account[u].state
    <3>1. CASE users[u].state # "none"
      BY <1>3, <1>4, <1>7, <2>3, <3>1 DEF UserFacts, UserCopied, StateAfterRegistered
    <3>2. CASE users[u].state = "none"
      <4>1. D = {} /\ users'[u].state = "active"
        BY <1>3, <1>4, <1>7, <2>3, <3>2 DEF UserFacts, UserCopied, StateAfterRegistered
      <4>2. account[u].state \notin {"none", "inactive"}
        BY <1>1, <1>3, <1>5, <4>1 DEF UserFacts, UserHistory
      <4>3. account[u].state \in {"none", "active", "inactive"}
        BY <1>1 DEF ReplicaTypes, UserRows, NoUser, States
      <4> QED BY <4>1, <4>2, <4>3
    <3> QED BY <3>1, <3>2
  <2> QED BY <1>1, <1>2, <2>1, <2>2, <2>3 DEF UserCopied
<1> QED BY <1>1, <1>6, <1>7 DEF UserFacts

LEMMA UserDeactivatedFacts ==
  ASSUME ReplicaTypes, Copied, NEW t \in Topics, t = "user.deactivated", Handle(t),
         NEW u, u = Coming(t).of
  PROVE  u \in Users /\ UserFacts(u)'
<1> DEFINE n == offset[t] + 1
           R == Events("user.registered", u)
           D == Events(t, u)
<1>1. /\ u \in Users /\ UserDeactivated(Coming(t))
      /\ UNCHANGED <<account, log, offset>> /\ inhand = NoTopic /\ inhand' = t
      /\ offset[t] < Len(log[t])
  BY EventTypes DEF Handle, EventsOf, UserDeactivated
<1>2. /\ R' = R /\ D' = D /\ Ahead(t, u)' = Ahead(t, u) \ {n} /\ n \in Ahead(t, u)
      /\ Ahead("user.registered", u)' = Ahead("user.registered", u)
  BY <1>1, OneRead DEF Topics
<1>3. UserFacts(u)
  BY <1>1 DEF Copied, UserFacts
<1>4. D # {} /\ account[u].state = "inactive"
  BY <1>2, <1>3 DEF Ahead, UserFacts, UserHistory
<1>5. CASE users[u].state = "none"
  <2>1. u \in missed' /\ UNCHANGED users
    BY <1>1, <1>5 DEF UserDeactivated, copyVars
  <2> QED BY <1>1, <1>2, <1>3, <2>1 DEF UserFacts, UserHistory
<1>6. CASE users[u].state # "none"
  <2>1. /\ users' = [users EXCEPT ![u] = [users[u] EXCEPT !.state = "inactive"]]
        /\ UNCHANGED missed /\ users[u] \in UserRows
    BY <1>1, <1>6 DEF UserDeactivated, ReplicaTypes, NoUser
  <2>2. users'[u].state = "inactive" /\ users'[u].profile = users[u].profile
    BY <1>1, <2>1 DEF ReplicaTypes, UserRows
  <2>3. UserHistory(u)'
    BY <1>1, <1>2, <1>3, <1>6 DEF UserFacts, UserHistory
  <2>4. ASSUME u \notin missed PROVE UserCopied(u)'
    <3>1. Ahead("user.registered", u) = {} => users[u].profile = account[u].profile
      BY <1>3, <1>6, <2>4 DEF UserFacts, UserCopied
    <3>2. account' = account
      BY <1>1
    <3> QED BY <1>2, <1>4, <2>2, <3>1, <3>2 DEF UserCopied
  <2> QED BY <1>1, <2>1, <2>3, <2>4 DEF UserFacts
<1> QED BY <1>1, <1>5, <1>6

LEMMA CreatedFacts ==
  ASSUME ReplicaTypes, Copied, NEW t \in Topics, t = "movie.created", Handle(t),
         NEW m, m = Coming(t).of
  PROVE  m \in Movies /\ FilmFacts(m)'
<1> DEFINE n == offset[t] + 1
           C == Events(t, m)
<1>1. /\ m \in Movies /\ MovieCreated(Coming(t))
      /\ UNCHANGED <<film, log, missed, offset>> /\ inhand = NoTopic /\ inhand' = t
      /\ offset[t] < Len(log[t])
  BY EventTypes DEF Handle, EventsOf, MovieCreated
<1>2. /\ C' = C /\ n \in C /\ Ahead(t, m)' = Ahead(t, m) \ {n}
      /\ \A s \in Topics \ {t} : Events(s, m)' = Events(s, m) /\ Ahead(s, m)' = Ahead(s, m)
      /\ Priced(m)' = Priced(m)
  BY <1>1, OneRead DEF Ahead, Priced, Topics
<1>3. FilmFacts(m)
  BY <1>1 DEF Copied, FilmFacts
<1>4. CASE movies[m].state # "none"
  <2>1. UNCHANGED movies
    BY <1>1, <1>4 DEF MovieCreated
  <2> QED BY <1>1, <1>2, <1>3, <1>4, <2>1 DEF FilmFacts, FilmHistory, FilmCopied, Topics
<1>5. CASE movies[m].state = "none"
  <2>1. movies'[m].state = "active" /\ movies'[m].price = log[t][n].data.price
    BY <1>1, <1>5 DEF MovieCreated, Coming, ReplicaTypes
  <2>2. FilmHistory(m)'
    BY <1>1, <1>2, <1>3 DEF FilmFacts, FilmHistory, Topics
  <2>3. ASSUME m \notin missed PROVE FilmCopied(m)'
    <3>1. FilmCopied(m) /\ FilmHistory(m)
      BY <1>3, <2>3 DEF FilmFacts
    <3>2. Priced(m) \cap Ahead("movie.updated", m) = {} => log[t][n].data.price = film[m].price
      BY <1>2, <1>5, <3>1 DEF FilmCopied, FilmHistory
    <3>3. Ahead("movie.deactivated", m) = {} => film[m].state = "active"
      <4>1. film[m].state \in {"none", "active", "inactive"}
        BY <1>1 DEF ReplicaTypes, FilmData, NoFilm, States
      <4> QED BY <1>2, <1>5, <3>1, <4>1 DEF FilmCopied, FilmHistory
    <3> QED BY <1>1, <1>2, <2>1, <3>2, <3>3 DEF FilmCopied, Topics
  <2> QED BY <1>1, <2>2, <2>3 DEF FilmFacts
<1> QED BY <1>4, <1>5

LEMMA UpdatedFacts ==
  ASSUME ReplicaTypes, Copied, NEW t \in Topics, t = "movie.updated", Handle(t),
         NEW m, m = Coming(t).of
  PROVE  m \in Movies /\ FilmFacts(m)'
<1> DEFINE n == offset[t] + 1
           P == Priced(m)
           data == log[t][n].data
<1>1. /\ m \in Movies /\ MovieUpdated(Coming(t)) /\ data = Coming(t).data
      /\ UNCHANGED <<film, log, offset>> /\ inhand = NoTopic /\ inhand' = t
      /\ offset[t] < Len(log[t])
  BY EventTypes DEF Handle, EventsOf, MovieUpdated, Coming
<1>2. /\ n \in Events(t, m) /\ Ahead(t, m)' = Ahead(t, m) \ {n} /\ n \in Ahead(t, m)
      /\ \A s \in Topics : Events(s, m)' = Events(s, m)
      /\ \A s \in Topics \ {t} : Ahead(s, m)' = Ahead(s, m)
      /\ P' = P /\ (n \in P <=> data.price # Nothing)
  BY <1>1, OneRead DEF Ahead, Priced, Topics
<1>3. FilmFacts(m) /\ (data.price # Nothing => data # NoFields)
  BY <1>1 DEF Copied, FilmFacts, NoFields
<1>4. CASE data # NoFields /\ movies[m].state = "none"
  <2>1. m \in missed' /\ UNCHANGED movies
    BY <1>1, <1>4 DEF MovieUpdated, copyVars
  <2> QED BY <1>1, <1>2, <1>3, <2>1 DEF FilmFacts, FilmHistory, Topics
<1>5. CASE data = NoFields
  <2>1. UNCHANGED <<movies, missed>> /\ n \notin P
    BY <1>1, <1>2, <1>3, <1>5 DEF MovieUpdated, copyVars
  <2> QED BY <1>1, <1>2, <1>3, <2>1 DEF FilmFacts, FilmHistory, FilmCopied, Topics
<1>6. CASE data # NoFields /\ movies[m].state # "none"
  <2>1. UNCHANGED missed /\ movies' = [movies EXCEPT ![m] = SetFields(movies[m], data)]
    BY <1>1, <1>6 DEF MovieUpdated
  <2>2. movies[m] \in MovieRows
    BY <1>1, <1>6 DEF ReplicaTypes, NoMovie
  <2>3. /\ movies'[m].state = movies[m].state
        /\ movies'[m].price = IF data.price = Nothing THEN movies[m].price ELSE data.price
    <3> HIDE DEF data
    <3> QED BY <1>1, <2>1, <2>2 DEF ReplicaTypes, MovieRows, SetFields
  <2>4. FilmHistory(m)'
    BY <1>1, <1>2, <1>3, <1>6 DEF FilmFacts, FilmHistory, Topics
  <2>5. ASSUME m \notin missed PROVE FilmCopied(m)'
    <3>1. FilmCopied(m) /\ FilmHistory(m)
      BY <1>3, <2>5 DEF FilmFacts
    <3>2. ASSUME P \cap (Ahead(t, m) \ {n}) = {} PROVE movies'[m].price = film[m].price
      <4>1. CASE data.price = Nothing
        BY <1>2, <1>6, <2>3, <3>1, <3>2, <4>1 DEF FilmCopied
      <4>2. CASE data.price # Nothing
        <5>1. \A j \in P : j <= n
          BY <1>1, <3>2 DEF Priced, Ahead, Events, ReplicaTypes, Read
        <5>2. n \in P
          BY <1>2, <4>2
        <5> QED BY <2>3, <3>1, <4>2, <5>1, <5>2 DEF FilmHistory
      <4> QED BY <4>1, <4>2
    <3>3. Ahead("movie.deactivated", m) = {} => movies'[m].state = film[m].state
      BY <1>6, <2>3, <3>1 DEF FilmCopied
    <3> QED BY <1>1, <1>2, <1>6, <2>3, <3>2, <3>3 DEF FilmCopied, Topics
  <2> QED BY <1>1, <2>1, <2>4, <2>5 DEF FilmFacts
<1> QED BY <1>4, <1>5, <1>6

LEMMA MovieDeactivatedFacts ==
  ASSUME ReplicaTypes, Copied, NEW t \in Topics, t = "movie.deactivated", Handle(t),
         NEW m, m = Coming(t).of
  PROVE  m \in Movies /\ FilmFacts(m)'
<1> DEFINE n == offset[t] + 1
<1>1. /\ m \in Movies /\ MovieDeactivated(Coming(t))
      /\ UNCHANGED <<film, log, offset>> /\ inhand = NoTopic /\ inhand' = t
      /\ offset[t] < Len(log[t])
  BY EventTypes DEF Handle, EventsOf, MovieDeactivated
<1>2. /\ n \in Events(t, m) /\ Ahead(t, m)' = Ahead(t, m) \ {n}
      /\ \A s \in Topics : Events(s, m)' = Events(s, m)
      /\ \A s \in Topics \ {t} : Ahead(s, m)' = Ahead(s, m)
      /\ Priced(m)' = Priced(m)
  BY <1>1, OneRead DEF Ahead, Priced, Topics
<1>3. FilmFacts(m) /\ film[m].state = "inactive"
  BY <1>1, <1>2 DEF Copied, FilmFacts, FilmHistory
<1>4. CASE movies[m].state = "none"
  <2>1. m \in missed' /\ UNCHANGED movies
    BY <1>1, <1>4 DEF MovieDeactivated, copyVars
  <2> QED BY <1>1, <1>2, <1>3, <2>1 DEF FilmFacts, FilmHistory, Topics
<1>5. CASE movies[m].state # "none"
  <2>1. /\ movies' = [movies EXCEPT ![m] = [movies[m] EXCEPT !.state = "inactive"]]
        /\ UNCHANGED missed /\ movies[m] \in MovieRows
    BY <1>1, <1>5 DEF MovieDeactivated, ReplicaTypes, NoMovie
  <2>2. movies'[m].state = "inactive" /\ movies'[m].price = movies[m].price
    BY <1>1, <2>1 DEF ReplicaTypes, MovieRows
  <2>3. FilmHistory(m)'
    BY <1>1, <1>2, <1>3, <1>5 DEF FilmFacts, FilmHistory, Topics
  <2>4. ASSUME m \notin missed PROVE FilmCopied(m)'
    <3>1. Priced(m) \cap Ahead("movie.updated", m) = {} => movies[m].price = film[m].price
      BY <1>3, <1>5, <2>4 DEF FilmFacts, FilmCopied
    <3> QED BY <1>1, <1>2, <1>3, <2>2, <3>1 DEF FilmCopied, Topics
  <2> QED BY <1>1, <2>1, <2>3, <2>4 DEF FilmFacts
<1> QED BY <1>4, <1>5

\* The events that are sent: what they say of their subject is what the owner has.
LEMMA RegisterFacts ==
  ASSUME ReplicaTypes, Copied, NEW u \in Users, NEW p \in Profiles, Register(u, p)
  PROVE  EventSent("user.registered", u, p) /\ UNCHANGED missed /\ UserFacts(u)'
<1> DEFINE t == "user.registered"
           n == Len(log[t]) + 1
<1>1. EventSent(t, u, p) /\ UNCHANGED <<missed, users>>
  BY SendFacts DEF Register, EventsOf, Topics, Send, readVars, copyVars
<1>2. account'[u].state = "active" /\ account'[u].profile = p /\ account[u].state # "inactive"
  BY DEF Register, ReplicaTypes
<1>3. UserFacts(u)
  BY DEF Copied, UserFacts
<1>4. /\ Events(t, u)' = Events(t, u) \cup {n} /\ Ahead(t, u)' = Ahead(t, u) \cup {n}
      /\ Events("user.deactivated", u)' = Events("user.deactivated", u)
      /\ Ahead("user.deactivated", u)' = Ahead("user.deactivated", u)
      /\ log'[t][n].data = p /\ \A i \in Events(t, u) : i < n /\ i \in Int
  BY <1>1 DEF EventSent, Topics
<1>5. UserHistory(u)'
  <2>1. \A i \in Events(t, u)' : (\A j \in Events(t, u)' : j <= i) => i = n
    <3>1. n \in Int
      BY DEF ReplicaTypes, Topics
    <3> HIDE DEF n
    <3> QED BY <1>4, <3>1
  <2>2. Events("user.deactivated", u) = {}
    BY <1>2, <1>3 DEF UserFacts, UserHistory
  <2> HIDE DEF n
  <2> QED BY <1>1, <1>2, <1>4, <2>1, <2>2 DEF UserHistory
<1>6. ASSUME u \notin missed PROVE UserCopied(u)'
  <2>1. UserCopied(u) /\ UserHistory(u)
    BY <1>3, <1>6 DEF UserFacts
  <2>2. users[u].state # "none" => account[u].state = "active"
    <3>1. account[u].state \in {"none", "active", "inactive"}
      BY DEF ReplicaTypes, UserRows, NoUser, States
    <3> QED BY <1>2, <2>1, <3>1 DEF UserHistory
  <2>3. users[u].state # "none" /\ Ahead("user.deactivated", u) = {} => users[u].state = "active"
    BY <2>1, <2>2 DEF UserCopied
  <2> HIDE DEF n
  <2> QED BY <1>1, <1>2, <1>4, <2>1, <2>3 DEF UserCopied
<1> QED BY <1>1, <1>5, <1>6 DEF UserFacts

LEMMA DeactivateUserFacts ==
  ASSUME ReplicaTypes, Copied, NEW u \in Users, DeactivateUser(u)
  PROVE  EventSent("user.deactivated", u, Nothing) /\ UNCHANGED missed /\ UserFacts(u)'
<1> DEFINE t == "user.deactivated"
           n == Len(log[t]) + 1
<1>1. EventSent(t, u, Nothing) /\ UNCHANGED <<missed, users>>
  BY SendFacts DEF DeactivateUser, EventsOf, Topics, Send, readVars, copyVars
<1>2. account[u] \in UserRows
  BY DEF DeactivateUser, ReplicaTypes, NoUser
<1>3. /\ account'[u].state = "inactive" /\ account'[u].profile = account[u].profile
      /\ account[u].state = "active"
  BY <1>2 DEF DeactivateUser, ReplicaTypes, UserRows
<1>4. UserFacts(u)
  BY DEF Copied, UserFacts
<1>5. /\ Events(t, u)' # {} /\ Ahead(t, u)' # {} /\ Ahead(t, u) \subseteq Ahead(t, u)'
      /\ Events(t, u)' = Events(t, u) \cup {n} /\ Ahead(t, u)' = Ahead(t, u) \cup {n}
      /\ Events("user.registered", u)' = Events("user.registered", u)
      /\ Ahead("user.registered", u)' = Ahead("user.registered", u)
      /\ \A i \in Events("user.registered", u) :
           log'["user.registered"][i] = log["user.registered"][i]
  BY <1>1 DEF EventSent, Topics
<1>6. UserHistory(u)'
  BY <1>1, <1>3, <1>4, <1>5 DEF UserFacts, UserHistory
<1>7. u \notin missed => UserCopied(u)'
  BY <1>1, <1>3, <1>4, <1>5 DEF UserFacts, UserCopied
<1> QED BY <1>1, <1>6, <1>7 DEF UserFacts

LEMMA DeactivateMovieFacts ==
  ASSUME ReplicaTypes, Copied, NEW m \in Movies, DeactivateMovie(m)
  PROVE  EventSent("movie.deactivated", m, Nothing) /\ UNCHANGED missed /\ FilmFacts(m)'
<1> DEFINE t == "movie.deactivated"
           n == Len(log[t]) + 1
<1>1. EventSent(t, m, Nothing) /\ UNCHANGED <<missed, movies>>
  BY SendFacts DEF DeactivateMovie, EventsOf, Topics, Send, readVars, copyVars
<1>2. film[m] \in FilmData
  BY DEF DeactivateMovie, ReplicaTypes, NoFilm
<1>3. /\ film'[m].state = "inactive" /\ film'[m].price = film[m].price /\ film[m].state = "active"
  BY <1>2 DEF DeactivateMovie, ReplicaTypes, FilmData
<1>4. FilmFacts(m)
  BY DEF Copied, FilmFacts
<1>5. /\ Events(t, m)' # {} /\ Ahead(t, m)' # {}
      /\ Events(t, m)' = Events(t, m) \cup {n} /\ Ahead(t, m)' = Ahead(t, m) \cup {n}
      /\ \A s \in Topics \ {t} :
           Events(s, m)' = Events(s, m) /\ Ahead(s, m)' = Ahead(s, m)
      /\ \A s \in Topics : \A i \in Events(s, m) : log'[s][i] = log[s][i]
  BY <1>1 DEF EventSent, Topics
<1>6. Priced(m)' = Priced(m) /\ Priced(m) \subseteq Events("movie.updated", m)
  BY <1>5 DEF Priced, Topics
<1>7. FilmHistory(m)'
  BY <1>1, <1>3, <1>4, <1>5, <1>6 DEF FilmFacts, FilmHistory, Topics
<1>8. m \notin missed => FilmCopied(m)'
  BY <1>1, <1>3, <1>4, <1>5, <1>6 DEF FilmFacts, FilmCopied, Topics
<1> QED BY <1>1, <1>7, <1>8 DEF FilmFacts

LEMMA CreateMovieFacts ==
  ASSUME ReplicaTypes, Copied, NEW m \in Movies, NEW price \in Prices, NEW stock \in Figures,
         CreateMovie(m, price, stock)
  PROVE  /\ EventSent("movie.created", m, [price |-> price, stock |-> stock])
         /\ UNCHANGED missed /\ FilmFacts(m)'
<1> DEFINE t == "movie.created"
           n == Len(log[t]) + 1
           d == [price |-> price, stock |-> stock]
<1>1. EventSent(t, m, d) /\ UNCHANGED <<missed, movies>>
  BY SendFacts DEF CreateMovie, EventsOf, Fields, Topics, Send, readVars, copyVars
<1>2. film'[m].state = "active" /\ film'[m].price = price /\ film[m].state = "none"
  BY DEF CreateMovie, ReplicaTypes
<1>3. FilmFacts(m)
  BY DEF Copied, FilmFacts
<1>4. /\ Events(t, m)' = Events(t, m) \cup {n} /\ Ahead(t, m)' = Ahead(t, m) \cup {n}
      /\ \A s \in Topics \ {t} :
           Events(s, m)' = Events(s, m) /\ Ahead(s, m)' = Ahead(s, m)
      /\ \A s \in Topics : \A i \in Events(s, m) : log'[s][i] = log[s][i]
      /\ log'[t][n].data.price = price
  BY <1>1 DEF EventSent, Topics
<1>5. /\ Events(t, m) = {} /\ Priced(m) = {} /\ Events("movie.deactivated", m) = {}
      /\ movies[m].state = "none"
  BY <1>2, <1>3 DEF FilmFacts, FilmHistory
<1>6. Priced(m)' = {}
  BY <1>4, <1>5 DEF Priced, Topics
<1> HIDE DEF n
<1>7. FilmHistory(m)'
  BY <1>1, <1>2, <1>4, <1>5, <1>6 DEF FilmHistory, Topics
<1>8. m \notin missed => FilmCopied(m)'
  BY <1>1, <1>4, <1>5, <1>6, <1>3 DEF FilmFacts, FilmCopied, Topics
<1> QED BY <1>1, <1>7, <1>8 DEF FilmFacts

LEMMA UpdateMovieFacts ==
  ASSUME ReplicaTypes, Copied, NEW m \in Movies, NEW price \in Prices \cup {Nothing},
         NEW stock \in Figures \cup {Nothing}, UpdateMovie(m, price, stock)
  PROVE  /\ EventSent("movie.updated", m, [price |-> price, stock |-> stock])
         /\ UNCHANGED missed /\ FilmFacts(m)'
<1> DEFINE t == "movie.updated"
           n == Len(log[t]) + 1
           d == [price |-> price, stock |-> stock]
           P == Priced(m)
<1>1. EventSent(t, m, d) /\ UNCHANGED <<missed, movies>>
  BY SendFacts DEF UpdateMovie, EventsOf, Fields, Topics, Send, readVars, copyVars
<1>2. film[m] \in FilmData /\ film[m].state # "none"
  BY DEF UpdateMovie, ReplicaTypes, NoFilm
<1>3. /\ film'[m].state = film[m].state
      /\ film'[m].price = IF price = Nothing THEN film[m].price ELSE price
  BY <1>2 DEF UpdateMovie, ReplicaTypes, FilmData
<1>4. FilmFacts(m)
  BY DEF Copied, FilmFacts
<1>5. /\ Events(t, m)' = Events(t, m) \cup {n} /\ Ahead(t, m)' = Ahead(t, m) \cup {n}
      /\ \A s \in Topics \ {t} :
           Events(s, m)' = Events(s, m) /\ Ahead(s, m)' = Ahead(s, m)
      /\ \A s \in Topics : \A i \in Events(s, m) : log'[s][i] = log[s][i]
      /\ log'[t][n].data.price = price
      /\ \A i \in Events(t, m) : i < n /\ i \in Int
  BY <1>1 DEF EventSent, Topics
<1>6. n \in Int /\ P \subseteq Events(t, m)
  BY DEF ReplicaTypes, Topics, Priced
<1> HIDE DEF n
<1>7. P' = IF price = Nothing THEN P ELSE P \cup {n}
  BY <1>5, <1>6 DEF Priced, Topics
<1>8. \A i \in P : log'[t][i] = log[t][i] /\ i < n /\ i \in Int
  BY <1>5, <1>6 DEF Topics
<1>9. Events("movie.created", m) # {}
  BY <1>2, <1>4 DEF FilmFacts, FilmHistory
<1>10. FilmHistory(m)'
  <2>1. CASE price = Nothing
    <3>1. P' = P /\ film'[m].price = film[m].price
      BY <1>3, <1>7, <2>1
    <3> HIDE DEF P
    <3> QED BY <1>1, <1>3, <1>4, <1>5, <1>8, <1>9, <3>1 DEF FilmFacts, FilmHistory, Topics, P
  <2>2. CASE price # Nothing
    <3>1. P' = P \cup {n} /\ film'[m].price = price
      BY <1>3, <1>7, <2>2
    <3>2. \A i \in P' : (\A j \in P' : j <= i) => i = n
      BY <1>6, <1>8, <3>1
    <3> QED BY <1>1, <1>3, <1>4, <1>5, <1>9, <3>1, <3>2 DEF FilmFacts, FilmHistory, Topics
  <2> QED BY <2>1, <2>2
<1>11. ASSUME m \notin missed PROVE FilmCopied(m)'
  <2>1. FilmCopied(m)
    BY <1>4, <1>11 DEF FilmFacts
  <2>2. P' \cap Ahead(t, m)' = {} => price = Nothing /\ P \cap Ahead(t, m) = {}
    BY <1>5, <1>7
  <2>3. P \subseteq Ahead(t, m) => P' \subseteq Ahead(t, m)'
    BY <1>5, <1>7
  <2> QED BY <1>1, <1>3, <1>5, <2>1, <2>2, <2>3 DEF FilmCopied, Topics
<1> QED BY <1>1, <1>10, <1>11 DEF FilmFacts

\* A user or film that nothing happened to keeps its facts.
LEMMA StillFacts ==
  ASSUME Copied, NEW x
  PROVE  /\ x \in Users /\ Still(x) /\ users'[x] = users[x] /\ account'[x] = account[x]
              => UserFacts(x)'
         /\ x \in Movies /\ Still(x) /\ film'[x] = film[x]
            /\ movies'[x].state = movies[x].state /\ movies'[x].price = movies[x].price
              => FilmFacts(x)'
BY StillUser, StillFilm DEF Copied, UserFacts, FilmFacts

LEMMA AllStill ==
  ASSUME Copied, \A x : Still(x), UNCHANGED <<account, film, users>>,
         \A m \in Movies : movies'[m].state = movies[m].state /\ movies'[m].price = movies[m].price
  PROVE  Copied'
BY StillFacts DEF Copied, UserFacts, FilmFacts

\* One event was handled or sent: its subject has its facts, the others keep theirs.
LEMMA HandleCopied ==
  ASSUME ReplicaTypes, Copied, NEW t \in Topics, Handle(t)
  PROVE  Copied'
<1>0. PICK e : e = Coming(t).of
  OBVIOUS
<1>1. /\ UNCHANGED <<account, film, log, offset>> /\ inhand = NoTopic /\ inhand' = t
      /\ offset[t] < Len(log[t]) /\ missed \subseteq missed'
  BY DEF Handle, UserRegistered, UserDeactivated, MovieCreated, MovieUpdated, MovieDeactivated
<1>2. \A x : x # e => Still(x)
  BY <1>0, <1>1, OthersStill
<1>3. /\ \A u \in Users \ {e} : users'[u] = users[u]
      /\ \A m \in Movies \ {e} : movies'[m] = movies[m]
  BY <1>0 DEF Handle, UserRegistered, UserDeactivated, MovieCreated, MovieUpdated,
     MovieDeactivated, copyVars, ReplicaTypes
<1>4. /\ \A u \in Users \ {e} : UserFacts(u)'
      /\ \A m \in Movies \ {e} : FilmFacts(m)'
  BY <1>1, <1>2, <1>3, StillFacts
<1>5. /\ e \in Users => UserFacts(e)'
      /\ e \in Movies => FilmFacts(e)'
  <2>1. CASE t = "user.registered"
    BY <1>0, <2>1, RegisteredFacts, ReplicaConstants
  <2>2. CASE t = "user.deactivated"
    BY <1>0, <2>2, UserDeactivatedFacts, ReplicaConstants
  <2>3. CASE t = "movie.created"
    BY <1>0, <2>3, CreatedFacts, ReplicaConstants
  <2>4. CASE t = "movie.updated"
    BY <1>0, <2>4, UpdatedFacts, ReplicaConstants
  <2>5. CASE t = "movie.deactivated"
    BY <1>0, <2>5, MovieDeactivatedFacts, ReplicaConstants
  <2> QED BY <2>1, <2>2, <2>3, <2>4, <2>5 DEF Topics
<1> QED BY <1>4, <1>5 DEF Copied, UserFacts, FilmFacts

LEMMA FailureCopied ==
  ASSUME ReplicaTypes, Copied, NEW t \in Topics, HandlerFails(t)
  PROVE  Copied'
<1>1. /\ UNCHANGED <<account, film, log, offset, users, movies>>
      /\ inhand = NoTopic /\ inhand' = t /\ offset[t] < Len(log[t])
      /\ missed \subseteq missed' /\ Coming(t).of \in missed'
  BY DEF HandlerFails, copyVars
<1>2. \A x : Still(x)
  BY <1>1, OthersStill
<1> QED BY <1>1, <1>2, AllStill

LEMMA OwnersCopied ==
  ASSUME ReplicaTypes, Copied, Owners
  PROVE  Copied'
<1>1. UNCHANGED <<users, movies>>
  BY OwnerSteps
<1>2. ASSUME NEW u \in Users, UserFacts(u)', UNCHANGED <<film, missed>>,
             \A v \in Users \ {u} : account'[v] = account[v],
             \E t \in Topics : \E data : EventSent(t, u, data)
      PROVE  Copied'
  <2>1. \A x : x # u => Still(x)
    BY <1>2, SentStill
  <2>2. /\ \A v \in Users \ {u} : UserFacts(v)'
        /\ \A m \in Movies : FilmFacts(m)'
    BY <1>1, <1>2, <2>1, StillFacts, ReplicaConstants
  <2> QED BY <1>2, <2>2 DEF Copied, UserFacts, FilmFacts
<1>3. ASSUME NEW m \in Movies, FilmFacts(m)', UNCHANGED <<account, missed>>,
             \A v \in Movies \ {m} : film'[v] = film[v],
             \E t \in Topics : \E data : EventSent(t, m, data)
      PROVE  Copied'
  <2>1. \A x : x # m => Still(x)
    BY <1>3, SentStill
  <2>2. /\ \A u \in Users : UserFacts(u)'
        /\ \A v \in Movies \ {m} : FilmFacts(v)'
    BY <1>1, <1>3, <2>1, StillFacts, ReplicaConstants
  <2> QED BY <1>3, <2>2 DEF Copied, UserFacts, FilmFacts
<1>4. ASSUME NEW u \in Users, DeactivateUser(u) PROVE Copied'
  BY <1>2, <1>4, DeactivateUserFacts DEF DeactivateUser, Topics, ReplicaTypes
<1>5. ASSUME NEW u \in Users, NEW p \in Profiles, Register(u, p) PROVE Copied'
  BY <1>2, <1>5, RegisterFacts DEF Register, Topics, ReplicaTypes
<1>6. ASSUME NEW m \in Movies, DeactivateMovie(m) PROVE Copied'
  BY <1>3, <1>6, DeactivateMovieFacts DEF DeactivateMovie, Topics, ReplicaTypes
<1>7. ASSUME NEW m \in Movies, NEW price \in Prices, NEW stock \in Figures,
             CreateMovie(m, price, stock)
      PROVE  Copied'
  BY <1>3, <1>7, CreateMovieFacts DEF CreateMovie, Topics, ReplicaTypes
<1>8. ASSUME NEW m \in Movies, NEW price \in Prices \cup {Nothing},
             NEW stock \in Figures \cup {Nothing}, UpdateMovie(m, price, stock)
      PROVE  Copied'
  <2>1. \A v \in Movies \ {m} : film'[v] = film[v]
    BY <1>8 DEF UpdateMovie, ReplicaTypes
  <2> QED BY <1>3, <1>8, <2>1, UpdateMovieFacts DEF UpdateMovie, Topics
<1> QED BY <1>4, <1>5, <1>6, <1>7, <1>8 DEF Owners

LEMMA NextCopied ==
  ASSUME CopyInvariant, Copied, [Next]_vars
  PROVE  Copied'
<1>0. ReplicaTypes /\ ReplicaTypes'
  BY NextTypes DEF CopyInvariant
<1>1. ASSUME UNCHANGED <<account, film, users, log, missed>>, \A t \in Topics : Read(t)' <= Read(t),
             \A m \in Movies : movies'[m].state = movies[m].state /\ movies'[m].price = movies[m].price
      PROVE  Copied'
  BY <1>0, <1>1, UnreadStill, AllStill
<1>2. CASE UNCHANGED replicaVars
  <2>1. \A t \in Topics : Read(t)' <= Read(t)
    BY <1>0, <1>2 DEF replicaVars, readVars, Read, ReplicaTypes
  <2> QED BY <1>1, <1>2, <2>1 DEF replicaVars, readVars, copyVars
<1>3. CASE Decisions
  <2>1. StockOnly
    BY <1>3, DecisionSteps
  <2>2. \A t \in Topics : Read(t)' <= Read(t)
    BY <1>0, <2>1 DEF StockOnly, Read, ReplicaTypes
  <2> QED BY <1>1, <2>1, <2>2 DEF StockOnly
<1>4. CASE Crash \/ ConsumerRestarts
  <2>1. UNCHANGED <<account, film, log, offset, missed, users, movies>> /\ inhand' = NoTopic
    BY <1>4 DEF Crash, ConsumerRestarts, copyVars
  <2>2. \A t \in Topics : Read(t)' <= Read(t)
    BY <1>0, <2>1, ReplicaConstants DEF Read, ReplicaTypes
  <2> QED BY <1>1, <2>1, <2>2
<1>5. CASE CommitOffset
  <2>1. /\ UNCHANGED <<account, film, log, users, movies, missed>>
        /\ inhand \in Topics /\ inhand' = NoTopic
        /\ offset' = [offset EXCEPT ![inhand] = @ + 1]
    BY <1>0, <1>5 DEF CommitOffset, copyVars, ReplicaTypes
  <2>2. \A t \in Topics : Read(t)' <= Read(t)
    BY <1>0, <2>1, ReplicaConstants DEF Read, ReplicaTypes
  <2> QED BY <1>1, <2>1, <2>2
<1>6. CASE \E t \in Topics : Handle(t) \/ HandlerFails(t)
  BY <1>0, <1>6, HandleCopied, FailureCopied
<1>7. CASE Owners
  BY <1>0, <1>7, OwnersCopied
<1>8. CASE Requests
  BY <1>2, <1>8, RequestSteps
<1> QED BY <1>2, <1>3, <1>4, <1>5, <1>6, <1>7, <1>8
        DEF Next, Replicate, ReplicaNext, Requests, Decisions, Owners, vars

LEMMA InitCopied == Init => Copied
BY DEF Init, ReplicaInit, Copied, UserHistory, UserCopied, FilmHistory, FilmCopied,
   Events, Ahead, Priced, Topics, NoUser, NoFilm, NoMovie

LEMMA CopiedHolds == Spec => []Copied
<1>1. CopyInvariant /\ Copied /\ [Next]_vars => Copied'
  BY NextCopied
<1> QED BY InitCopied, <1>1, TypesHold, PTL DEF Spec

\* Where every event of a user or a film was read, and none was lost on a row that
\* was not there yet or in a handler that failed, the copy is what the owner has,
\* in whatever order the topics were read, however often an event came and
\* whatever was sold meanwhile.
THEOREM CopiesFollow == Spec => []InSync
<1>1. CopyInvariant /\ Copied => InSync
  BY CopiedIsInSync
<1> QED BY <1>1, CopiedHolds, TypesHold, PTL
-------------------------------------------------------------------------------
(* The price of a selection.                                               *)

\* Prices are whole pesos after rounding.
LEMMA PricesAreNat ==
  ASSUME NEW price \in Nat
  PROVE  Round(price) \in Nat /\ \A c \in Categories : TicketPrices(price)[c] \in Nat
<1>1. price \div 2 \in Nat /\ price % 2 \in Nat
  OBVIOUS
<1>2. Round(price) \in Nat
  BY <1>1 DEF Round
<1> QED BY <1>2, PricingConstants DEF TicketPrices

\* There are two categories.
LEMMA TwoCategories ==
  /\ IsFiniteSet(Categories)
  /\ \A f : (\A c \in Categories : f[c] \in Int) =>
       Sum(f, Categories) = f["general"] + f["preferential"]
<1>1. /\ Categories = {"general"} \cup {"preferential"}
      /\ IsFiniteSet({"general"}) /\ IsFiniteSet({"preferential"})
  BY FS_Singleton DEF Categories
<1>2. IsFiniteSet(Categories)
  BY <1>1, FS_Union
<1>3. ASSUME NEW f, \A c \in Categories : f[c] \in Int
      PROVE  Sum(f, Categories) = f["general"] + f["preferential"]
  <2>1. Sum(f, Categories) = f["general"] + Sum(f, {"preferential"})
    <3>1. "general" \in Categories /\ Categories \ {"general"} = {"preferential"}
      BY DEF Categories
    <3> QED BY <1>2, <1>3, <3>1, SumRemove
  <2>2. Sum(f, {"preferential"}) = f["preferential"] + Sum(f, {})
    <3>1. /\ {"preferential"} \ {"preferential"} = {}
          /\ \A c \in {"preferential"} : f[c] \in Int
      BY <1>3 DEF Categories
    <3> QED BY <1>1, <3>1, SumRemove
  <2>3. Sum(f, {}) = 0
    BY SumUnfolds, FS_EmptySet
  <2>4. f["general"] \in Int /\ f["preferential"] \in Int
    BY <1>3 DEF Categories
  <2> QED BY <2>1, <2>2, <2>3, <2>4
<1> QED BY <1>2, <1>3

\* A number for each category, added up over seats.
LEMMA SeatsByCategory ==
  ASSUME NEW seats \in SUBSET Seats, NEW number, \A c \in Categories : number[c] \in Int,
         NEW f, \A s \in seats : f[s] = number[SeatCategory(s)]
  PROVE  LET Of(c) == Cardinality({s \in seats : SeatCategory(s) = c})
         IN  /\ Of("general") \in Nat /\ Of("preferential") \in Nat
             /\ Sum(f, seats) = number["general"] * Of("general")
                               + number["preferential"] * Of("preferential")
<1> DEFINE In(c) == {s \in seats : SeatCategory(s) = c}
           category == [s \in seats |-> SeatCategory(s)]
           g == [c \in Categories |-> number[c] * Cardinality(In(c))]
<1>1. IsFiniteSet(seats) /\ \A c : IsFiniteSet(In(c)) /\ Cardinality(In(c)) \in Nat
  <2>1. IsFiniteSet(seats) /\ \A c : In(c) \subseteq seats
    BY PricingConstants, FS_Subset
  <2> HIDE DEF In
  <2> QED BY <2>1, FS_Subset, FS_CardinalityType
<1>2. \A s \in seats : SeatCategory(s) \in Categories /\ f[s] \in Int
  BY DEF SeatCategory, Categories
<1>3. ASSUME NEW c \in Categories PROVE Sum(f, In(c)) = number[c] * Cardinality(In(c))
  <2>1. \A s \in In(c) : f[s] = number[c]
    OBVIOUS
  <2> HIDE DEF In
  <2> QED BY <1>1, <2>1, SumOfEquals
<1>4. \A c \in Categories : g[c] = Sum(f, Part(seats, category, c)) /\ g[c] \in Int
  <2>1. \A c \in Categories : In(c) = Part(seats, category, c)
    BY DEF Part
  <2> HIDE DEF In, category
  <2>2. \A c \in Categories : number[c] * Cardinality(In(c)) \in Int
    <3>1. \A x, y \in Int : x * y \in Int
      OBVIOUS
    <3>2. \A c \in Categories : number[c] \in Int /\ Cardinality(In(c)) \in Int
      BY <1>1
    <3> QED BY <3>1, <3>2
  <2> QED BY <1>3, <2>1, <2>2
<1>5. \A s \in seats : category[s] \in Categories
  BY <1>2
<1>6. g["general"] = number["general"] * Cardinality(In("general"))
      /\ g["preferential"] = number["preferential"] * Cardinality(In("preferential"))
  BY DEF Categories
<1> HIDE DEF g, category, In
<1>7. Sum(g, Categories) = Sum(f, seats)
  BY <1>1, <1>2, <1>4, <1>5, TwoCategories, SumByParts
<1>8. Sum(g, Categories) = g["general"] + g["preferential"]
  BY <1>4, TwoCategories
<1> QED BY <1>1, <1>6, <1>7, <1>8 DEF In

\* The sum over the lines of a quote is the sum of those of each kind, whatever
\* number f it takes from a line.
LEMMA QuoteByKind ==
  ASSUME NEW price \in Nat, NEW quantity \in Nat, NEW seats \in SUBSET Seats, NEW food,
         IsFiniteSet(DOMAIN food), NEW f,
         \A l \in BuildQuote(price, quantity, seats, food) : f[l] \in Int,
         NEW tickets, \A c \in Categories : tickets[c] \in Int,
         \A c \in Categories :
           tickets[c] = IF Count(c, quantity, seats) = 0 THEN 0
                        ELSE f[Line("ticket", c, TicketPrices(price)[c], Count(c, quantity, seats))],
         NEW portions,
         \A i \in DOMAIN food : portions[i] = f[Line("concession", i, Menu[i], food[i])]
  PROVE  Sum(f, BuildQuote(price, quantity, seats, food))
           = tickets["general"] + tickets["preferential"] + Sum(portions, DOMAIN food)
             + (IF FeeLines(food) = {} THEN 0 ELSE f[Line("service_fee", "fee", ServiceFee, 1)])
<1> DEFINE Charged == {c \in Categories : Count(c, quantity, seats) # 0}
           TicketLine == [c \in Categories |->
                            Line("ticket", c, TicketPrices(price)[c], Count(c, quantity, seats))]
           FoodLine == [i \in DOMAIN food |-> Line("concession", i, Menu[i], food[i])]
           T == TicketLines(price, quantity, seats)
           F == FoodLines(food)
           X == FeeLines(food)
           fee == Line("service_fee", "fee", ServiceFee, 1)
<1>1. /\ T = {TicketLine[c] : c \in Charged} /\ F = {FoodLine[i] : i \in DOMAIN food}
      /\ X = {} \/ X = {fee}
      /\ BuildQuote(price, quantity, seats, food) = (T \cup F) \cup X
  BY DEF TicketLines, FoodLines, FeeLines, BuildQuote
<1>2. /\ \A c, d \in Charged : TicketLine[c] = TicketLine[d] => c = d
      /\ \A i, j \in DOMAIN food : FoodLine[i] = FoodLine[j] => i = j
  BY DEF Line
<1>3. T \cap F = {} /\ (T \cup F) \cap X = {}
  BY DEF TicketLines, FoodLines, FeeLines, Line
<1>4. /\ \A c \in Charged : tickets[c] = f[TicketLine[c]]
      /\ \A i \in DOMAIN food : portions[i] = f[FoodLine[i]]
      /\ \A l \in T \cup F \cup X : f[l] \in Int
      /\ \A c \in Categories \ Charged : tickets[c] = 0
  BY <1>1
<1>5. IsFiniteSet(Categories) /\ Charged \subseteq Categories /\ IsFiniteSet(Charged)
      /\ IsFiniteSet(Categories \ Charged) /\ Cardinality(Categories \ Charged) \in Nat
  BY TwoCategories, FS_Subset, FS_CardinalityType
<1> HIDE DEF Charged, TicketLine, FoodLine, T, F, X, fee
<1>6. Sum(f, T) = Sum(tickets, Charged) /\ IsFiniteSet(T)
  <2>1. \A c \in Charged : tickets[c] = f[TicketLine[c]] /\ tickets[c] \in Int
    BY <1>4, <1>5
  <2>2. IsFiniteSet(Charged) /\ \A c, d \in Charged : TicketLine[c] = TicketLine[d] => c = d
    BY <1>2, <1>5
  <2>3. Sum(f, {TicketLine[c] : c \in Charged}) = Sum(tickets, Charged)
        /\ IsFiniteSet({TicketLine[c] : c \in Charged})
    BY <2>1, <2>2, SumOfImage
  <2> QED BY <1>1, <2>3
<1>7. Sum(f, F) = Sum(portions, DOMAIN food) /\ IsFiniteSet(F)
  <2>1. \A i \in DOMAIN food : portions[i] = f[FoodLine[i]] /\ portions[i] \in Int
    BY <1>1, <1>4
  <2>2. Sum(f, {FoodLine[i] : i \in DOMAIN food}) = Sum(portions, DOMAIN food)
        /\ IsFiniteSet({FoodLine[i] : i \in DOMAIN food})
    BY <1>2, <2>1, SumOfImage
  <2> QED BY <1>1, <2>2
<1>8. IsFiniteSet(X) /\ IsFiniteSet(T \cup F)
  <2>1. IsFiniteSet(X)
    BY <1>1, FS_Singleton, FS_EmptySet
  <2> QED BY <1>6, <1>7, <2>1, FS_Union
<1>9. Sum(f, X) = IF X = {} THEN 0 ELSE f[fee]
  <2>1. CASE X = {}
    BY <2>1, SumUnfolds, FS_EmptySet
  <2>2. CASE X # {}
    <3>1. X = {fee} /\ Some(X) = fee /\ X \ {Some(X)} = {} /\ f[fee] \in Int
      BY <1>1, <1>4, <2>2, SomeIsIn
    <3>2. Sum(f, {}) = 0
      BY SumUnfolds, FS_EmptySet
    <3>3. Sum(f, X) = f[fee] + Sum(f, {})
      BY <1>8, <2>2, <3>1, SumUnfolds
    <3> QED BY <2>2, <3>1, <3>2, <3>3
  <2> QED BY <2>1, <2>2
<1>10. Sum(tickets, Charged) = tickets["general"] + tickets["preferential"]
  <2>1. Sum(tickets, Categories \ Charged) = 0
    <3>1. Sum(tickets, Categories \ Charged) = 0 * Cardinality(Categories \ Charged)
      BY <1>4, <1>5, SumOfEquals
    <3> QED BY <1>5, <3>1
  <2>2. Sum(tickets, Charged \cup (Categories \ Charged))
          = Sum(tickets, Charged) + Sum(tickets, Categories \ Charged)
    <3>1. \A c \in Charged \cup (Categories \ Charged) : tickets[c] \in Int
      BY <1>5
    <3>2. Charged \cap (Categories \ Charged) = {}
      OBVIOUS
    <3> QED BY <1>5, <3>1, <3>2, SumUnion
  <2>3. Sum(tickets, Categories) = tickets["general"] + tickets["preferential"]
    BY TwoCategories
  <2>6. Charged \cup (Categories \ Charged) = Categories
    BY <1>5
  <2>7. tickets["general"] \in Int /\ tickets["preferential"] \in Int /\ Sum(tickets, Charged) \in Int
    BY <1>5, SumIsInt DEF Categories
  <2>8. Sum(tickets, Categories) = Sum(tickets, Charged) + Sum(tickets, Categories \ Charged)
    BY <2>2, <2>6
  <2> QED BY <2>1, <2>3, <2>7, <2>8
<1>11. Sum(f, (T \cup F) \cup X) = Sum(f, T) + Sum(f, F) + Sum(f, X)
  <2>1. Sum(f, (T \cup F) \cup X) = Sum(f, T \cup F) + Sum(f, X)
    BY <1>3, <1>4, <1>8, SumUnion
  <2>2. Sum(f, T \cup F) = Sum(f, T) + Sum(f, F)
    BY <1>3, <1>4, <1>6, <1>7, SumUnion
  <2> QED BY <2>1, <2>2
<1> QED BY <1>1, <1>6, <1>7, <1>9, <1>10, <1>11 DEF X, fee

\* Every seat, product and the fee by itself come to the total of the lines, and
\* the lines count the tickets: for every price and every valid request.
LEMMA QuoteIsFair ==
  ASSUME NEW price \in Nat, NEW quantity, NEW seats \in SUBSET Seats, NEW food,
         ValidRequest(quantity, seats, food), Resolvable(food)
  PROVE  LET lines == BuildQuote(price, quantity, seats, food)
         IN  /\ QuoteTotal(lines) = FairTotal(price, quantity, seats, food)
             /\ QuoteTotal(lines) \in Nat
             /\ SumFunctionOnSet([l \in lines |-> IF l.kind = "ticket" THEN l.quantity ELSE 0], lines)
                  = quantity
<1> DEFINE unit == TicketPrices(price)
           count == [c \in Categories |-> Count(c, quantity, seats)]
           lines == BuildQuote(price, quantity, seats, food)
           Of(c) == Cardinality({s \in seats : SeatCategory(s) = c})
           products == DOMAIN food
           fee == Line("service_fee", "fee", ServiceFee, 1)
<1>1. /\ quantity \in Nat /\ IsFiniteSet(seats)
      /\ seats # {} => Cardinality(seats) = quantity
      /\ IsFiniteSet(products)
      /\ \A i \in products : Menu[i] \in Nat /\ food[i] \in Nat
      /\ ServiceFee \in Nat /\ Surcharge \in Nat
      /\ \A i \in products : Menu[i] * food[i] \in Nat
  <2>1. products \subseteq DOMAIN Menu /\ DOMAIN Menu \subseteq Items
    BY PricingConstants DEF Resolvable
  <2>2. IsFiniteSet(products) /\ IsFiniteSet(seats)
    BY <2>1, PricingConstants, FS_Subset
  <2>3. \A i \in products : Menu[i] \in Nat /\ food[i] \in Nat
    BY <2>1, PricingConstants DEF ValidRequest
  <2>4. \A x, y \in Nat : x * y \in Nat
    OBVIOUS
  <2> QED BY <2>2, <2>3, <2>4, PricingConstants DEF ValidRequest
<1>2. /\ \A c \in Categories : count[c] = Count(c, quantity, seats) /\ count[c] \in Nat
      /\ seats = {} => count["general"] = quantity /\ count["preferential"] = 0
      /\ seats # {} => count["general"] = Of("general") /\ count["preferential"] = Of("preferential")
  <2>1. \A c \in Categories : count[c] = Count(c, quantity, seats)
    OBVIOUS
  <2>2. "general" \in Categories /\ "preferential" \in Categories
        /\ \A c \in Categories : c = "general" \/ c = "preferential"
    BY DEF Categories
  <2>3. \A c : Of(c) \in Nat
    <3> SUFFICES ASSUME NEW c PROVE Of(c) \in Nat
      OBVIOUS
    <3> DEFINE part == {s \in seats : SeatCategory(s) = c}
    <3>1. part \subseteq seats
      OBVIOUS
    <3>2. IsFiniteSet(seats)
      BY <1>1
    <3> HIDE DEF part
    <3>3. IsFiniteSet(part)
      BY <3>1, <3>2, FS_Subset
    <3>4. Cardinality(part) \in Nat
      BY <3>3, FS_CardinalityType
    <3> QED BY <3>4 DEF part
  <2>4. \A c \in Categories : Count(c, quantity, seats) =
          IF seats = {} THEN IF c = "general" THEN quantity ELSE 0 ELSE Of(c)
    BY DEF Count
  <2> HIDE DEF count, Of
  <2>5. \A c \in Categories : count[c] \in Nat
    BY <1>1, <2>1, <2>3, <2>4
  <2>6. seats = {} => count["general"] = quantity /\ count["preferential"] = 0
    BY <2>1, <2>2, <2>4
  <2>7. seats # {} => count["general"] = Of("general") /\ count["preferential"] = Of("preferential")
    BY <2>1, <2>2, <2>4
  <2> QED BY <2>1, <2>5, <2>6, <2>7
<1>3. /\ \A c \in Categories : unit[c] \in Nat /\ unit[c] * count[c] \in Nat
      /\ unit["general"] \in Nat /\ unit["preferential"] \in Nat
      /\ count["general"] \in Nat /\ count["preferential"] \in Nat
  <2>1. \A x, y \in Nat : x * y \in Nat
    OBVIOUS
  <2>2. \A c \in Categories : unit[c] \in Nat
    BY PricesAreNat
  <2> HIDE DEF unit, count, Of
  <2>3. "general" \in Categories /\ "preferential" \in Categories
    BY DEF Categories
  <2> QED BY <1>2, <2>1, <2>2, <2>3
<1> HIDE DEF unit, count, lines, Of, products, fee
<1>4. count["general"] + count["preferential"] = quantity
  <2>1. CASE seats = {}
    <3> QED BY <1>1, <1>2, <2>1
  <2>2. CASE seats # {}
    <3> DEFINE one == [c \in Categories |-> 1]
               each == [s \in seats |-> 1]
    <3>1. /\ \A c \in Categories : one[c] \in Int
          /\ \A s \in seats : each[s] = one[SeatCategory(s)] /\ each[s] = 1
          /\ one["general"] = 1 /\ one["preferential"] = 1
      BY DEF SeatCategory, Categories
    <3> HIDE DEF one, each
    <3>2. /\ Of("general") \in Nat /\ Of("preferential") \in Nat
          /\ Sum(each, seats) = one["general"] * Of("general") + one["preferential"] * Of("preferential")
      BY <3>1, SeatsByCategory DEF Of
    <3>3. Sum(each, seats) = 1 * Cardinality(seats) /\ Cardinality(seats) \in Nat
      <4>1. (\A s \in seats : each[s] = 1) /\ IsFiniteSet(seats)
        BY <1>1, <3>1
      <4>2. Sum(each, seats) = 1 * Cardinality(seats)
        BY <4>1, SumOfEquals
      <4> QED BY <4>1, <4>2, FS_CardinalityType
    <3> QED BY <1>1, <1>2, <2>2, <3>1, <3>2, <3>3
  <2> QED BY <2>1, <2>2
<1> DEFINE cost == [c \in Categories |-> unit[c] * count[c]]
           portions == [i \in products |-> Menu[i] * food[i]]
           amount == [l \in lines |-> LineTotal(l)]
           printed == [l \in lines |-> IF l.kind = "ticket" THEN l.quantity ELSE 0]
           nothing == [i \in products |-> 0]
           ticket(c) == Line("ticket", c, TicketPrices(price)[c], Count(c, quantity, seats))
           portion(i) == Line("concession", i, Menu[i], food[i])
<1>5. /\ \A c \in Categories : count[c] # 0 => ticket(c) \in lines
      /\ \A i \in products : portion(i) \in lines
      /\ FeeLines(food) # {} => fee \in lines
      /\ \A l \in lines : \/ \E c \in Categories : l = ticket(c)
                          \/ \E i \in products : l = portion(i)
                          \/ l = fee
  <2>1. \A l : l \in lines <=> l \in TicketLines(price, quantity, seats) \/ l \in FoodLines(food)
                               \/ l \in FeeLines(food)
    BY DEF BuildQuote, lines
  <2>2. FeeLines(food) \subseteq {fee} /\ (FeeLines(food) # {} => fee \in FeeLines(food))
    BY DEF FeeLines, fee
  <2>3. FoodLines(food) = {portion(i) : i \in products}
    BY DEF FoodLines, products
  <2>4. TicketLines(price, quantity, seats)
          = {ticket(c) : c \in {d \in Categories : Count(d, quantity, seats) # 0}}
    BY DEF TicketLines
  <2>5. \A c \in Categories : Count(c, quantity, seats) = count[c]
    BY <1>2
  <2> HIDE DEF ticket, portion
  <2>6. \A c \in Categories : count[c] # 0 => ticket(c) \in lines
    BY <2>1, <2>4, <2>5
  <2>7. /\ \A i \in products : portion(i) \in lines
        /\ FeeLines(food) # {} => fee \in lines
    BY <2>1, <2>2, <2>3
  <2>8. \A l \in TicketLines(price, quantity, seats) : \E c \in Categories : l = ticket(c)
    BY <2>4
  <2>9. ASSUME NEW l \in lines
        PROVE  \/ \E c \in Categories : l = ticket(c)
               \/ \E i \in products : l = portion(i)
               \/ l = fee
    <3>1. CASE l \in TicketLines(price, quantity, seats)
      BY <2>8, <3>1
    <3>2. CASE l \in FoodLines(food)
      BY <2>3, <3>2
    <3>3. CASE l \in FeeLines(food)
      BY <2>2, <3>3
    <3> QED BY <2>1, <3>1, <3>2, <3>3
  <2> QED BY <2>6, <2>7, <2>9
<1>6. /\ \A c \in Categories : LineTotal(ticket(c)) = unit[c] * count[c]
                                /\ ticket(c).kind = "ticket" /\ ticket(c).quantity = count[c]
      /\ \A i \in products : LineTotal(portion(i)) = Menu[i] * food[i] /\ portion(i).kind = "concession"
      /\ LineTotal(fee) = ServiceFee /\ fee.kind = "service_fee"
  BY <1>1, <1>2 DEF LineTotal, Line, unit, fee
<1>7. /\ \A l \in lines : amount[l] = LineTotal(l) /\ amount[l] \in Nat
      /\ \A l \in lines : printed[l] = (IF l.kind = "ticket" THEN l.quantity ELSE 0)
                          /\ printed[l] \in Nat
  <2>1. \A l \in lines : /\ amount[l] = LineTotal(l)
                         /\ printed[l] = (IF l.kind = "ticket" THEN l.quantity ELSE 0)
    OBVIOUS
  <2> HIDE DEF ticket, portion, amount, printed
  <2>2. \A l \in lines : /\ LineTotal(l) \in Nat
                         /\ (IF l.kind = "ticket" THEN l.quantity ELSE 0) \in Nat
    BY <1>1, <1>2, <1>3, <1>5, <1>6
  <2> QED BY <2>1, <2>2
<1>8. /\ \A c \in Categories : cost[c] = unit[c] * count[c] /\ cost[c] \in Nat
      /\ \A i \in products : portions[i] = Menu[i] * food[i] /\ portions[i] \in Nat /\ nothing[i] = 0
  BY <1>1, <1>3
<1> HIDE DEF cost, portions, amount, printed, nothing
<1>9. Sum(amount, lines) = cost["general"] + cost["preferential"] + Sum(portions, products)
                           + (IF FeeLines(food) = {} THEN 0 ELSE ServiceFee)
  <2>1. /\ \A c \in Categories : cost[c] = IF count[c] = 0 THEN 0 ELSE amount[ticket(c)]
        /\ \A i \in products : portions[i] = amount[portion(i)]
        /\ FeeLines(food) # {} => amount[fee] = ServiceFee
    <3> HIDE DEF ticket, portion
    <3>1. \A x \in Nat : x * 0 = 0
      OBVIOUS
    <3> QED BY <1>3, <1>5, <1>6, <1>7, <1>8, <3>1
  <2>2. \A l \in BuildQuote(price, quantity, seats, food) : amount[l] \in Int
    BY <1>7 DEF lines
  <2>3. \A c \in Categories : cost[c] \in Int /\
          cost[c] = IF Count(c, quantity, seats) = 0 THEN 0 ELSE amount[ticket(c)]
    BY <1>2, <1>8, <2>1
  <2>4. /\ \A i \in DOMAIN food : portions[i] = amount[portion(i)]
        /\ IsFiniteSet(DOMAIN food)
    BY <1>1, <2>1 DEF products
  <2>5. quantity \in Nat
    BY <1>1
  <2>6. Sum(amount, BuildQuote(price, quantity, seats, food))
          = cost["general"] + cost["preferential"] + Sum(portions, DOMAIN food)
            + (IF FeeLines(food) = {} THEN 0 ELSE amount[Line("service_fee", "fee", ServiceFee, 1)])
    BY <2>2, <2>3, <2>4, <2>5, QuoteByKind
  <2> QED BY <2>1, <2>6 DEF lines, products, fee
<1>10. Sum(printed, lines) = count["general"] + count["preferential"]
  <2>1. /\ \A c \in Categories : count[c] = IF count[c] = 0 THEN 0 ELSE printed[ticket(c)]
        /\ \A i \in products : nothing[i] = printed[portion(i)]
        /\ FeeLines(food) # {} => printed[fee] = 0
    <3> HIDE DEF ticket, portion
    <3> QED BY <1>3, <1>5, <1>6, <1>7, <1>8
  <2>2. \A l \in BuildQuote(price, quantity, seats, food) : printed[l] \in Int
    BY <1>7 DEF lines
  <2>3. \A c \in Categories : count[c] \in Int /\
          count[c] = IF Count(c, quantity, seats) = 0 THEN 0 ELSE printed[ticket(c)]
    BY <1>2, <2>1
  <2>4. /\ \A i \in DOMAIN food : nothing[i] = printed[portion(i)]
        /\ IsFiniteSet(DOMAIN food)
    BY <1>1, <2>1 DEF products
  <2>5. quantity \in Nat
    BY <1>1
  <2>6. Sum(printed, BuildQuote(price, quantity, seats, food))
          = count["general"] + count["preferential"] + Sum(nothing, DOMAIN food)
            + (IF FeeLines(food) = {} THEN 0 ELSE printed[Line("service_fee", "fee", ServiceFee, 1)])
    BY <2>2, <2>3, <2>4, <2>5, QuoteByKind
  <2>7. Sum(printed, lines) = count["general"] + count["preferential"] + Sum(nothing, products)
    <3>1. Sum(nothing, products) \in Int
      BY <1>1, <1>8, SumIsInt
    <3> QED BY <1>3, <2>1, <2>6, <3>1 DEF lines, products, fee
  <2>8. Sum(nothing, products) = 0 * Cardinality(products) /\ Cardinality(products) \in Nat
    BY <1>1, <1>8, SumOfEquals, FS_CardinalityType
  <2> QED BY <1>3, <2>7, <2>8
<1>11. Sum(portions, products) \in Nat
  BY <1>1, <1>8, SumIsNat
<1>12. (IF FeeLines(food) = {} THEN 0 ELSE ServiceFee) = (IF products = {} THEN 0 ELSE ServiceFee)
  BY <1>1 DEF FeeLines, products
<1> DEFINE SeatPrice == [s \in Seats |-> unit["general"]
                                         + (IF s \in PreferentialSeats THEN Surcharge ELSE 0)]
<1>13. cost["general"] + cost["preferential"]
         = IF seats = {} THEN unit["general"] * quantity ELSE Sum(SeatPrice, seats)
  <2>1. CASE seats = {}
    <3>2. cost["general"] = unit["general"] * count["general"]
          /\ cost["preferential"] = unit["preferential"] * count["preferential"]
      BY <1>8 DEF Categories
    <3> QED BY <1>1, <1>2, <1>3, <2>1, <3>2
  <2>2. CASE seats # {}
    <3>1. \A s \in seats : SeatPrice[s] = unit[SeatCategory(s)]
      <4>1. unit["general"] = Round(price) + 0 /\ unit["preferential"] = Round(price) + Surcharge
        BY DEF TicketPrices, Categories, unit
      <4>2. Round(price) \in Nat
        BY PricesAreNat
      <4> QED BY <1>1, <4>1, <4>2 DEF SeatCategory
    <3>3. \A c \in Categories : unit[c] \in Int
      BY <1>3
    <3>4. cost["general"] = unit["general"] * count["general"]
          /\ cost["preferential"] = unit["preferential"] * count["preferential"]
      BY <1>8 DEF Categories
    <3> HIDE DEF SeatPrice
    <3>5. Sum(SeatPrice, seats) = unit["general"] * Of("general")
                                  + unit["preferential"] * Of("preferential")
      BY <3>1, <3>3, SeatsByCategory DEF Of
    <3> QED BY <1>2, <2>2, <3>4, <3>5
  <2> QED BY <2>1, <2>2
<1>14. cost["general"] \in Nat /\ cost["preferential"] \in Nat
  BY <1>8 DEF Categories
<1>15. FairTotal(price, quantity, seats, food)
         = (IF seats = {} THEN unit["general"] * quantity ELSE Sum(SeatPrice, seats))
           + Sum(portions, products) + (IF products = {} THEN 0 ELSE ServiceFee)
  BY DEF FairTotal, Sum, portions, unit, products
<1>16. /\ QuoteTotal(lines) = Sum(amount, lines)
       /\ SumFunctionOnSet([l \in lines |-> IF l.kind = "ticket" THEN l.quantity ELSE 0], lines)
            = Sum(printed, lines)
  BY DEF QuoteTotal, Sum, amount, printed
<1> HIDE DEF SeatPrice
<1>17. QuoteTotal(lines) = FairTotal(price, quantity, seats, food) /\ QuoteTotal(lines) \in Nat
  BY <1>1, <1>9, <1>11, <1>12, <1>13, <1>14, <1>15, <1>16
<1>18. SumFunctionOnSet([l \in lines |-> IF l.kind = "ticket" THEN l.quantity ELSE 0], lines) = quantity
  BY <1>4, <1>10, <1>16
<1> QED BY <1>17, <1>18 DEF lines
-------------------------------------------------------------------------------
(* What is charged.                                                        *)

Asked(o) == ValidRequest(QuantityOf[o], SeatsOf[o], FoodOf[o])

\* A purchase has the bill of a valid request at some price of a film; a request
\* that waits holds a price and has passed the checks that came before.
SaleFacts(o) ==
  /\ status[o] # "none" => /\ Asked(o) /\ Resolvable(FoodOf[o])
                           /\ \E price \in Prices : bill[o] = Bill(o, price)
  /\ status[o] = "none" => bill[o] = NoBill
  /\ request[o] # NoRequest => Asked(o) /\ status[o] = "none"
  /\ request[o].at = "seats" => Resolvable(FoodOf[o])

SaleTypes ==
  /\ status \in [Orders -> Status] /\ DOMAIN bill = Orders
  /\ request \in [Orders -> {NoRequest} \cup [at : {"function", "seats"}, price : Prices, stock : Nat]]

SaleInvariant == SaleTypes /\ \A o \in Orders : SaleFacts(o)

LEMMA InsertSale ==
  ASSUME SaleInvariant, NEW o \in Orders, NEW price \in Prices, Asked(o), Resolvable(FoodOf[o]),
         Insert(o, price)
  PROVE  SaleInvariant'
<1>1. /\ status' = [status EXCEPT ![o] = "pending"]
      /\ bill' = [bill EXCEPT ![o] = Bill(o, price)]
      /\ request' = [request EXCEPT ![o] = NoRequest]
  BY DEF Insert
<1>2. SaleTypes'
  BY <1>1 DEF SaleInvariant, SaleTypes, Status
<1>3. SaleFacts(o)'
  <2>1. status'[o] = "pending" /\ bill'[o] = Bill(o, price) /\ request'[o] = NoRequest
    BY <1>1 DEF SaleInvariant, SaleTypes
  <2> QED BY <2>1 DEF SaleFacts, NoRequest
<1>4. ASSUME NEW p \in Orders, p # o PROVE SaleFacts(p)'
  <2>1. status'[p] = status[p] /\ bill'[p] = bill[p] /\ request'[p] = request[p]
    BY <1>1, <1>4 DEF SaleInvariant, SaleTypes
  <2> QED BY <2>1 DEF SaleInvariant, SaleFacts
<1> QED BY <1>2, <1>3, <1>4 DEF SaleInvariant

LEMMA WaitSale ==
  ASSUME SaleInvariant, NEW o \in Orders, UNCHANGED <<status, bill>>,
         NEW next \in {NoRequest} \cup [at : {"function", "seats"}, price : Prices, stock : Nat],
         request' = [request EXCEPT ![o] = next],
         next # NoRequest => Asked(o) /\ status[o] = "none",
         next.at = "seats" => Resolvable(FoodOf[o])
  PROVE  SaleInvariant'
<1>1. SaleTypes'
  BY DEF SaleInvariant, SaleTypes
<1>2. ASSUME NEW p \in Orders PROVE SaleFacts(p)'
  <2>1. request'[p] = IF p = o THEN next ELSE request[p]
    BY DEF SaleInvariant, SaleTypes
  <2> QED BY <2>1 DEF SaleInvariant, SaleFacts
<1> QED BY <1>1, <1>2 DEF SaleInvariant

LEMMA PriceSale ==
  ASSUME SaleInvariant, NEW o \in Orders, Asked(o), status[o] = "none", NEW copy, NEW linked,
         copy.price \in Prices, copy.stock \in Nat, Price(o, copy, linked)
  PROVE  SaleInvariant'
<1>1. Resolvable(FoodOf[o])
  BY DEF Price
<1>2. CASE Insert(o, copy.price)
  BY <1>1, <1>2, InsertSale
<1>3. CASE request' = [request EXCEPT ![o] = Waiting("seats", copy)] /\ UNCHANGED <<status, bill>>
  <2>1. Waiting("seats", copy) \in [at : {"function", "seats"}, price : Prices, stock : Nat]
    BY DEF Waiting
  <2> QED BY <1>1, <1>3, <2>1, WaitSale
<1> QED BY <1>2, <1>3 DEF Price

LEMMA RequestSales ==
  ASSUME CopyInvariant, SaleInvariant, Requests
  PROVE  SaleInvariant'
<1>1. ASSUME NEW o \in Orders, Begin(o) PROVE SaleInvariant'
  <2>1. Asked(o) /\ status[o] = "none"
    BY <1>1 DEF Begin, Asked
  <2>2. Film(o).price \in Prices /\ Film(o).stock \in Nat
    <3>1. movies[MovieOf[o]] \in MovieRows
      BY <1>1, StorefrontConstants DEF Begin, Film, CopyInvariant, ReplicaTypes, NoMovie
    <3> QED BY <3>1 DEF Film, MovieRows
  <2>3. CASE Price(o, Film(o), FALSE)
    BY <2>1, <2>2, <2>3, PriceSale
  <2>4. CASE /\ request' = [request EXCEPT ![o] = Waiting("function", Film(o))]
             /\ UNCHANGED <<status, bill>>
    <3>1. /\ Waiting("function", Film(o)) \in [at : {"function", "seats"}, price : Prices, stock : Nat]
          /\ Waiting("function", Film(o)).at = "function"
      BY <2>2 DEF Waiting
    <3> QED BY <2>1, <2>4, <3>1, WaitSale
  <2> QED BY <1>1, <2>3, <2>4 DEF Begin
<1>2. ASSUME NEW o \in Orders, request[o].at \in {"function", "seats"}
      PROVE  /\ Asked(o) /\ status[o] = "none"
             /\ request[o].price \in Prices /\ request[o].stock \in Nat
  <2>1. request[o] # NoRequest
    BY <1>2 DEF NoRequest
  <2> QED BY <2>1 DEF SaleInvariant, SaleTypes, SaleFacts
<1>3. ASSUME NEW o \in Orders, FunctionKnown(o) PROVE SaleInvariant'
  <2>1. PICK linked \in BOOLEAN : Price(o, request[o], linked)
    BY <1>3 DEF FunctionKnown
  <2>2. /\ Asked(o) /\ status[o] = "none"
        /\ request[o].price \in Prices /\ request[o].stock \in Nat
    BY <1>2, <1>3 DEF FunctionKnown
  <2> QED BY <2>1, <2>2, PriceSale
<1>4. ASSUME NEW o \in Orders, SeatsHeld(o) PROVE SaleInvariant'
  <2>1. Asked(o) /\ request[o].price \in Prices
    BY <1>2, <1>4 DEF SeatsHeld
  <2>2. Resolvable(FoodOf[o]) /\ Insert(o, request[o].price)
    BY <1>4 DEF SeatsHeld, SaleInvariant, SaleFacts
  <2> QED BY <2>1, <2>2, InsertSale
<1>5. ASSUME NEW o \in Orders, Refuse(o) PROVE SaleInvariant'
  <2>1. UNCHANGED <<status, bill>> /\ request' = [request EXCEPT ![o] = NoRequest]
    BY <1>5 DEF Refuse
  <2> QED BY <2>1, WaitSale DEF NoRequest
<1> QED BY <1>1, <1>3, <1>4, <1>5 DEF Requests

LEMMA DecisionSales ==
  ASSUME SaleInvariant, Decisions
  PROVE  SaleInvariant'
<1>1. PICK o \in Orders : \E from, to \in Status \ {"none"} : Decide(o, from, to)
  BY DEF Decisions, Confirm, Cancel, GiveBack, Status
<1>2. PICK to \in Status \ {"none"} :
        /\ status[o] # "none" /\ status' = [status EXCEPT ![o] = to]
        /\ UNCHANGED <<request, bill>>
  BY <1>1 DEF Decide
<1>3. SaleTypes'
  BY <1>2 DEF SaleInvariant, SaleTypes
<1>4. ASSUME NEW p \in Orders PROVE SaleFacts(p)'
  <2>1. status'[p] = "none" <=> status[p] = "none"
    BY <1>2 DEF SaleInvariant, SaleTypes
  <2> QED BY <1>2, <2>1 DEF SaleInvariant, SaleFacts
<1> QED BY <1>3, <1>4 DEF SaleInvariant

LEMMA NextSales ==
  ASSUME CopyInvariant, SaleInvariant, [Next]_vars
  PROVE  SaleInvariant'
<1>1. CASE UNCHANGED saleVars
  BY <1>1 DEF SaleInvariant, SaleTypes, SaleFacts, saleVars
<1>2. CASE Crash
  <2>1. UNCHANGED <<status, bill>> /\ request' = [o \in Orders |-> NoRequest]
    BY <1>2 DEF Crash
  <2> QED BY <2>1 DEF SaleInvariant, SaleTypes, SaleFacts, NoRequest
<1> QED BY <1>1, <1>2, RequestSales, DecisionSales DEF Next, Replicate, Requests, Decisions, vars

LEMMA InitSales == Init => SaleInvariant
BY DEF Init, SaleInvariant, SaleTypes, SaleFacts, Status, NoRequest

LEMMA SalesHold == Spec => []SaleInvariant
BY InitSales, NextSales, TypesHold, PTL DEF Spec

\* A bill is what the customer works out, and counts the tickets.
LEMMA BillsAreFair ==
  ASSUME SaleInvariant, NEW o \in Orders, status[o] # "none"
  PROVE  /\ bill[o].total \in Nat /\ TicketCount(bill[o].lines) = QuantityOf[o]
         /\ bill[o].total = FairTotal(bill[o].price, QuantityOf[o], SeatsOf[o], FoodOf[o])
<1>1. PICK price \in Prices : bill[o] = Bill(o, price)
  BY DEF SaleInvariant, SaleFacts
<1>2. /\ price \in Nat /\ SeatsOf[o] \in SUBSET Seats
      /\ ValidRequest(QuantityOf[o], SeatsOf[o], FoodOf[o]) /\ Resolvable(FoodOf[o])
  BY StorefrontConstants, ReplicaConstants DEF SaleInvariant, SaleFacts, Asked
<1>3. /\ bill[o].price = price /\ bill[o].lines = Quote(o, price)
      /\ bill[o].total = QuoteTotal(Quote(o, price))
  BY <1>1 DEF Bill
<1> QED BY <1>2, <1>3, QuoteIsFair DEF Quote, TicketCount

\* Types: rows, requests and copies are what the tables and the requests may hold,
\* available_tickets is never below zero, and no total is.
THEOREM TypeCorrect == Spec => []TypeOK
<1>1. CopyInvariant /\ SaleInvariant => TypeOK
  <2> SUFFICES ASSUME CopyInvariant, SaleInvariant PROVE TypeOK
    OBVIOUS
  <2>1. ASSUME NEW o \in Orders PROVE bill[o].total \in Nat
    <3>1. CASE status[o] = "none"
      BY <3>1 DEF SaleInvariant, SaleFacts, NoBill
    <3> QED BY <3>1, BillsAreFair
  <2> QED BY <2>1 DEF TypeOK, CopyInvariant, SaleInvariant, SaleTypes
<1> QED BY <1>1, TypesHold, SalesHold, PTL

\* What is charged adds up however long the request took and whatever became of
\* the film: the lines count the tickets that are printed, and the total is what
\* every seat, every product and the fee come to at the price that was read.
THEOREM ChargesAreFair == Spec => []ChargedFairly
<1>1. SaleInvariant => ChargedFairly
  BY BillsAreFair DEF ChargedFairly
<1> QED BY <1>1, SalesHold, PTL

\* A quote for any valid selection of what is on sale is what a customer works out
\* from the list of prices, whatever the price of the film has become.
THEOREM QuotesAreFair == Spec => []QuotesFair
<1>1. CopyInvariant => QuotesFair
  <2> SUFFICES ASSUME CopyInvariant, NEW m \in Movies, movies[m].state = "active",
                      NEW quantity \in 1..3, NEW seats \in SUBSET Seats, NEW food \in Baskets,
                      ValidRequest(quantity, seats, food)
               PROVE  QuoteTotal(BuildQuote(movies[m].price, quantity, seats, food))
                        = FairTotal(movies[m].price, quantity, seats, food)
    BY DEF QuotesFair
  <2>1. movies[m].price \in Nat
    <3>1. movies[m] \in MovieRows
      BY DEF CopyInvariant, ReplicaTypes, NoMovie
    <3> QED BY <3>1, ReplicaConstants DEF MovieRows
  <2>2. Resolvable(food)
    BY DEF Baskets, Resolvable
  <2> QED BY <2>1, <2>2, QuoteIsFair
<1> QED BY <1>1, TypesHold, PTL
-------------------------------------------------------------------------------
(* The reports.                                                            *)

\* Over any rows whose members h sends into the places Y, and any places that
\* include those of all rows, the column of f is the sum of f over the rows.
LEMMA ColumnIsSum ==
  ASSUME NEW f, NEW rows \in SUBSET Orders, \A o \in rows : f[o] \in Int,
         NEW h, NEW Y, IsFiniteSet(Y), \A o \in rows : h[o] \in Y,
         NEW report, NEW k, DOMAIN report = Y,
         \A y \in Y : report[y][k] = Sum(f, Part(rows, h, y))
  PROVE  Column(report, k) = Sum(f, rows)
<1> DEFINE g == [x \in DOMAIN report |-> report[x][k]]
<1>1. \A y \in Y : g[y] = Sum(f, Part(rows, h, y))
  OBVIOUS
<1>2. IsFiniteSet(rows)
  BY StorefrontConstants, FS_Subset
<1>3. Column(report, k) = Sum(g, Y)
  BY DEF Column, Sum
<1> HIDE DEF g
<1>4. Sum(g, Y) = Sum(f, rows)
  BY <1>1, <1>2, SumByParts
<1> QED BY <1>3, <1>4

\* A number of purchases is a sum of ones.
LEMMA CardinalityIsSum ==
  ASSUME NEW rows \in SUBSET Orders
  PROVE  Cardinality(rows) = Sum([o \in Orders |-> 1], rows)
<1> DEFINE ones == [o \in Orders |-> 1]
<1>1. IsFiniteSet(rows) /\ \A o \in rows : ones[o] = 1
  BY StorefrontConstants, FS_Subset
<1> HIDE DEF ones
<1>2. Sum(ones, rows) = 1 * Cardinality(rows) /\ Cardinality(rows) \in Nat
  BY <1>1, SumOfEquals, FS_CardinalityType
<1> QED BY <1>2 DEF ones

\* The three sales reports tell the same story: the sums over films and over
\* periods are the totals, whatever became of the films.
THEOREM ReportsTellTheSame == Spec => []ReportsAgree
<1>1. SaleInvariant => ReportsAgree
  <2> SUFFICES ASSUME SaleInvariant PROVE ReportsAgree
    OBVIOUS
  <2> DEFINE sold == Rows({"confirmed"})
             returned == Rows({"refunded"})
             both == Rows({"confirmed", "refunded"})
             ones == [o \in Orders |-> 1]
             amounts == [o \in Orders |-> bill[o].total]
             shown == {m \in Movies : RowsOf(m) # {}}
             dates == {p \in Periods : RowsIn(p) # {}}
  <2>1. /\ sold \in SUBSET Orders /\ returned \in SUBSET Orders /\ both \in SUBSET Orders
        /\ both = sold \cup returned /\ sold \cap returned = {}
        /\ \A o \in sold \cup returned : o \in Orders /\ status[o] # "none"
    BY DEF Rows
  <2>2. /\ \A o \in Orders : ones[o] \in Int /\ QuantityOf[o] \in Int
        /\ \A o \in sold \cup returned : amounts[o] \in Int
    BY <2>1, BillsAreFair, StorefrontConstants
  <2>3. IsFiniteSet(shown) /\ IsFiniteSet(dates) /\ IsFiniteSet(sold) /\ IsFiniteSet(returned)
    BY <2>1, StorefrontConstants, FS_Subset
  <2>4. /\ \A o \in both : MovieOf[o] \in shown
        /\ \A o \in sold : PeriodOf[o] \in dates
    BY StorefrontConstants DEF RowsOf, RowsIn, Rows
  <2>5. /\ \A m : RowsOf(m) = Part(both, MovieOf, m)
        /\ \A m : RowsOf(m) \cap sold = Part(sold, MovieOf, m)
        /\ \A m : RowsOf(m) \cap returned = Part(returned, MovieOf, m)
        /\ \A p : RowsIn(p) = Part(sold, PeriodOf, p)
    BY DEF RowsOf, RowsIn, Rows, Part
  <2>6. /\ \A rows : Total(rows) = Sum(amounts, rows) /\ Tickets(rows) = Sum(QuantityOf, rows)
        /\ \A rows \in SUBSET Orders : Cardinality(rows) = Sum(ones, rows)
    BY CardinalityIsSum DEF Total, Tickets, Sum
  <2>7. /\ DOMAIN ReportByMovie = shown /\ DOMAIN ReportByDate = dates
        /\ \A m \in shown : /\ ReportByMovie[m].purchases = Cardinality(RowsOf(m))
                            /\ ReportByMovie[m].revenue = Total(RowsOf(m) \cap sold)
                            /\ ReportByMovie[m].refunded = Total(RowsOf(m) \cap returned)
        /\ \A p \in dates : /\ ReportByDate[p].purchases = Cardinality(RowsIn(p))
                            /\ ReportByDate[p].tickets = Tickets(RowsIn(p))
                            /\ ReportByDate[p].revenue = Total(RowsIn(p))
    BY DEF ReportByMovie, ReportByDate
  <2>8. /\ SalesReport.purchases = Cardinality(sold) /\ SalesReport.refunds = Cardinality(returned)
        /\ SalesReport.revenue = Total(sold) /\ SalesReport.refunded = Total(returned)
        /\ SalesReport.tickets = Tickets(sold)
    BY DEF SalesReport
  <2> HIDE DEF sold, returned, both, ones, amounts, shown, dates
  <2>9. Column(ReportByMovie, "revenue") = Sum(amounts, sold)
    <3>1. \A m \in shown : ReportByMovie[m]["revenue"] = Sum(amounts, Part(sold, MovieOf, m))
      BY <2>5, <2>6, <2>7
    <3> QED BY <2>1, <2>2, <2>3, <2>4, <2>7, <3>1, ColumnIsSum
  <2>10. Column(ReportByMovie, "refunded") = Sum(amounts, returned)
    <3>1. \A m \in shown :
            ReportByMovie[m]["refunded"] = Sum(amounts, Part(returned, MovieOf, m))
      BY <2>5, <2>6, <2>7
    <3> QED BY <2>1, <2>2, <2>3, <2>4, <2>7, <3>1, ColumnIsSum
  <2>11. Column(ReportByMovie, "purchases") = Sum(ones, both)
    <3>1. \A m \in shown : ReportByMovie[m]["purchases"] = Sum(ones, Part(both, MovieOf, m))
      <4>1. \A m : Part(both, MovieOf, m) \in SUBSET Orders
        BY <2>1 DEF Part
      <4> QED BY <2>5, <2>6, <2>7, <4>1
    <3>2. /\ both \in SUBSET Orders /\ IsFiniteSet(shown) /\ DOMAIN ReportByMovie = shown
          /\ \A o \in both : ones[o] \in Int /\ MovieOf[o] \in shown
      BY <2>1, <2>2, <2>3, <2>4, <2>7
    <3> QED BY <3>1, <3>2, ColumnIsSum
  <2>12. Sum(ones, both) = Cardinality(sold) + Cardinality(returned)
    <3>1. Sum(ones, sold \cup returned) = Sum(ones, sold) + Sum(ones, returned)
      BY <2>1, <2>2, <2>3, SumUnion
    <3> QED BY <2>1, <2>6, <3>1
  <2>13. Column(ReportByDate, "revenue") = Sum(amounts, sold)
    <3>1. \A p \in dates : ReportByDate[p]["revenue"] = Sum(amounts, Part(sold, PeriodOf, p))
      BY <2>5, <2>6, <2>7
    <3> QED BY <2>1, <2>2, <2>3, <2>4, <2>7, <3>1, ColumnIsSum
  <2>14. Column(ReportByDate, "purchases") = Sum(ones, sold)
    <3>1. \A p \in dates : ReportByDate[p]["purchases"] = Sum(ones, Part(sold, PeriodOf, p))
      <4>1. \A p : Part(sold, PeriodOf, p) \in SUBSET Orders
        BY <2>1 DEF Part
      <4> QED BY <2>5, <2>6, <2>7, <4>1
    <3>2. \A o \in sold : ones[o] \in Int
      BY <2>1, <2>2
    <3> QED BY <2>1, <2>3, <2>4, <2>7, <3>1, <3>2, ColumnIsSum
  <2>15. Column(ReportByDate, "tickets") = Sum(QuantityOf, sold)
    <3>1. \A p \in dates :
            ReportByDate[p]["tickets"] = Sum(QuantityOf, Part(sold, PeriodOf, p))
      BY <2>5, <2>6, <2>7
    <3>2. \A o \in sold : QuantityOf[o] \in Int
      BY <2>1, <2>2
    <3> QED BY <2>1, <2>3, <2>4, <2>7, <3>1, <3>2, ColumnIsSum
  <2>16. Sum(ones, sold) = Cardinality(sold)
    BY <2>1, <2>6
  <2>17. \A k \in {"revenue", "purchases", "tickets"} : Column(ReportByDate, k) = SalesReport[k]
    BY <2>6, <2>8, <2>13, <2>14, <2>15, <2>16
  <2> QED BY <2>6, <2>8, <2>9, <2>10, <2>11, <2>12, <2>17 DEF ReportsAgree
<1> QED BY <1>1, SalesHold, PTL
-------------------------------------------------------------------------------
(* Booking's own count of tickets.                                         *)

SoldOf(m) == {o \in Orders : status[o] = "confirmed" /\ MovieOf[o] = m}
SoldCount(m) == Sum(QuantityOf, SoldOf(m))
Silent(m) == \A i \in Events("movie.updated", m) : log["movie.updated"][i].data.stock = Nothing

OneCreated(m) == \A i, j \in Events("movie.created", m) : i = j
Balance(m) ==
  movies[m].state # "none" /\ Silent(m) =>
    \A i \in Events("movie.created", m) :
      movies[m].stock + SoldCount(m) >= log["movie.created"][i].data.stock

Accounted == \A m \in Movies : OneCreated(m) /\ Balance(m)

\* One event only is there to choose.
LEMMA OnlyOne ==
  ASSUME NEW events, NEW x, NEW i \in DOMAIN events, events[i].of = x,
         \A j \in DOMAIN events : events[j].of = x => j = i
  PROVE  (CHOOSE e \in Range(events) : e.of = x) = events[i]
<1>1. events[i] \in Range(events) /\ \A e \in Range(events) : e.of = x => e = events[i]
  BY DEF Range
<1> QED BY <1>1

LEMMA TicketNumbers ==
  ASSUME NEW rows \in SUBSET Orders
  PROVE  IsFiniteSet(rows) /\ Sum(QuantityOf, rows) \in Nat
<1>1. IsFiniteSet(rows) /\ \A o \in rows : QuantityOf[o] \in Nat
  BY StorefrontConstants, FS_Subset
<1> QED BY <1>1, SumIsNat

LEMMA SoldNumbers ==
  ASSUME NEW m
  PROVE  SoldCount(m) \in Nat /\ SoldCount(m)' \in Nat
<1>1. SoldOf(m) \in SUBSET Orders /\ SoldOf(m)' \in SUBSET Orders
  BY DEF SoldOf
<1>2. SoldCount(m) = Sum(QuantityOf, SoldOf(m)) /\ SoldCount(m)' = Sum(QuantityOf, SoldOf(m)')
  BY DEF SoldCount
<1> QED BY <1>1, <1>2, TicketNumbers

\* The facts of a film together account for its tickets.
LEMMA AccountedIsEnough ==
  ASSUME CopyInvariant, Copied, Accounted
  PROVE  StockAccounted
<1> SUFFICES ASSUME NEW m \in Movies, movies[m].state # "none",
                    \A i \in 1..Len(log["movie.updated"]) :
                      log["movie.updated"][i].of = m => log["movie.updated"][i].data.stock = Nothing
             PROVE  movies[m].stock + Tickets({o \in RowsOf(m) : status[o] = "confirmed"})
                      >= FirstStock(m)
  BY DEF StockAccounted
<1>1. {o \in RowsOf(m) : status[o] = "confirmed"} = SoldOf(m)
  BY DEF RowsOf, Rows, SoldOf
<1>2. PICK i : i \in Events("movie.created", m)
  BY DEF Copied, FilmHistory
<1>3. FirstStock(m) = log["movie.created"][i].data.stock
  <2>1. "movie.created" \in Topics
    BY DEF Topics
  <2>2. DOMAIN log["movie.created"] = 1..Len(log["movie.created"])
    BY <2>1 DEF CopyInvariant, ReplicaTypes
  <2>3. /\ i \in DOMAIN log["movie.created"] /\ log["movie.created"][i].of = m
        /\ \A j \in DOMAIN log["movie.created"] : log["movie.created"][j].of = m => j = i
    BY <1>2, <2>2 DEF Accounted, OneCreated, Events
  <2>4. (CHOOSE e \in Range(log["movie.created"]) : e.of = m) = log["movie.created"][i]
    BY <2>3, OnlyOne
  <2> QED BY <2>4 DEF FirstStock
<1>4. Silent(m)
  BY DEF Silent, Events
<1>5. movies[m].stock + SoldCount(m) >= log["movie.created"][i].data.stock
  BY <1>2, <1>4 DEF Accounted, Balance
<1> QED BY <1>1, <1>3, <1>5 DEF Tickets, SoldCount, Sum

\* The events that were sent, as far as this count depends on them: those of a
\* film with a row stay what they were.
LedgerKept(m) ==
  /\ \A s \in Topics : /\ Events(s, m) \subseteq Events(s, m)'
                       /\ \A i \in Events(s, m) : log'[s][i] = log[s][i]
  /\ \/ Events("movie.created", m)' = Events("movie.created", m)
     \/ movies[m].state = "none" /\ Events("movie.created", m) = {}
        /\ \E n : Events("movie.created", m)' = {n}

LEMMA OneStays ==
  ASSUME NEW m \in Movies, LedgerKept(m), OneCreated(m)
  PROVE  OneCreated(m)'
BY DEF LedgerKept, OneCreated

LEMMA BalanceStays ==
  ASSUME NEW m \in Movies, LedgerKept(m), Balance(m), ReplicaTypes, ReplicaTypes',
         movies'[m].state # "none" => movies[m].state # "none",
         movies'[m].state # "none" /\ Silent(m) =>
           movies'[m].stock + SoldCount(m)' >= movies[m].stock + SoldCount(m)
  PROVE  Balance(m)'
<1> SUFFICES ASSUME movies'[m].state # "none", Silent(m)', NEW i \in Events("movie.created", m)'
             PROVE  movies'[m].stock + SoldCount(m)' >= log'["movie.created"][i].data.stock
  BY DEF Balance
<1>1. /\ movies[m].state # "none" /\ i \in Events("movie.created", m)
      /\ log'["movie.created"][i] = log["movie.created"][i]
  BY DEF LedgerKept, Topics
<1>2. Silent(m)
  BY DEF Silent, LedgerKept, Topics
<1>3. movies[m].stock + SoldCount(m) >= log["movie.created"][i].data.stock
  BY <1>1, <1>2 DEF Balance
<1>4. log["movie.created"][i].data.stock \in Nat
  BY <1>1, ReplicaConstants DEF ReplicaTypes, Events, EventsOf, Fields, Topics
<1>5. movies[m].stock \in Nat /\ movies'[m].stock \in Nat
  BY DEF ReplicaTypes, MovieRows, NoMovie
<1>6. SoldCount(m) \in Nat /\ SoldCount(m)' \in Nat
  BY SoldNumbers
<1>7. movies'[m].stock + SoldCount(m)' >= movies[m].stock + SoldCount(m)
  BY <1>2
<1> QED BY <1>1, <1>3, <1>4, <1>5, <1>6, <1>7

LEMMA OwnersAccounted ==
  ASSUME ReplicaTypes, ReplicaTypes', Copied, Accounted, Owners, UNCHANGED saleVars
  PROVE  Accounted'
<1>1. \E t \in Topics : \E of, data : EventSent(t, of, data)
                         /\ (t = "movie.created" => of \in Movies /\ Events(t, of) = {}
                                                     /\ movies[of].state = "none")
  <2>1. ASSUME NEW u \in Users, DeactivateUser(u) PROVE EventSent("user.deactivated", u, Nothing)
    BY <2>1, DeactivateUserFacts
  <2>2. ASSUME NEW u \in Users, NEW p \in Profiles, Register(u, p)
        PROVE  EventSent("user.registered", u, p)
    BY <2>2, RegisterFacts
  <2>3. ASSUME NEW m \in Movies, DeactivateMovie(m) PROVE EventSent("movie.deactivated", m, Nothing)
    BY <2>3, DeactivateMovieFacts
  <2>4. ASSUME NEW m \in Movies, NEW price \in Prices, NEW stock \in Figures,
               CreateMovie(m, price, stock)
        PROVE  /\ EventSent("movie.created", m, [price |-> price, stock |-> stock])
               /\ Events("movie.created", m) = {} /\ movies[m].state = "none"
    BY <2>4, CreateMovieFacts DEF CreateMovie, Copied, FilmHistory
  <2>5. ASSUME NEW m \in Movies, NEW price \in Prices \cup {Nothing},
               NEW stock \in Figures \cup {Nothing}, UpdateMovie(m, price, stock)
        PROVE  EventSent("movie.updated", m, [price |-> price, stock |-> stock])
    BY <2>5, UpdateMovieFacts
  <2> QED BY <2>1, <2>2, <2>3, <2>4, <2>5 DEF Owners, Topics
<1>2. ASSUME NEW m \in Movies PROVE LedgerKept(m)
  <2>1. PICK t \in Topics : \E of, data : EventSent(t, of, data)
                         /\ (t = "movie.created" => of \in Movies /\ Events(t, of) = {}
                                                     /\ movies[of].state = "none")
    BY <1>1
  <2>2. PICK of, data : EventSent(t, of, data)
                         /\ (t = "movie.created" => of \in Movies /\ Events(t, of) = {}
                                                     /\ movies[of].state = "none")
    BY <2>1
  <2>3. /\ \A r \in Topics : r # t \/ m # of => Events(r, m)' = Events(r, m)
        /\ t \in Topics /\ \E n : Events(t, of)' = Events(t, of) \cup {n}
        /\ \A r \in Topics : \A i \in Events(r, m) : log'[r][i] = log[r][i]
    BY <2>2 DEF EventSent
  <2>4. \A r \in Topics : Events(r, m) \subseteq Events(r, m)'
    BY <2>3
  <2>5. CASE t = "movie.created" /\ of = m
    BY <2>2, <2>3, <2>4, <2>5 DEF LedgerKept
  <2>6. CASE ~ (t = "movie.created" /\ of = m)
    BY <2>3, <2>4, <2>6 DEF LedgerKept, Topics
  <2> QED BY <2>5, <2>6
<1>3. UNCHANGED movies /\ \A m : SoldCount(m)' = SoldCount(m)
  BY OwnerSteps DEF SoldCount, SoldOf, saleVars
<1>4. ASSUME NEW m \in Movies PROVE OneCreated(m)' /\ Balance(m)'
  <2>1. OneCreated(m) /\ Balance(m)
    BY DEF Accounted
  <2>2. movies[m].stock \in Nat /\ SoldCount(m) \in Nat
    BY SoldNumbers DEF ReplicaTypes, MovieRows, NoMovie
  <2>3. movies'[m].stock + SoldCount(m)' >= movies[m].stock + SoldCount(m)
    BY <1>3, <2>2
  <2> QED BY <1>2, <1>3, <2>1, <2>3, OneStays, BalanceStays
<1> QED BY <1>4 DEF Accounted

\* Steps after which no film has a row that had none, no event is there that was
\* not, and the film has as many tickets, with those that are sold, as before.
LEMMA SameLedger ==
  ASSUME ReplicaTypes, ReplicaTypes', Accounted, UNCHANGED log, NEW m \in Movies,
         movies'[m].state # "none" => movies[m].state # "none",
         Silent(m) => movies'[m].stock + SoldCount(m)' >= movies[m].stock + SoldCount(m)
  PROVE  OneCreated(m)' /\ Balance(m)'
<1>1. LedgerKept(m)
  BY DEF LedgerKept, Events
<1> QED BY <1>1, OneStays, BalanceStays DEF Accounted

LEMMA HandleAccounted ==
  ASSUME ReplicaTypes, ReplicaTypes', Accounted, NEW t \in Topics, Handle(t), UNCHANGED saleVars
  PROVE  Accounted'
<1>0. PICK e : e = Coming(t)
  OBVIOUS
<1>1. UNCHANGED log /\ e \in EventsOf(t) /\ \A m : SoldCount(m)' = SoldCount(m)
  BY <1>0, EventTypes DEF Handle, SoldCount, SoldOf, saleVars
<1>2. \A m \in Movies : movies[m].stock \in Nat /\ SoldCount(m) \in Nat
  BY SoldNumbers DEF ReplicaTypes, MovieRows, NoMovie
<1>3. ASSUME NEW m \in Movies, movies'[m].state # "none" => movies[m].state # "none",
             Silent(m) => movies'[m].stock = movies[m].stock
      PROVE  OneCreated(m)' /\ Balance(m)'
  BY <1>1, <1>2, <1>3, SameLedger
<1>4. CASE t \in {"user.registered", "user.deactivated", "movie.deactivated"}
  <2>1. \A m \in Movies : movies'[m].stock = movies[m].stock
                        /\ (movies'[m].state # "none" => movies[m].state # "none")
    <3>1. CASE UNCHANGED movies
      BY <3>1
    <3>2. CASE /\ e.of \in Movies /\ movies[e.of].state # "none"
               /\ movies' = [movies EXCEPT ![e.of].state = "inactive"]
      <4>1. movies[e.of] \in MovieRows
        BY <3>2 DEF ReplicaTypes, NoMovie
      <4>2. movies'[e.of].stock = movies[e.of].stock
        BY <3>2, <4>1 DEF ReplicaTypes, MovieRows
      <4> QED BY <3>2, <4>2 DEF ReplicaTypes
    <3>3. t = "movie.deactivated" => e.of \in Movies
      BY <1>1 DEF EventsOf
    <3> QED BY <1>0, <1>4, <3>1, <3>2, <3>3
            DEF Handle, UserRegistered, UserDeactivated, MovieDeactivated, copyVars
  <2> QED BY <1>3, <2>1 DEF Accounted
<1>5. CASE t = "movie.updated"
  <2>1. MovieUpdated(e) /\ e.of \in Movies
    BY <1>0, <1>1, <1>5 DEF Handle, EventsOf
  <2>2. Silent(e.of) => e.data.stock = Nothing
    <3>1. offset[t] + 1 \in Events("movie.updated", e.of)
      BY <1>0, <1>5 DEF Handle, Events, Coming, ReplicaTypes
    <3> QED BY <1>0, <1>5, <3>1 DEF Silent, Coming
  <2>3. ASSUME NEW m \in Movies
        PROVE  /\ movies'[m].state # "none" => movies[m].state # "none"
               /\ Silent(m) => movies'[m].stock = movies[m].stock
    <3>1. CASE UNCHANGED movies
      BY <3>1
    <3>2. CASE /\ movies[e.of].state # "none"
               /\ movies' = [movies EXCEPT ![e.of] = SetFields(movies[e.of], e.data)]
      <4>1. movies[e.of] \in MovieRows
        BY <2>1, <3>2 DEF ReplicaTypes, NoMovie
      <4>2. e.data.stock = Nothing => SetFields(movies[e.of], e.data).stock = movies[e.of].stock
        BY <4>1 DEF SetFields, MovieRows
      <4> QED BY <2>1, <2>2, <3>2, <4>2 DEF ReplicaTypes
    <3> QED BY <2>1, <3>1, <3>2 DEF MovieUpdated, copyVars
  <2> QED BY <1>3, <2>3 DEF Accounted
<1>6. CASE t = "movie.created"
  <2>1. MovieCreated(e) /\ e.of \in Movies /\ e.data.stock \in Nat
    BY <1>0, <1>1, <1>6, ReplicaConstants DEF Handle, EventsOf, Fields
  <2>2. ASSUME NEW m \in Movies, m # e.of \/ movies[e.of].state # "none"
        PROVE  OneCreated(m)' /\ Balance(m)'
    <3>1. movies'[m] = movies[m]
      BY <2>1, <2>2 DEF MovieCreated, ReplicaTypes
    <3> QED BY <1>3, <3>1
  <2>3. CASE movies[e.of].state = "none"
    <3>1. movies'[e.of].stock = e.data.stock
      BY <2>1, <2>3 DEF MovieCreated, ReplicaTypes
    <3>2. offset[t] + 1 \in Events("movie.created", e.of) /\ e = log["movie.created"][offset[t] + 1]
      BY <1>0, <1>6 DEF Handle, Events, Coming, ReplicaTypes
    <3>3. OneCreated(e.of)
      BY <2>1 DEF Accounted
    <3>4. \A i \in Events("movie.created", e.of) : log["movie.created"][i] = e
      BY <3>2, <3>3 DEF OneCreated
    <3>5. Events("movie.created", e.of)' = Events("movie.created", e.of)
      BY <1>1 DEF Events
    <3>6. movies'[e.of].stock + SoldCount(e.of)' >= e.data.stock
      BY <1>1, <1>2, <2>1, <3>1
    <3>7. Balance(e.of)'
      BY <1>1, <3>4, <3>5, <3>6 DEF Balance
    <3>8. OneCreated(e.of)'
      BY <3>3, <3>5 DEF OneCreated
    <3> QED BY <2>2, <3>7, <3>8 DEF Accounted
  <2> QED BY <2>2, <2>3 DEF Accounted
<1> QED BY <1>4, <1>5, <1>6 DEF Topics

LEMMA DecisionAccounted ==
  ASSUME CopyInvariant, CopyInvariant', SaleInvariant, Accounted, Decisions
  PROVE  Accounted'
<1>1. PICK o \in Orders : Confirm(o) \/ Cancel(o) \/ GiveBack(o)
  BY DEF Decisions
<1> DEFINE x == MovieOf[o]
<1>2. StockOnly /\ ReplicaTypes /\ ReplicaTypes'
  BY DecisionSteps DEF CopyInvariant
<1>3. /\ QuantityOf[o] \in Nat /\ x \in Movies
      /\ \A m \in Movies : movies[m].stock \in Nat /\ SoldCount(m) \in Nat /\ SoldCount(m)' \in Nat
  BY <1>2, StorefrontConstants, SoldNumbers DEF ReplicaTypes, MovieRows, NoMovie
<1>4. /\ \A p \in Orders \ {o} : status'[p] = status[p]
      /\ status'[o] = IF Confirm(o) THEN "confirmed" ELSE IF Cancel(o) THEN "cancelled" ELSE "refunded"
      /\ status[o] = IF Confirm(o) \/ Cancel(o) THEN "pending" ELSE "confirmed"
  BY <1>1 DEF Confirm, Cancel, GiveBack, Decide, SaleInvariant, SaleTypes
<1>5. \A m \in Movies \ {x} : SoldOf(m)' = SoldOf(m)
  BY <1>4 DEF SoldOf
<1>6. \A m \in Movies \ {x} : movies'[m] = movies[m]
  BY <1>1 DEF Confirm, Cancel, GiveBack, Stock, CopyInvariant, ReplicaTypes
<1>7. movies'[x].stock + SoldCount(x)' >= movies[x].stock + SoldCount(x)
  <2>1. ASSUME NEW S \in SUBSET Orders, o \in S
        PROVE  Sum(QuantityOf, S) = QuantityOf[o] + Sum(QuantityOf, S \ {o})
    <3>1. IsFiniteSet(S) /\ \A p \in S : QuantityOf[p] \in Int
      BY StorefrontConstants, TicketNumbers
    <3> QED BY <2>1, <3>1, SumRemove
  <2>2. SoldOf(x) \in SUBSET Orders /\ SoldOf(x)' \in SUBSET Orders
    BY DEF SoldOf
  <2>3. CASE Confirm(o)
    <3>1. o \in SoldOf(x)' /\ SoldOf(x) = SoldOf(x)' \ {o}
      BY <1>4, <2>3 DEF SoldOf
    <3>2. SoldCount(x)' = QuantityOf[o] + SoldCount(x)
      BY <2>1, <2>2, <3>1 DEF SoldCount
    <3>3. movies'[x].stock = MaxZero(movies[x].stock - QuantityOf[o])
      BY <1>3, <2>3 DEF Confirm, Stock, Film, CopyInvariant, ReplicaTypes
    <3>4. MaxZero(movies[x].stock - QuantityOf[o]) >= movies[x].stock - QuantityOf[o]
          /\ MaxZero(movies[x].stock - QuantityOf[o]) \in Int
      BY <1>3 DEF MaxZero
    <3> HIDE DEF x
    <3> QED BY <1>3, <3>2, <3>3, <3>4
  <2>4. CASE GiveBack(o)
    <3>1. ~Confirm(o) /\ ~Cancel(o)
      BY <2>4 DEF Confirm, Cancel, GiveBack, Decide
    <3>2. o \in SoldOf(x) /\ SoldOf(x)' = SoldOf(x) \ {o}
      BY <1>4, <3>1 DEF SoldOf
    <3>3. SoldCount(x) = QuantityOf[o] + SoldCount(x)'
      BY <2>1, <2>2, <3>2 DEF SoldCount
    <3>4. movies'[x].stock = movies[x].stock + QuantityOf[o]
      BY <1>3, <2>4 DEF GiveBack, Stock, Film, CopyInvariant, ReplicaTypes
    <3> HIDE DEF x
    <3> QED BY <1>3, <3>3, <3>4
  <2>5. CASE Cancel(o)
    <3>1. SoldOf(x)' = SoldOf(x) /\ UNCHANGED movies
      BY <2>5 DEF Cancel, Decide, SoldOf, SaleInvariant, SaleTypes
    <3>2. SoldCount(x)' = SoldCount(x)
      BY <3>1 DEF SoldCount
    <3> HIDE DEF x
    <3> QED BY <1>3, <3>1, <3>2
  <2> QED BY <1>1, <2>3, <2>4, <2>5
<1> HIDE DEF x
<1>8. ASSUME NEW m \in Movies PROVE OneCreated(m)' /\ Balance(m)'
  <2>1. movies'[m].stock + SoldCount(m)' >= movies[m].stock + SoldCount(m)
    <3>1. CASE m # x
      <4>1. SoldCount(m)' = SoldCount(m) /\ movies'[m] = movies[m]
        BY <1>5, <1>6, <3>1 DEF SoldCount
      <4> QED BY <1>3, <4>1
    <3> QED BY <1>7, <3>1
  <2> QED BY <1>2, <2>1, SameLedger DEF StockOnly
<1> QED BY <1>8 DEF Accounted

LEMMA NextAccounted ==
  ASSUME CopyInvariant, SaleInvariant, Copied, Accounted, [Next]_vars
  PROVE  Accounted'
<1>1. CopyInvariant' /\ ReplicaTypes /\ ReplicaTypes'
  BY NextTypes DEF CopyInvariant
<1>2. ASSUME UNCHANGED <<log, movies>>, \A o \in Orders : status'[o] = "confirmed" <=> status[o] = "confirmed"
      PROVE  Accounted'
  <2>1. \A m : SoldOf(m)' = SoldOf(m)
    BY <1>2 DEF SoldOf
  <2>2. \A m : SoldCount(m)' = SoldCount(m)
    BY <2>1 DEF SoldCount
  <2>3. ASSUME NEW m \in Movies PROVE OneCreated(m)' /\ Balance(m)'
    <3>1. movies[m].stock \in Nat /\ SoldCount(m) \in Nat
      BY <1>1, SoldNumbers DEF ReplicaTypes, MovieRows, NoMovie
    <3>2. movies'[m].stock + SoldCount(m)' >= movies[m].stock + SoldCount(m)
      BY <1>2, <2>2, <3>1
    <3> QED BY <1>1, <1>2, <3>2, SameLedger
  <2> QED BY <2>3 DEF Accounted
<1>3. CASE Requests
  <2>1. UNCHANGED <<log, movies>>
    BY <1>3, RequestSteps DEF replicaVars, readVars, copyVars
  <2>2. UNCHANGED status \/ \E o \in Orders : status[o] = "none" /\ status' = [status EXCEPT ![o] = "pending"]
    <3>1. ASSUME NEW o \in Orders, NEW price, Insert(o, price)
          PROVE  status' = [status EXCEPT ![o] = "pending"]
      BY <3>1 DEF Insert
    <3>2. ASSUME NEW o \in Orders, request[o].at \in {"function", "seats"} PROVE status[o] = "none"
      BY <3>2 DEF SaleInvariant, SaleFacts, NoRequest
    <3> QED BY <1>3, <3>1, <3>2 DEF Requests, Begin, FunctionKnown, SeatsHeld, Refuse, Price
  <2>3. \A o \in Orders : status'[o] = "confirmed" <=> status[o] = "confirmed"
    BY <2>2 DEF SaleInvariant, SaleTypes
  <2> QED BY <1>2, <2>1, <2>3
<1>4. CASE UNCHANGED <<log, movies, status>>
  BY <1>2, <1>4
<1>5. CASE Crash \/ UNCHANGED vars
  BY <1>4, <1>5 DEF Crash, vars, replicaVars, readVars, copyVars, saleVars
<1>6. CASE Replicate
  <2>1. UNCHANGED saleVars /\ (Owners \/ Consumer)
    BY <1>6 DEF Replicate, ReplicaNext, Owners, Consumer
  <2>2. CASE Owners
    BY <1>1, <2>1, <2>2, OwnersAccounted
  <2>3. ASSUME NEW t \in Topics, Handle(t) PROVE Accounted'
    BY <1>1, <2>1, <2>3, HandleAccounted
  <2>4. CASE CommitOffset \/ ConsumerRestarts \/ \E t \in Topics : HandlerFails(t)
    BY <1>4, <2>1, <2>4 DEF CommitOffset, ConsumerRestarts, HandlerFails, copyVars, saleVars
  <2> QED BY <2>1, <2>2, <2>3, <2>4 DEF Consumer
<1>7. CASE Decisions
  BY <1>1, <1>7, DecisionAccounted
<1> QED BY <1>3, <1>5, <1>6, <1>7 DEF Next, Requests, Decisions

LEMMA InitAccounted == Init => Accounted
BY DEF Init, ReplicaInit, Accounted, OneCreated, Balance, Events, Topics, NoMovie

\* Booking's own count survives the events: while admin-service sends no figure
\* for a film, available_tickets and the confirmed purchases together account for
\* all that the film began with.
THEOREM StockIsAccounted == Spec => []StockAccounted
<1>1. CopyInvariant /\ Copied /\ SaleInvariant /\ Accounted /\ [Next]_vars => Accounted'
  BY NextAccounted
<1>2. CopyInvariant /\ Copied /\ Accounted => StockAccounted
  BY AccountedIsEnough
<1> QED BY InitAccounted, <1>1, <1>2, TypesHold, SalesHold, CopiedHolds, PTL DEF Spec
===============================================================================
