------------------------------- MODULE Replicas -------------------------------
(***************************************************************************)
(* The copies of users and movies that booking keeps, and the five         *)
(* handlers of kafka/consumer.py that apply the events of auth-service and *)
(* admin-service to them.  Every topic is a log that is read in its order; *)
(* nothing orders one topic against another.  The consumer handles one     *)
(* message, waits for the commit of its offset and goes on; after a        *)
(* restart the message whose offset was not committed comes again.         *)
(***************************************************************************)
EXTENDS Integers, Sequences, FiniteSets

CONSTANTS
  Users, Movies,          \* identities
  Profiles,               \* email, names, phone and role of a user
  Prices, Figures,        \* prices of films, and their available_tickets as sent
  Nothing,                \* a field that an event does not carry
  NoTopic,
  MaxEvents, MaxFaults    \* bounds of the model

Topics == {"user.registered", "user.deactivated",
           "movie.created", "movie.updated", "movie.deactivated"}

ASSUME ReplicaConstants ==
  /\ Users \cap Movies = {} /\ NoTopic \notin Topics
  /\ Prices \subseteq Nat /\ Figures \subseteq Nat
  /\ Nothing \notin Profiles \cup Nat
  /\ MaxEvents \in Nat /\ MaxFaults \in Nat

VARIABLES
  account,  \* auth-service: state and profile of each user
  film,     \* admin-service: state and price of each film
  users,    \* table users
  movies,   \* table movies
  log,      \* the events of each topic
  offset,   \* how many of them are committed
  inhand,   \* the topic whose next event is handled but not committed
  missed,   \* whose events changed nothing: no row yet, or a failed handler
  faults

copyVars == <<users, movies>>
readVars == <<copyVars, offset, inhand, missed>>
replicaVars == <<account, film, log, readVars, faults>>

States == {"active", "inactive"}
UserRows == [state : States, profile : Profiles]
FilmData == [state : States, price : Prices]
MovieRows == [state : States, price : Prices, stock : Nat]

Fields(prices, figures) == [price : prices, stock : figures]
EventsOf(t) ==
  CASE t = "user.registered"   -> [of : Users, data : Profiles]
    [] t = "user.deactivated"  -> [of : Users, data : {Nothing}]
    [] t = "movie.created"     -> [of : Movies, data : Fields(Prices, Figures)]
    [] t = "movie.updated"     -> [of : Movies, data : Fields(Prices \cup {Nothing}, Figures \cup {Nothing})]
    [] t = "movie.deactivated" -> [of : Movies, data : {Nothing}]

NoUser == [state |-> "none", profile |-> Nothing]
NoFilm == [state |-> "none", price |-> Nothing]
NoMovie == [state |-> "none", price |-> Nothing, stock |-> 0]

\* The event of a topic that the consumer reads next, and those it has not read.
Coming(t) == log[t][offset[t] + 1]
Read(t) == IF inhand = t THEN offset[t] + 1 ELSE offset[t]
Unread(t) == (Read(t) + 1)..Len(log[t])
-------------------------------------------------------------------------------
(* The handlers.                                                           *)

\* Mutant: the event always makes its user active.
Reactivated(row) == "active"
StateAfterRegistered(row) == IF row.state = "none" THEN "active" ELSE row.state

\* INSERT ... ON CONFLICT DO UPDATE, of everything but is_active.
UserRegistered(e) ==
  /\ users' = [users EXCEPT ![e.of] =
                 [state |-> StateAfterRegistered(@), profile |-> e.data]]
  /\ UNCHANGED <<movies, missed>>

\* UPDATE ... WHERE id: without a row the event has no effect.
UserDeactivated(e) ==
  \/ /\ users[e.of].state = "none"
     /\ missed' = missed \cup {e.of} /\ UNCHANGED copyVars
  \/ /\ users[e.of].state # "none"
     /\ users' = [users EXCEPT ![e.of].state = "inactive"]
     /\ UNCHANGED <<movies, missed>>

\* INSERT ... ON CONFLICT DO NOTHING.
MovieCreated(e) ==
  /\ movies' = IF movies[e.of].state = "none"
               THEN [movies EXCEPT ![e.of] =
                       [state |-> "active", price |-> e.data.price, stock |-> e.data.stock]]
               ELSE movies
  /\ UNCHANGED <<users, missed>>

\* Only the fields that the event carries are written.
AllFields(row, data) ==            \* mutant: a count that is not sent is written as 0
  [row EXCEPT !.price = IF data.price = Nothing THEN @ ELSE data.price,
              !.stock = IF data.stock = Nothing THEN 0 ELSE data.stock]
SetFields(row, data) ==
  [row EXCEPT !.price = IF data.price = Nothing THEN @ ELSE data.price,
              !.stock = IF data.stock = Nothing THEN @ ELSE data.stock]

NoFields == [price |-> Nothing, stock |-> Nothing]
MovieUpdated(e) ==
  \/ /\ e.data = NoFields
     /\ UNCHANGED <<copyVars, missed>>
  \/ /\ e.data # NoFields /\ movies[e.of].state = "none"
     /\ missed' = missed \cup {e.of} /\ UNCHANGED copyVars
  \/ /\ e.data # NoFields /\ movies[e.of].state # "none"
     /\ movies' = [movies EXCEPT ![e.of] = SetFields(@, e.data)]
     /\ UNCHANGED <<users, missed>>

MovieDeactivated(e) ==
  \/ /\ movies[e.of].state = "none"
     /\ missed' = missed \cup {e.of} /\ UNCHANGED copyVars
  \/ /\ movies[e.of].state # "none"
     /\ movies' = [movies EXCEPT ![e.of].state = "inactive"]
     /\ UNCHANGED <<users, missed>>
-------------------------------------------------------------------------------
(* The loop of _run_consumer.                                              *)

\* Mutant: an update waits for its film.
OnlyKnown(t) == t = "movie.updated" => movies[Coming(t).of].state # "none"
Ready(t) == TRUE

\* The handler of the next event of a topic runs; the commit is waited for.
Handle(t) ==
  /\ inhand = NoTopic /\ offset[t] < Len(log[t]) /\ Ready(t)
  /\ \/ t = "user.registered"   /\ UserRegistered(Coming(t))
     \/ t = "user.deactivated"  /\ UserDeactivated(Coming(t))
     \/ t = "movie.created"     /\ MovieCreated(Coming(t))
     \/ t = "movie.updated"     /\ MovieUpdated(Coming(t))
     \/ t = "movie.deactivated" /\ MovieDeactivated(Coming(t))
  /\ inhand' = t
  /\ UNCHANGED <<account, film, log, offset, faults>>

Fault == faults < MaxFaults /\ faults' = faults + 1

\* The handler raises, and the event goes to the dead letter topic, or its
\* payload is incomplete: no row changes and the loop goes on.
HandlerFails(t) ==
  /\ inhand = NoTopic /\ offset[t] < Len(log[t]) /\ Fault
  /\ missed' = missed \cup {Coming(t).of} /\ inhand' = t
  /\ UNCHANGED <<account, film, log, offset, copyVars>>

CommitOffset ==
  /\ inhand # NoTopic
  /\ offset' = [offset EXCEPT ![inhand] = @ + 1] /\ inhand' = NoTopic
  /\ UNCHANGED <<account, film, log, copyVars, missed, faults>>

\* The commit raises: start_consumer begins again, at the committed offsets.
ConsumerRestarts ==
  /\ inhand # NoTopic /\ Fault /\ inhand' = NoTopic
  /\ UNCHANGED <<account, film, log, copyVars, offset, missed>>
-------------------------------------------------------------------------------
(* auth-service and admin-service, as the payloads show them.              *)

Sent == Len(log["user.registered"]) + Len(log["user.deactivated"])
        + Len(log["movie.created"]) + Len(log["movie.updated"]) + Len(log["movie.deactivated"])

Send(t, of, data) ==
  /\ Sent < MaxEvents
  /\ log' = [log EXCEPT ![t] = Append(@, [of |-> of, data |-> data])]
  /\ UNCHANGED <<readVars, faults>>

\* A new account, or the data of one again.
Register(u, p) ==
  /\ account[u].state # "inactive"
  /\ account' = [account EXCEPT ![u] = [state |-> "active", profile |-> p]]
  /\ Send("user.registered", u, p) /\ UNCHANGED film

DeactivateUser(u) ==
  /\ account[u].state = "active"
  /\ account' = [account EXCEPT ![u].state = "inactive"]
  /\ Send("user.deactivated", u, Nothing) /\ UNCHANGED film

CreateMovie(m, price, stock) ==
  /\ film[m].state = "none"
  /\ film' = [film EXCEPT ![m] = [state |-> "active", price |-> price]]
  /\ Send("movie.created", m, [price |-> price, stock |-> stock]) /\ UNCHANGED account

UpdateMovie(m, price, stock) ==
  /\ film[m].state # "none"
  /\ film' = IF price = Nothing THEN film ELSE [film EXCEPT ![m].price = price]
  /\ Send("movie.updated", m, [price |-> price, stock |-> stock]) /\ UNCHANGED account

DeactivateMovie(m) ==
  /\ film[m].state = "active"
  /\ film' = [film EXCEPT ![m].state = "inactive"]
  /\ Send("movie.deactivated", m, Nothing) /\ UNCHANGED account
-------------------------------------------------------------------------------
ReplicaInit ==
  /\ account = [u \in Users |-> NoUser] /\ users = [u \in Users |-> NoUser]
  /\ film = [m \in Movies |-> NoFilm] /\ movies = [m \in Movies |-> NoMovie]
  /\ log = [t \in Topics |-> << >>]
  /\ offset = [t \in Topics |-> 0]
  /\ inhand = NoTopic /\ missed = {} /\ faults = 0

ReplicaNext ==
  \/ \E t \in Topics : Handle(t) \/ HandlerFails(t)
  \/ CommitOffset \/ ConsumerRestarts
  \/ \E u \in Users : DeactivateUser(u) \/ \E p \in Profiles : Register(u, p)
  \/ \E m \in Movies :
       \/ DeactivateMovie(m)
       \/ \E price \in Prices, stock \in Figures : CreateMovie(m, price, stock)
       \/ \E price \in Prices \cup {Nothing}, stock \in Figures \cup {Nothing} :
            UpdateMovie(m, price, stock)
-------------------------------------------------------------------------------
ReplicaTypes ==
  /\ account \in [Users -> UserRows \cup {NoUser}] /\ users \in [Users -> UserRows \cup {NoUser}]
  /\ film \in [Movies -> FilmData \cup {NoFilm}] /\ movies \in [Movies -> MovieRows \cup {NoMovie}]
  /\ log \in [Topics -> Seq(UNION {EventsOf(t) : t \in Topics})]
  /\ \A t \in Topics : \A i \in 1..Len(log[t]) : log[t][i] \in EventsOf(t)
  /\ offset \in [Topics -> Nat] /\ \A t \in Topics : Read(t) <= Len(log[t])
  /\ inhand \in Topics \cup {NoTopic}
  /\ missed \subseteq Users \cup Movies
  /\ faults \in 0..MaxFaults

\* Whoever was deactivated here stays out, whatever events come again or late.
DeactivatedStaysOut ==
  [][/\ \A u \in Users : users[u].state = "inactive" => users'[u].state = "inactive"
     /\ \A m \in Movies : movies[m].state = "inactive" => movies'[m].state = "inactive"]_copyVars

\* The copies agree with the services that own the data: who has no unread event
\* and none that was lost on an absent row or a failure is here as it is there,
\* in whatever order the topics were read and however often an event was.
NothingUnread(x, topics) == \A t \in topics : \A i \in Unread(t) : log[t][i].of # x
InSync ==
  /\ \A u \in Users \ missed : NothingUnread(u, {"user.registered", "user.deactivated"}) =>
       users[u] = account[u]
  /\ \A m \in Movies \ missed :
       NothingUnread(m, {"movie.created", "movie.updated", "movie.deactivated"}) =>
         movies[m].state = film[m].state /\ movies[m].price = film[m].price

\* Every event is read, and committed, in the end, provided it is JSON: one that
\* is not fails before its handler (consumer.py:280) and stops the loop for good.
CaughtUp == <>[](\A t \in Topics : offset[t] = Len(log[t]))
===============================================================================
